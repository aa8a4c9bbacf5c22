------------------------------ MODULE Validators ------------------------------
(***************************************************************************)
(* One text input of a properties form and the type-specific code that     *)
(* handles it (Setting.js): the keypress masks, the validate method of     *)
(* IdSetting, IPv4Setting, MacSetting, IntSetting, Int64Setting and        *)
(* DoubleSetting as DLL.validate calls it, and the conversion of the text  *)
(* into the values sent to the CE (val2XmlrpcVal, simpleVal2XmlrpcVal).    *)
(*                                                                         *)
(* Text is a sequence of one-character strings.  The operator enters it    *)
(* in runs of keystrokes drawn from a small per-type set; a typed run      *)
(* passes the mask, a pasted one does not.  A number is a record           *)
(* [n, e] standing for n / 10^e in lowest terms, or NaN.                   *)
(***************************************************************************)
EXTENDS Integers, Sequences, SequencesExt, FiniteSets

CONSTANTS
    Descriptors,   \* the settings, as records [type, array]
    Tokens,        \* [type -> the keystroke runs the operator may enter]
    MaxLen,        \* [type -> bound on the length of the text]
    min, max,      \* the descriptor's min and max (integers)
    NaN            \* the number NaN

Types       == {"string", "id", "ipv4", "mac", "int", "int64", "double"}
NumberTypes == {"int", "int64", "double"}

ASSUME Descriptors \subseteq [type : Types, array : BOOLEAN]

VARIABLES
    setting,   \* the Setting whose input this is
    text,      \* the input's value
    verdict,   \* the outcome of the last DLL.validate: "none" after an edit
    sent       \* the values val2XmlrpcVal produced at that submission

vars == <<setting, text, verdict, sent>>

-----------------------------------------------------------------------------
(* Characters.                                                             *)

Digits  == {"0", "1", "2", "3", "4", "5", "6", "7", "8", "9"}
LowHex  == <<"0", "1", "2", "3", "4", "5", "6", "7", "8", "9",
             "a", "b", "c", "d", "e", "f">>
HighHex == <<"0", "1", "2", "3", "4", "5", "6", "7", "8", "9",
             "A", "B", "C", "D", "E", "F">>
HexDigits == ToSet(LowHex) \cup ToSet(HighHex)
Lower == {"a", "b", "c", "d", "e", "f", "g", "h", "i", "j", "k", "l", "m",
          "n", "o", "p", "q", "r", "s", "t", "u", "v", "w", "x", "y", "z"}
Upper == {"A", "B", "C", "D", "E", "F", "G", "H", "I", "J", "K", "L", "M",
          "N", "O", "P", "Q", "R", "S", "T", "U", "V", "W", "X", "Y", "Z"}
Letters == Lower \cup Upper
Space   == {" "}

DigitVal(c) ==
    IF \E i \in DOMAIN LowHex : LowHex[i] = c
    THEN (CHOOSE i \in DOMAIN LowHex : LowHex[i] = c) - 1
    ELSE (CHOOSE i \in DOMAIN HighHex : HighHex[i] = c) - 1

\* The value of a string of digits in base b.
RECURSIVE Positional(_, _)
Positional(s, b) ==
    IF s = <<>> THEN 0 ELSE b * Positional(Front(s), b) + DigitVal(Last(s))

IsDigits(s) == s # <<>> /\ ToSet(s) \subseteq Digits

\* s cut at every occurrence of c, as String.split(c) does.
RECURSIVE SplitOn(_, _)
SplitOn(s, c) ==
    IF c \notin ToSet(s) THEN <<s>>
    ELSE LET i == CHOOSE i \in DOMAIN s : s[i] = c /\ c \notin ToSet(SubSeq(s, 1, i - 1))
         IN <<SubSeq(s, 1, i - 1)>> \o SplitOn(SubSeq(s, i + 1, Len(s)), c)

-----------------------------------------------------------------------------
(* Numbers.                                                                *)

RECURSIVE Num(_, _)
Num(n, e) == IF e > 0 /\ n % 10 = 0 THEN Num(n \div 10, e - 1) ELSE [n |-> n, e |-> e]

Below(v, m) == v # NaN /\ v.n < m * 10^v.e
Above(v, m) == v # NaN /\ v.n > m * 10^v.e

\* s without the white space at its two ends.
Trim(s) ==
    LET kept == {i \in DOMAIN s : s[i] \notin Space}
    IN IF kept = {} THEN <<>> ELSE SubSeq(s, Min(kept), Max(kept))

\* A StrDecimalLiteral without exponent: [sign] digits with at most one ".".
IsDecimalLiteral(s) ==
    LET b == IF s # <<>> /\ s[1] \in {"+", "-"} THEN Tail(s) ELSE s
    IN /\ ToSet(b) \subseteq Digits \cup {"."}
       /\ ToSet(b) \cap Digits # {}
       /\ Cardinality({i \in DOMAIN b : b[i] = "."}) <= 1

DecimalValue(s) ==
    LET b    == IF s[1] \in {"+", "-"} THEN Tail(s) ELSE s
        dot  == {i \in DOMAIN b : b[i] = "."}
        frac == IF dot = {} THEN 0 ELSE Len(b) - Min(dot)
        sign == IF s[1] = "-" THEN -1 ELSE 1
    IN Num(sign * Positional(SelectSeq(b, LAMBDA c : c # "."), 10), frac)

IsHexLiteral(s) ==
    Len(s) >= 3 /\ s[1] = "0" /\ s[2] \in {"x", "X"}
    /\ ToSet(SubSeq(s, 3, Len(s))) \subseteq HexDigits

\* Mutant: parseInt's reading, the fraction dropped.
JSNumberTruncating(s) ==
    LET t == Trim(s) IN
    CASE t = <<>>             -> Num(0, 0)
      [] IsHexLiteral(t)      -> Num(Positional(SubSeq(t, 3, Len(t)), 16), 0)
      [] IsDecimalLiteral(t)  -> LET v == DecimalValue(t) IN Num(v.n \div 10^v.e, 0)
      [] OTHER                -> NaN

(***************************************************************************)
(* JavaScript's Number(s) on a string: white space trimmed, "" is 0, a     *)
(* 0x literal is hexadecimal (unsigned), else a decimal literal or NaN.    *)
(***************************************************************************)
JSNumber(s) ==
    LET t == Trim(s) IN
    CASE t = <<>>             -> Num(0, 0)
      [] IsHexLiteral(t)      -> Num(Positional(SubSeq(t, 3, Len(t)), 16), 0)
      [] IsDecimalLiteral(t)  -> DecimalValue(t)
      [] OTHER                -> NaN

-----------------------------------------------------------------------------
(* The validate methods, testVal being one element of the input.           *)

\* IdSetting.validate: /^[a-z\*][\-a-z0-9_\*]*$/i.
IdValidate(e) ==
    e # <<>> /\ e[1] \in Letters \cup {"*"}
    /\ ToSet(Tail(e)) \subseteq Letters \cup Digits \cup {"-", "_", "*"}

\* Mutant: an octet of 255 taken as out of range.
IPv4ValidateOffByOne(e) ==
    LET o == SplitOn(e, ".")
    IN Len(o) = 4 /\ \A i \in DOMAIN o : IsDigits(o[i]) /\ Len(o[i]) <= 3
                                         /\ ~(Positional(o[i], 10) >= 255)

\* IPv4Setting.validate: /^([0-9]{1,3}\.){3}[0-9]{1,3}$/, then no octet > 255.
IPv4Validate(e) ==
    LET o == SplitOn(e, ".")
    IN Len(o) = 4 /\ \A i \in DOMAIN o : IsDigits(o[i]) /\ Len(o[i]) <= 3
                                         /\ ~(Positional(o[i], 10) > 255)

\* MacSetting.validate: /^([0-9a-f]{1,2}\:)+[0-9a-f]{1,2}$/i, then no
\* group's parseInt(val, 16) > 255.
MacValidate(e) ==
    LET g == SplitOn(e, ":")
    IN Len(g) >= 2 /\ \A i \in DOMAIN g : Len(g[i]) \in 1..2
                                         /\ ToSet(g[i]) \subseteq HexDigits
                                         /\ ~(Positional(g[i], 16) > 255)

(***************************************************************************)
(* NumberSetting.validate: the range check on new Number(input.val() with  *)
(* its first "l" removed): the whole input, not the element.  NaN is      *)
(* neither below min nor above max.                                        *)
(***************************************************************************)
NumberValidate(whole) ==
    LET v == JSNumber(RemoveFirstMatch(whole, LAMBDA c : c \in {"l", "L"}))
    IN ~Below(v, min) /\ ~Above(v, max)

\* /^(\-?[0-9]+|0x[0-9a-f]+)$/i
IntPattern(e) ==
    \/ IsDigits(e)
    \/ e # <<>> /\ e[1] = "-" /\ IsDigits(Tail(e))
    \/ IsHexLiteral(e)

IntValidate(e, whole) == IntPattern(e) /\ NumberValidate(whole)

\* /^(\-?[0-9]+|0x[0-9a-f]+)l?$/i
Int64Validate(e, whole) ==
    /\ \/ IntPattern(e)
       \/ e # <<>> /\ Last(e) \in {"l", "L"} /\ IntPattern(Front(e))
    /\ NumberValidate(whole)

\* /^\-?([0-9]*\.?[0-9]+|[0-9]+\.?[0-9]*)$/
DoubleValidate(e, whole) ==
    /\ IsDecimalLiteral(e)
    /\ e[1] # "+"
    /\ NumberValidate(whole)

\* Setting.prototype.validate, which StringSetting keeps: it returns the
\* Setting and never throws.
BaseValidate(e) == TRUE

\* The validate of the Setting subclass makeFromProps builds for dataType.
Validate(type, e, whole) ==
    CASE type = "string" -> BaseValidate(e)
      [] type = "id"     -> IdValidate(e)
      [] type = "ipv4"   -> IPv4Validate(e)
      [] type = "mac"    -> MacValidate(e)
      [] type = "int"    -> IntValidate(e, whole)
      [] type = "int64"  -> Int64Validate(e, whole)
      [] type = "double" -> DoubleValidate(e, whole)

-----------------------------------------------------------------------------
(* Keypress masks: the class of characters each type's maskInput lets     *)
(* through; baseMaskInput also lets a comma through for an array.          *)

\* The characters of the keystroke runs.
Chars == UNION {ToSet(tok) : tok \in UNION {Tokens[ty] : ty \in DOMAIN Tokens}}

\* Setting.insertNewInput gives a plain field no keypress handler.
StringMask == Chars

IdMask     == Letters \cup Digits \cup {"_", "*"}       \* /[a-z0-9_\*]/i
IPv4Mask   == Digits \cup {"."}                          \* /[0-9\.]/
MacMask    == HexDigits \cup {":"}                       \* /[0-9a-f\:]/i
IntMask    == HexDigits \cup {"x", "X", "-"}             \* /[x0-9a-f\-]/i
Int64Mask  == IntMask \cup {"l", "L"}                    \* /[x0-9a-f\-l]/i
DoubleMask == Digits \cup {"-", "."}                     \* /[0-9\-\.]/

MaskClass(type) ==
    CASE type = "string" -> StringMask
      [] type = "id"     -> IdMask
      [] type = "ipv4"   -> IPv4Mask
      [] type = "mac"    -> MacMask
      [] type = "int"    -> IntMask
      [] type = "int64"  -> Int64Mask
      [] type = "double" -> DoubleMask

MaskAllows(d, c) == (d.array /\ c = ",") \/ c \in MaskClass(d.type)

-----------------------------------------------------------------------------
(* Conversion.                                                             *)

\* s.split(/\s*\,\s*/): cut at commas, the white space next to each dropped.
ArraySplit(s) ==
    LET p == SplitOn(s, ",")
        Piece(i) ==
            LET kept  == {j \in DOMAIN p[i] : p[i][j] \notin Space}
                first == IF i = 1 THEN 1 ELSE IF kept = {} THEN Len(p[i]) + 1 ELSE Min(kept)
                last  == IF i = Len(p) THEN Len(p[i]) ELSE IF kept = {} THEN 0 ELSE Max(kept)
            IN SubSeq(p[i], first, last)
    IN [i \in DOMAIN p |-> Piece(i)]

Elements(d, s) == IF d.array THEN ArraySplit(s) ELSE <<s>>

\* DLL.validate for this input (not required): a non-empty value is valid
\* when every element passes the Setting's validate.
FieldValid(d, s) ==
    s = <<>> \/ \A i \in DOMAIN Elements(d, s) : Validate(d.type, Elements(d, s)[i], s)

\* The xmlrpcval type a Setting's dataType names ("int64" becomes "i8").
XmlrpcType(type) ==
    CASE type = "int"    -> "int"
      [] type = "int64"  -> "i8"
      [] type = "double" -> "double"
      [] OTHER           -> "string"

\* Mutant: a number Setting sends the element's text, as a StringSetting does.
SimpleValAsString(type, e) == [type |-> "string", val |-> e]

\* StringSetting.simpleVal2XmlrpcVal: new xmlrpcval(settingVal, "string").
StringVal(e) == [type |-> "string", val |-> e]

\* simpleVal2XmlrpcVal: new xmlrpcval(Number(settingVal), dataType) for a
\* NumberSetting, StringSetting's for the others.
SimpleVal(type, e) ==
    IF type \in NumberTypes THEN [type |-> XmlrpcType(type), val |-> JSNumber(e)]
    ELSE StringVal(e)

\* val2XmlrpcVal: one value per element.
Serialize(d, s) == [i \in DOMAIN Elements(d, s) |-> SimpleVal(d.type, Elements(d, s)[i])]

-----------------------------------------------------------------------------
(***************************************************************************)
(* The input's handlers.                                                   *)
(***************************************************************************)
Init ==
    /\ setting \in Descriptors
    /\ text = <<>>
    /\ verdict = "none"
    /\ sent = <<>>

Fits(tok) == Len(text) + Len(tok) <= MaxLen[setting.type]

\* Keystrokes that the type's maskInput lets through.
Type(tok) ==
    /\ Fits(tok)
    /\ \A i \in DOMAIN tok : MaskAllows(setting, tok[i])
    /\ text' = text \o tok
    /\ verdict' = "none"
    /\ sent' = <<>>
    /\ UNCHANGED setting

\* Text pasted into the input: no keypress, so no mask.
Paste(tok) ==
    /\ Fits(tok)
    /\ \E i \in DOMAIN tok : ~MaskAllows(setting, tok[i])
    /\ text' = text \o tok
    /\ verdict' = "none"
    /\ sent' = <<>>
    /\ UNCHANGED setting

Clear ==
    /\ text # <<>>
    /\ text' = <<>>
    /\ verdict' = "none"
    /\ sent' = <<>>
    /\ UNCHANGED setting

(***************************************************************************)
(* applyChangesToCE: DLL.validate, and when it passes sendIfNeeded with    *)
(* val2XmlrpcVal (an empty input sends no value).                          *)
(***************************************************************************)
Submit ==
    /\ verdict = "none"
    /\ verdict' = IF FieldValid(setting, text) THEN "accepted" ELSE "rejected"
    /\ sent' = IF FieldValid(setting, text) /\ text # <<>>
               THEN Serialize(setting, text) ELSE <<>>
    /\ UNCHANGED <<setting, text>>

Next ==
    \/ \E tok \in Tokens[setting.type] : Type(tok) \/ Paste(tok)
    \/ Clear
    \/ Submit

Spec == Init /\ [][Next]_vars

-----------------------------------------------------------------------------
(***************************************************************************)
(* The accepted forms of spec section 4.3, element by element.             *)
(***************************************************************************)
SpecDecimalInt(e) == IsDigits(e) \/ (e # <<>> /\ e[1] = "-" /\ IsDigits(Tail(e)))

SpecIntValue(e) ==
    IF IsHexLiteral(e) THEN Num(Positional(SubSeq(e, 3, Len(e)), 16), 0)
    ELSE IF e[1] = "-" THEN Num(-Positional(Tail(e), 10), 0)
    ELSE Num(Positional(e, 10), 0)

SpecNoSuffix(e) == IF e # <<>> /\ Last(e) \in {"l", "L"} THEN Front(e) ELSE e

SpecValue(type, e) ==
    CASE type \in {"int", "int64"} -> SpecIntValue(SpecNoSuffix(e))
      [] type = "double"           -> DecimalValue(e)
      [] OTHER                     -> e

InRange(v) == v.n >= min * 10^v.e /\ v.n <= max * 10^v.e

SpecForm(type, e) ==
    CASE type = "string" -> TRUE
      [] type = "id"     -> e # <<>> /\ e[1] \in Letters \cup {"*"}
                            /\ \A i \in 2..Len(e) : e[i] \in Letters \cup Digits \cup {"-", "_", "*"}
      [] type = "ipv4"   -> LET o == SplitOn(e, ".") IN
                            Len(o) = 4 /\ \A i \in 1..4 : IsDigits(o[i]) /\ Len(o[i]) <= 3
                                                         /\ Positional(o[i], 10) \in 0..255
      [] type = "mac"    -> LET g == SplitOn(e, ":") IN
                            Len(g) > 1 /\ \A i \in DOMAIN g : g[i] \in BoundedSeq(HexDigits, 2)
                                                              /\ g[i] # <<>>
      [] type = "int"    -> SpecDecimalInt(e) \/ IsHexLiteral(e)
      [] type = "int64"  -> LET f == SpecNoSuffix(e) IN SpecDecimalInt(f) \/ IsHexLiteral(f)
      [] type = "double" -> IsDecimalLiteral(e) /\ e[1] # "+"

SpecElementOK(type, e) ==
    SpecForm(type, e) /\ (type \in NumberTypes => InRange(SpecValue(type, e)))

SpecAccepts(d, s) ==
    s = <<>> \/ \A i \in DOMAIN Elements(d, s) : SpecElementOK(d.type, Elements(d, s)[i])

SpecSent(d, s) ==
    IF s = <<>> THEN <<>>
    ELSE [i \in DOMAIN Elements(d, s) |->
            [type |-> XmlrpcType(d.type), val |-> SpecValue(d.type, Elements(d, s)[i])]]

-----------------------------------------------------------------------------

Number == [n : Int, e : Nat]

TypeOK ==
    /\ setting \in Descriptors
    /\ text \in Seq(Chars)
    /\ verdict \in {"none", "accepted", "rejected"}
    /\ \A i \in DOMAIN sent :
          /\ sent[i].type = XmlrpcType(setting.type)
          /\ IF setting.type \in NumberTypes THEN sent[i].val \in Number \cup {NaN}
                                            ELSE sent[i].val \in Seq(Chars)

(***************************************************************************)
(* DLL.validate passes a field exactly when each of its elements has the   *)
(* accepted form of its type and, for a number, lies in [min, max] (spec   *)
(* 4.3): the regexes, the octet and group checks and NumberSetting's range *)
(* check on the whole input together decide as the table does.             *)
(***************************************************************************)
ValidateMatchesSpec ==
    verdict # "none" => (verdict = "accepted" <=> SpecAccepts(setting, text))

(***************************************************************************)
(* What val2XmlrpcVal sends for a validated field is the value of each     *)
(* element the operator wrote: Number() of the text the validators         *)
(* accepted is the number that text denotes.                               *)
(***************************************************************************)
SentAsSpecified ==
    verdict = "accepted" => sent = SpecSent(setting, text)

====
