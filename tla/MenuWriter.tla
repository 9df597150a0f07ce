------------------------------- MODULE MenuWriter -------------------------------
(***************************************************************************)
(* The bytes MenuWriter (src/src/gopher/proto.cc) appends to a menu: one   *)
(* line for each node or text, and the period that ends it.                *)
(***************************************************************************)
EXTENDS StrUtil

CONSTANTS
  NewLine, Tab, Return,     \* three characters
  InfoHost,                 \* the text "info.host"
  MaxPort                   \* the largest uint16_t

ASSUME MaxPortAssumption == MaxPort \in Nat /\ 70 <= MaxPort
ASSUME CharsAssumption ==
  /\ Cardinality({NewLine, Tab, Return, InfoHost}) = 4
  /\ {NewLine, Tab, Return} \cap {"i", "h", ".", "1"} = {}
  /\ ({NewLine, Tab, Return, InfoHost, "-", "+"} \cup Spaces) \cap DOMAIN DigitValue = {}
  /\ DigitValue \in [DOMAIN DigitValue -> 0..9]
  /\ \A v \in 0..9 : \E c \in DOMAIN DigitValue : DigitValue[c] = v
  /\ "1" \in DOMAIN DigitValue /\ DigitValue["1"] = 1

\* std::to_string
Decimal(number) ==
  LET digit(v) == CHOOSE c \in DOMAIN DigitValue : DigitValue[c] = v
      digits[n \in 0..MaxPort] ==
        IF n < 10 THEN <<digit(n)>> ELSE Append(digits[n \div 10], digit(n % 10))
  IN digits[number]

Eol == <<Return, NewLine>>

\* Mutant of NodeLine: the host comes before the selector.
NodeLineSwapped(type, name, selector, host, port) ==
  <<type>> \o name \o <<Tab>> \o host \o <<Tab>> \o selector \o <<Tab>>
    \o Decimal(port) \o Eol

NodeLine(type, name, selector, host, port) ==
  <<type>> \o name \o <<Tab>> \o selector \o <<Tab>> \o host \o <<Tab>>
    \o Decimal(port) \o Eol

\* text(), of a text that may have tabs of its own.
TextLine(msg) == <<"i">> \o msg \o <<Tab, Tab, InfoHost, Tab, "1">> \o Eol

\* before_write()
LastLine == <<".">> \o Eol
===============================================================================
