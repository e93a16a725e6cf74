---------------------------- MODULE PhoneNumbers ----------------------------
(***************************************************************************)
(* The digit rules of lambda/truedialog/phone.py.  An entry of the court   *)
(* database is what somebody typed: a sequence of digits and of marks,     *)
(* which stand for every character that is not a digit.                    *)
(***************************************************************************)
EXTENDS Naturals, Sequences

CONSTANTS
  Mark,      \* any character but a digit
  Unusable   \* normalize_us_phone raised ValueError

\* What is left of an entry when everything else is taken out.
Digits(entry) ==
  LET upto[n \in 0..Len(entry)] ==
        IF n = 0 THEN <<>>
        ELSE IF entry[n] \in 0..9 THEN Append(upto[n - 1], entry[n]) ELSE upto[n - 1]
  IN  upto[Len(entry)]

\* A plausible bug in National: a number is what its last ten digits are.
LastTenDigits(digits) ==
  IF Len(digits) > 10 THEN SubSeq(digits, Len(digits) - 9, Len(digits)) ELSE digits

\* A plausible bug in National: E.164 is not reckoned with.
AllDigits(digits) == digits

\* The digits without the country code: a leading 1, if ten more follow.
National(digits) ==
  IF Len(digits) = 11 /\ digits[1] = 1 THEN Tail(digits) ELSE digits

\* Neither the area code nor the exchange starts with 0 or 1.
Assigned(digits) ==
  Len(digits) = 10 /\ digits[1] \notin {0, 1} /\ digits[4] \notin {0, 1}

E164(digits) == <<Mark, 1>> \o digits

Normalize(entry) ==
  LET digits == National(Digits(entry))
  IN IF Assigned(digits) THEN E164(digits) ELSE Unusable

-----------------------------------------------------------------------------
(* What that must come to, stated without its steps.                       *)

\* An entry spells a number if its digits are that number's, all of them and
\* in their order, with or without the country code.
Spells(entry, digits) == Digits(entry) \in {digits, <<1>> \o digits}

\* The only number that an entry of ten digits or more can spell.
LastTen(entry) ==
  LET d == Digits(entry) IN SubSeq(d, Len(d) - 9, Len(d))

\* The number dialled is one that the entry spells: no digit of it is dropped,
\* an extension's included, and one that spells a number is not refused.
DialsWhatIsSpelled(entry) ==
  IF Len(Digits(entry)) >= 10 /\ Assigned(LastTen(entry)) /\ Spells(entry, LastTen(entry))
  THEN Normalize(entry) = E164(LastTen(entry))
  ELSE Normalize(entry) = Unusable

\* The daily run normalizes a number before it is queued (recipient), and the
\* client does so again before it is dialled (send_message): to the same.
NormalizedOnceIsEnough(entry) ==
  Normalize(entry) # Unusable => Normalize(Normalize(entry)) = Normalize(entry)
=============================================================================
