------------------------------ MODULE Punycode ------------------------------
(***************************************************************************)
(* Host names with letters outside ASCII, as sing-box has to be given them *)
(* (src/daemon/punycode.go, RFC 3492).  A name is a sequence of code       *)
(* points.  Decoded, at the end, is the reference: the decoder of the RFC, *)
(* which no part of the daemon has.                                        *)
(*                                                                         *)
(* A loop is a function from the number of its turns to what the variables *)
(* of the loop are after them.                                             *)
(***************************************************************************)
EXTENDS Integers, Sequences, SequencesExt, Slices

Base == 36
TMin == 1
TMax == 26
Skew == 38
Damp == 700
InitialBias == 72
InitialN == 128

Hyphen == 45
Dot == 46
Prefix == <<120, 110, Hyphen, Hyphen>>  \* xn--

IsASCII(s) == \A i \in DOMAIN s : s[i] < InitialN

-----------------------------------------------------------------------------
(* Encoding *)

\* a to z, 0 to 9
PunyDigit(d) == IF d < 26 THEN 97 + d ELSE 48 + d - 26

\* delta divided by d again and again.
Quotients(delta, d) ==
  LET after[j \in 0..delta] == IF j = 0 THEN delta ELSE after[j - 1] \div d
  IN  after

\* The turns after which it is at most m for the first time.
Until(after, m) ==
  CHOOSE j \in DOMAIN after : after[j] <= m /\ \A i \in 0..(j - 1) : after[i] > m

\* punyAdapt from its loop on.
Reduced(delta) ==
  LET after == Quotients(delta, Base - TMin)
      turns == Until(after, ((Base - TMin) * TMax) \div 2)
  IN  Base * turns + ((Base - TMin + 1) * after[turns]) \div (after[turns] + Skew)

\* Bug: the first delta of a label is scaled like the others.
BugPunyAdapt(delta, numPoints, firstTime) ==
  LET scaled == delta \div 2
  IN  Reduced(scaled + scaled \div numPoints)

PunyAdapt(delta, numPoints, firstTime) ==
  LET scaled == delta \div (IF firstTime THEN Damp ELSE 2)
  IN  Reduced(scaled + scaled \div numPoints)

Threshold(k, bias) ==
  CASE k - bias < TMin -> TMin
    [] k - bias > TMax -> TMax
    [] OTHER -> k - bias

\* q, with the threshold of each turn taken off and divided by the rest.
Left(delta, bias) ==
  LET q[j \in 0..delta] ==
        IF j = 0 THEN delta
        ELSE LET t == Threshold(Base * j, bias) IN (q[j - 1] - t) \div (Base - t)
  IN  q

\* The turns of the loop that writes a number.
Turns(delta, bias) ==
  LET q == Left(delta, bias)
      t(j) == Threshold(Base * j, bias)
  IN  CHOOSE j \in 0..delta : q[j] < t(j + 1) /\ \A i \in 1..j : q[i - 1] >= t(i)

\* delta as digits, the least first, of a base that varies with the turn.
Digits(delta, bias) ==
  LET q == Left(delta, bias)
      turns == Turns(delta, bias)
      t(j) == Threshold(Base * j, bias)
  IN  [j \in 1..(turns + 1) |->
        PunyDigit(IF j > turns THEN q[turns] ELSE t(j) + ((q[j - 1] - t(j)) % (Base - t(j))))]

Basic(label) == Picked(label, {i \in DOMAIN label : label[i] < InitialN})

\* What is ASCII comes first.
Begun(label) ==
  [out |-> Prefix \o Basic(label) \o (IF Basic(label) # <<>> THEN <<Hyphen>> ELSE <<>>),
   n |-> InitialN, bias |-> InitialBias, delta |-> 0, handled |-> Len(Basic(label))]

\* One turn of the loop over a label: s.n is the code point of this round.
Rune(label, s, c) ==
  CASE c < s.n -> [s EXCEPT !.delta = @ + 1]
    [] c = s.n ->
         [s EXCEPT !.out = @ \o Digits(s.delta, s.bias),
                   !.bias = PunyAdapt(s.delta, s.handled + 1, s.handled = Len(Basic(label))),
                   !.delta = 0,
                   !.handled = @ + 1]
    [] OTHER -> s

\* The loop over a label.
Runes(label, s) ==
  LET after[p \in 0..Len(label)] == IF p = 0 THEN s ELSE Rune(label, after[p - 1], label[p])
  IN  after

\* Every place of the least code point that is left.
Round(label, s) ==
  LET m == Min({c \in Range(label) : c >= s.n})
      end == Runes(label, [s EXCEPT !.delta = @ + (m - s.n) * (s.handled + 1), !.n = m])[Len(label)]
  IN  [end EXCEPT !.delta = @ + 1, !.n = @ + 1]

\* For every code point outside ASCII in increasing order, and every place it
\* has, how far to go from the last.
Rounds(label) ==
  LET after[r \in 0..Len(label)] ==
        IF r = 0 THEN Begun(label)
        ELSE LET s == after[r - 1]
             IN  IF s.handled = Len(label) THEN s ELSE Round(label, s)
  IN  after

PunyLabel(label) == IF IsASCII(label) THEN label ELSE Rounds(label)[Len(label)].out

\* The labels of a name, with the dots between them.
Labels(name) ==
  LET upTo[k \in 0..Len(name)] ==
        IF k = 0 THEN << <<>> >>
        ELSE LET parts == upTo[k - 1]
             IN  IF name[k] = Dot
                   THEN Append(parts, <<>>)
                   ELSE [parts EXCEPT ![Len(parts)] = Append(@, name[k])]
  IN  upTo[Len(name)]

Joined(labels) ==
  LET upTo[k \in 0..Len(labels)] ==
        IF k = 0 THEN <<>>
        ELSE IF k = 1 THEN labels[1]
        ELSE upTo[k - 1] \o <<Dot>> \o labels[k]
  IN  upTo[Len(labels)]

\* punyDomain: label by label; a leading dot makes an empty first label.
PunyDomain(name) ==
  LET labels == Labels(name)
  IN  Joined([i \in DOMAIN labels |-> PunyLabel(labels[i])])

-----------------------------------------------------------------------------
(* Decoding, after RFC 3492, section 6.2 *)

DigitValue(c) == IF c >= 97 THEN c - 97 ELSE c - 48 + 26

\* The sum of the differences that section 3.4 sets a bias by.
Halved(delta) ==
  LET after == Quotients(delta, 35)
      k == Until(after, 455)
  IN  36 * k + (36 * after[k]) \div (after[k] + 38)

Bias(delta, length, first) ==
  LET d == IF first THEN delta \div 700 ELSE delta \div 2
  IN  Halved(d + d \div length)

\* t of the digit j of a number.
Limit(j, bias) ==
  LET k == 36 * j
  IN  IF k <= bias + 1 THEN 1 ELSE IF k >= bias + 26 THEN 26 ELSE k - bias

\* What the first digits from position at on are worth, and the next would be.
Worth(text, at, bias) ==
  LET upTo[j \in 0..(Len(text) + 1 - at)] ==
        IF j = 0 THEN [value |-> 0, weight |-> 1]
        ELSE LET last == upTo[j - 1]
             IN  [value |-> last.value + DigitValue(text[at + j - 1]) * last.weight,
                  weight |-> last.weight * (36 - Limit(j, bias))]
  IN  upTo

\* A number ends with the first digit below its limit.
Length(text, at, bias) ==
  LET digit(j) == DigitValue(text[at + j - 1])
  IN  CHOOSE j \in 1..(Len(text) + 1 - at) :
        digit(j) < Limit(j, bias) /\ \A i \in 1..(j - 1) : digit(i) >= Limit(i, bias)

\* The number at s.at puts one more code point into s.out.
Insertion(text, s) ==
  LET length == Length(text, s.at, s.bias)
      value == Worth(text, s.at, s.bias)[length].value
      size == Len(s.out) + 1
      place == s.i + value
      point == s.n + place \div size
      pos == place % size
  IN  [at |-> s.at + length, out |-> InsertAt(s.out, pos + 1, point), n |-> point, i |-> pos + 1,
       bias |-> Bias(value, size, s.i = 0)]

\* What the numbers from position at on make of the code points in ASCII.
Insertions(text, at, basic) ==
  LET after[j \in 0..Len(text)] ==
        IF j = 0 THEN [at |-> at, out |-> basic, n |-> 128, i |-> 0, bias |-> 72]
        ELSE LET s == after[j - 1]
             IN  IF s.at > Len(text) THEN s ELSE Insertion(text, s)
  IN  after

\* What follows the last hyphen are numbers.
DecodedText(text) ==
  LET hyphens == {i \in DOMAIN text : text[i] = Hyphen}
      last == IF hyphens = {} THEN 0 ELSE Max(hyphens)
  IN  Insertions(text, last + 1, SubSeq(text, 1, last - 1))[Len(text)].out

Encoded(label) == Len(label) > 4 /\ SubSeq(label, 1, 4) = Prefix

DecodedLabel(label) ==
  IF Encoded(label) THEN DecodedText(SubSeq(label, 5, Len(label))) ELSE label

Decoded(name) ==
  LET labels == Labels(name)
  IN  Joined([i \in DOMAIN labels |-> DecodedLabel(labels[i])])

\* What the user means by a name, whose labels may be encoded already.
Meant(name) ==
  LET labels == Labels(name)
  IN  Joined([i \in DOMAIN labels |->
               IF IsASCII(labels[i]) THEN DecodedLabel(labels[i]) ELSE labels[i]])
=============================================================================
