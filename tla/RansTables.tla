----------------------------- MODULE RansTables -----------------------------
(***************************************************************************)
(* The frequency table both ends derive from a column of weights           *)
(* (quantizeFreqs of protocol/rans.ts): each weight's share of the slots,  *)
(* rounded down but never under one, and then corrected a slot at a time   *)
(* until the table fills the coder's precision exactly.  Shares are        *)
(* compared as fractions of the weights' total.                            *)
(***************************************************************************)
EXTENDS Integers, Sequences, FiniteSets

CONSTANTS
  Precision,   \* slots of a table (the code's RANS_M, 2^12)
  MaxWeight,
  MaxSymbols

ASSUME RansTablesAssumption ==
  /\ Precision \in Nat \ {0} /\ MaxWeight \in Nat
  /\ MaxSymbols \in 1 .. Precision

VARIABLES
  weights,
  freq,
  handed     \* slots handed out since the rounding
tableVars == <<weights, freq, handed>>

-----------------------------------------------------------------------------
\* What the entries come to up to each of them.
Sums(s) == LET sum[k \in 0 .. Len(s)] == IF k = 0 THEN 0 ELSE sum[k - 1] + s[k] IN sum
Total(s) == Sums(s)[Len(s)]
Symbols == DOMAIN weights

(* buildRansTable: a symbol's slots begin where those before it end. *)
BuildRansTable(f) == [freq |-> f, cum |-> [i \in DOMAIN f |-> Sums(f)[i - 1]]]

(* A symbol's ideal share is Share over Total(weights). *)
Share(i) == weights[i] * Precision
Fraction(i) == Share(i) % Total(weights)
Surplus(i) == freq[i] * Total(weights) - Share(i)

BadRounded(w) == [i \in DOMAIN w |-> (w[i] * Precision) \div Total(w)]

Rounded(w) == [i \in DOMAIN w |-> LET floor == (w[i] * Precision) \div Total(w)
                                  IN  IF floor < 1 THEN 1 ELSE floor]

(* The order of the hand-out: by fraction, the largest first, of equals the
   lower index. *)
Ahead(i, j) == Fraction(i) > Fraction(j) \/ (Fraction(i) = Fraction(j) /\ i < j)
Turn(i) == Cardinality({j \in Symbols : Ahead(j, i)})

(* Who gives a slot back: the entry furthest over its share that can. *)
Donor(i) ==
  /\ freq[i] > 1
  /\ \A j \in Symbols : freq[j] > 1 =>
       Surplus(i) > Surplus(j) \/ (Surplus(i) = Surplus(j) /\ i <= j)

-----------------------------------------------------------------------------
TablesInit == weights = <<>> /\ freq = <<>> /\ handed = 0

Quantize(w) ==
  /\ weights = <<>>
  /\ weights' = w /\ freq' = Rounded(w) /\ handed' = 0

HandOut ==
  /\ weights # <<>> /\ Total(freq) < Precision
  /\ \E i \in Symbols : /\ Turn(i) = handed % Len(weights)
                        /\ freq' = [freq EXCEPT ![i] = @ + 1]
  /\ handed' = handed + 1
  /\ UNCHANGED weights

TakeBack ==
  /\ weights # <<>> /\ Total(freq) > Precision
  /\ \E i \in Symbols : Donor(i) /\ freq' = [freq EXCEPT ![i] = @ - 1]
  /\ UNCHANGED <<weights, handed>>

TablesNext ==
  \/ \E n \in 1 .. MaxSymbols : \E w \in [1 .. n -> 1 .. MaxWeight] : Quantize(w)
  \/ HandOut \/ TakeBack

TablesSpec == TablesInit /\ [][TablesNext]_tableVars

-----------------------------------------------------------------------------
Settled == weights # <<>> /\ Total(freq) = Precision

(***************************************************************************)
(* While slots are to be taken back some symbol has one to spare ("some    *)
(* entry with freq > 1 always exists"), and the table it ends with is one  *)
(* the coder can use and its codebook meant: every symbol has a slot, none *)
(* is two over its share, and a heavier symbol is never more than one      *)
(* behind a lighter (a symbol raised to its first slot keeps its fraction  *)
(* and may be handed a second).                                            *)
(***************************************************************************)
TableFair ==
  /\ weights # <<>> /\ Total(freq) > Precision => \E i \in Symbols : freq[i] > 1
  /\ Settled =>
       /\ \A i \in Symbols : freq[i] >= 1 /\ Surplus(i) < 2 * Total(weights)
       /\ \A i, j \in Symbols : weights[i] > weights[j] => freq[i] >= freq[j] - 1

=============================================================================
