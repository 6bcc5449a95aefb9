-------------------------------- MODULE Rans --------------------------------
(***************************************************************************)
(* The entropy coder of the message body (protocol/rans.ts): a state kept  *)
(* in the interval from L to L times the word base, into which the         *)
(* symbols are pushed last first and from which the decoder takes them     *)
(* first first.  The code's M is 2^12, its L and word base 2^16: the model *)
(* is the same arithmetic at any sizes that divide as those do.            *)
(***************************************************************************)
EXTENDS Integers, Sequences, SequencesExt, FiniteSets

CONSTANTS
  M,           \* what the frequencies of a table sum to
  L,           \* lower bound of the state, and its seed
  WordBase,    \* what one renormalization word holds
  Tables,      \* frequency tables with their prefix sums
  RawBases,    \* 2^width of the raw entries
  MaxOps       \* bound on the symbols of a message

\* A raw value takes one slot of as many as its width has values.
RawTable(base) == [freq |-> [i \in 1 .. base |-> 1], cum |-> [i \in 1 .. base |-> i - 1]]

\* Each symbol has at least one of the slots, and none that another has.
Coding(table, slots) ==
  /\ slots \in 1 .. WordBase
  /\ \E k \in 1 .. L : L = k * slots
  /\ DOMAIN table.freq \subseteq 1 .. slots
  /\ \A s \in DOMAIN table.freq :
       /\ table.freq[s] \in Nat \ {0} /\ table.cum[s] \in Nat
       /\ table.cum[s] + table.freq[s] <= slots
       /\ \A t \in DOMAIN table.freq :
            s < t => table.cum[s] + table.freq[s] <= table.cum[t]

ASSUME RansAssumption ==
  /\ L \in Nat \ {0} /\ WordBase \in Nat \ {0, 1} /\ MaxOps \in Nat
  /\ \A table \in Tables : Coding(table, M)
  /\ \A base \in RawBases : base \in Nat /\ Coding(RawTable(base), base)

VARIABLES
  ops,      \* what the message is to say, in the decoder's order
  phase,    \* collect, encode, decode
  pos,      \* the entry the coder is at
  x,        \* the coder's state
  words,    \* renormalization words: emitted, then the message's
  at,       \* words the decoder has read
  out       \* what the decoder has recovered
ransVars == <<ops, phase, pos, x, words, at, out>>

StateMax == L * WordBase

-----------------------------------------------------------------------------
Entries ==
  {[table |-> table, slots |-> M, sym |-> s] : table \in Tables, s \in 1 .. M}
    \union {[table |-> RawTable(base), slots |-> base, sym |-> v] : base \in RawBases, v \in 1 .. WordBase}
Ops == {op \in Entries : op.sym \in DOMAIN op.table.freq}

Freq(op) == op.table.freq[op.sym]
Cum(op)  == op.table.cum[op.sym]

\* The state from which pushing the entry would leave the interval.
Limit(op) == Freq(op) * (StateMax \div op.slots)

\* What is left of the state when k words have gone.
After(y, k) == IF k = 0 THEN y ELSE y \div WordBase

\* How many words have to go before the state is under the limit.
Spill(y, limit) == CHOOSE k \in 0 .. 1 : After(y, k) < limit /\ \A j \in 0 .. k - 1 : After(y, j) >= limit
Spilled(y, k) == [j \in 1 .. k |-> After(y, j - 1) % WordBase]

Push(y, op) == (y \div Freq(op)) * op.slots + (y % Freq(op)) + Cum(op)

-----------------------------------------------------------------------------
RansInit ==
  /\ ops = <<>> /\ phase = "collect" /\ pos = 0
  /\ x = L /\ words = <<>> /\ at = 0 /\ out = <<>>

Collect(op) ==
  /\ phase = "collect" /\ Len(ops) < MaxOps
  /\ ops' = Append(ops, op)
  /\ UNCHANGED <<phase, pos, x, words, at, out>>

(* ransEncode walks the entries backwards. *)
BeginEncode ==
  /\ phase = "collect" /\ ops # <<>>
  /\ phase' = "encode" /\ pos' = Len(ops)
  /\ UNCHANGED <<ops, x, words, at, out>>

EncodeOp ==
  /\ phase = "encode" /\ pos > 0
  /\ LET op == ops[pos]
         k  == Spill(x, Limit(op))
     IN  /\ words' = words \o Spilled(x, k)
         /\ x' = Push(After(x, k), op)
  /\ pos' = pos - 1
  /\ UNCHANGED <<ops, phase, at, out>>

(* The final state, then the words in the order they will be wanted; the
   text a message travels as drops the zeros at its end, and what is read
   past the end is zero. *)
Trimmed(ws) == SubSeq(ws, 1, CHOOSE n \in 0 .. Len(ws) :
                               /\ n = 0 \/ ws[n] # 0
                               /\ \A i \in n + 1 .. Len(ws) : ws[i] = 0)
Word(ws, i) == IF i <= Len(ws) THEN ws[i] ELSE 0
Read(i) == Word(words, i)

Serialize ==
  /\ phase = "encode" /\ pos = 0
  /\ phase' = "decode" /\ pos' = 1
  /\ words' = Trimmed(<<x \div WordBase, x % WordBase>> \o Reverse(words))
  /\ at' = 2 /\ x' = Word(words', 1) * WordBase + Word(words', 2)
  /\ UNCHANGED <<ops, out>>

BadRefill(y) == IF y <= L THEN y * WordBase + Read(at + 1) ELSE y

\* A symbol's worth of words, as many as bring the state back.
Refill(y) == IF y < L THEN y * WordBase + Read(at + 1) ELSE y

(* The decoder knows which table or width is next, not the symbol. *)
Slot(op, s) == op.table.cum[s] <= x % op.slots /\ x % op.slots < op.table.cum[s] + op.table.freq[s]

Pop(op, s) == op.table.freq[s] * (x \div op.slots) + (x % op.slots) - op.table.cum[s]

DecodeOp ==
  /\ phase = "decode" /\ pos <= Len(ops)
  /\ \E s \in DOMAIN ops[pos].table.freq :
       LET y == Pop(ops[pos], s)
       IN  /\ Slot(ops[pos], s)
           /\ x' = Refill(y)
           /\ at' = IF y < L THEN at + 1 ELSE at
           /\ out' = Append(out, s)
  /\ pos' = pos + 1
  /\ UNCHANGED <<ops, phase, words>>

RansNext == \/ \E op \in Ops : Collect(op)
            \/ BeginEncode \/ EncodeOp \/ Serialize \/ DecodeOp

RansSpec == RansInit /\ [][RansNext]_ransVars

-----------------------------------------------------------------------------
(***************************************************************************)
(* The decoder gets back what was encoded, entry by entry, has read every  *)
(* word when it is through, and its state has returned to the seed         *)
(* (assertDone).  The state is inside its interval before and after every  *)
(* entry, of the encoder and the decoder alike: the 32 bits in which it    *)
(* travels hold it, and no product leaves the integers a float represents. *)
(***************************************************************************)
DecodeUndoesEncode ==
  /\ x >= L /\ x < StateMax
  /\ \A i \in DOMAIN out : out[i] = ops[i].sym
  /\ phase = "decode" /\ pos = Len(ops) + 1 => x = L /\ at >= Len(words)

=============================================================================
