---------------------------- MODULE PhoneProofs ----------------------------
(***************************************************************************)
(* What the stores of the phone promise, proved for every size of the      *)
(* ring, every set of packs, of accounts and of replies and any number of  *)
(* operations under way at once: a request's context stays under its code  *)
(* until the ring comes round (SlotRing), the packs the map draws from are *)
(* on disk (PackStore), an account is held, and only its data stored,      *)
(* until it is gone (Account), and the messages of a reply pasted one by   *)
(* one are that reply (Parts).  Each part states the inductive invariant,  *)
(* proves it action by action and reads the promises off it.               *)
(***************************************************************************)
EXTENDS SlotRing, PackStore, Account, Parts, SequenceTheorems, FiniteSetTheorems, WellFoundedInduction, TLAPS

-----------------------------------------------------------------------------
(***************************************************************************)
(* The request store. While no write failed or undid another, the request  *)
(* RequestKept speaks of is under its code because codes are handed out in *)
(* turn (RecentCodes), so that no other request has had the slot since,    *)
(* and because a slot loses its request to a pruning only with a reply     *)
(* this build no longer reads, which such a slot never holds               *)
(* (RepliesRead). A stale store an operation has read is never written     *)
(* back without the ghost saying so, so nothing need be said of it but its *)
(* type.                                                                   *)
(***************************************************************************)
Slot == [req : Requests \union {NoRequest}, reply : Requests \union {NoRequest}]
Store == [nextCode : Codes, slots : [Codes -> Slot]]
Operation == [do : {NoOp, "alloc", "decode", "attach", "prune", "delete"}, code : Codes,
              reply : Requests \union {NoRequest}, read : Store]
RingTypeOK ==
  /\ storage \in Store /\ memo \in Store
  /\ op \in [Operations -> Operation]
  /\ sent \in Seq(Codes) /\ Len(sent) <= MaxRequests
  /\ models \in BOOLEAN /\ disturbed \in BOOLEAN
  /\ retired \subseteq Made
(* A decode is of a reply there is, an attach of one this build reads. *)
RepliesAreMade ==
  \A o \in Operations : /\ op[o].do = "decode" => op[o].reply \in Made
                        /\ op[o].do = "attach" => op[o].reply \in Made \ retired
(* The code k places before n on the ring. *)
Back(n, k) == IF n >= k THEN n - k ELSE n - k + CodeSpace
(* The last CodeSpace requests went out with the codes just behind the next
   one, in turn. *)
RecentCodes ==
  \A r \in Made : Len(sent) - r < CodeSpace => sent[r] = Back(storage.nextCode, Len(sent) + 1 - r)
SlotsAreMade == \A c \in Codes : storage.slots[c].req # NoRequest => storage.slots[c].req \in Made
(* A slot whose request this build reads holds no reply it does not: else a
   pruning would take both. *)
RepliesRead ==
  \A c \in Codes : storage.slots[c].req # NoRequest /\ storage.slots[c].req \notin retired
                     => storage.slots[c].reply \notin retired
(* RequestKept without its condition. *)
Kept == \A r \in Made \ retired : Len(sent) - r < CodeSpace => storage.slots[sent[r]].req = r

RingInv ==
  /\ RingTypeOK /\ RepliesAreMade
  /\ ~disturbed => RecentCodes /\ Kept /\ SlotsAreMade /\ RepliesRead

-----------------------------------------------------------------------------
LEMMA CodeMod ==
  ASSUME NEW n \in Codes
  PROVE  n % CodeSpace = n /\ (n + 1) % CodeSpace = IF n + 1 = CodeSpace THEN 0 ELSE n + 1
  BY RingAssumption DEF Codes

LEMMA EmptyTypes == EmptySlot \in Slot /\ EmptyStore \in Store /\ Idle \in Operation
<1>1. EmptySlot \in Slot
  BY DEF EmptySlot, Slot
<1>2. 0 \in Codes
  BY RingAssumption DEF Codes
<1>3. EmptyStore \in Store
  BY <1>1, <1>2 DEF EmptyStore, Store
<1> QED BY <1>1, <1>2, <1>3 DEF Idle, Operation

LEMMA RingInitInv == RingInit => RingInv
<1> SUFFICES ASSUME RingInit PROVE RingInv
  OBVIOUS
<1>1. sent \in Seq(Codes) /\ Len(sent) = 0 /\ Made = {}
  BY DEF RingInit, Made
<1>2. RingTypeOK
  <2>1. storage \in Store /\ memo \in Store /\ op \in [Operations -> Operation]
    BY EmptyTypes DEF RingInit
  <2>2. models \in BOOLEAN /\ disturbed \in BOOLEAN /\ retired \subseteq Made
    BY DEF RingInit
  <2> QED BY <1>1, <2>1, <2>2, RingAssumption DEF RingTypeOK
<1>3. RepliesAreMade
  BY RingAssumption DEF RingInit, RepliesAreMade, Idle
<1>4. RecentCodes /\ Kept
  BY <1>1 DEF RecentCodes, Kept
<1>5. \A c \in Codes : storage.slots[c] = EmptySlot
  BY DEF RingInit, EmptyStore
<1>6. SlotsAreMade /\ RepliesRead
  BY <1>1, <1>5 DEF SlotsAreMade, RepliesRead, EmptySlot, NoRequest
<1> QED BY <1>2, <1>3, <1>4, <1>6 DEF RingInv

-----------------------------------------------------------------------------
LEMMA BeginInv ==
  ASSUME RingInv, NEW o \in Operations,
         NEW do \in {"alloc", "decode", "attach", "prune", "delete"}, NEW code \in Codes,
         NEW reply \in Made \union {NoRequest}, Begin(o, do, code, reply),
         do # "attach", do = "decode" => reply \in Made
  PROVE  RingInv'
<1>1. PICK read \in {storage, memo} :
        op' = [op EXCEPT ![o] = [do |-> do, code |-> code, reply |-> reply, read |-> read]]
  BY DEF Begin
<1>2. UNCHANGED <<storage, memo, sent, models, retired, disturbed>>
  BY DEF Begin
<1>3. RingTypeOK /\ RepliesAreMade
  BY DEF RingInv
<1>4. reply \in Requests \union {NoRequest}
  BY <1>3, RingAssumption DEF RingTypeOK, Made, Requests
<1>5. [do |-> do, code |-> code, reply |-> reply, read |-> read] \in Operation
  BY <1>3, <1>4 DEF RingTypeOK, Operation
<1>6. RingTypeOK'
  BY <1>1, <1>2, <1>3, <1>5 DEF RingTypeOK, Made
<1>7. RepliesAreMade'
  BY <1>1, <1>2, <1>3 DEF RepliesAreMade, RingTypeOK, Made
<1> QED BY <1>2, <1>6, <1>7 DEF RingInv, RecentCodes, Kept, SlotsAreMade, RepliesRead, Made

(* What holds of a step that ends an operation, whatever it writes, as long  *)
(* as what it writes is a store.                                             *)
LEMMA PersistType ==
  ASSUME RingTypeOK, NEW o \in Operations, NEW store \in Store,
         Persist(o, store)
  PROVE  storage' \in Store /\ memo' \in Store /\ disturbed' \in BOOLEAN
  BY DEF Persist, RingTypeOK

LEMMA ReadOnlyType ==
  ASSUME RingTypeOK, NEW o \in Operations, ReadOnly(o)
  PROVE  storage' \in Store /\ memo' \in Store /\ disturbed' \in BOOLEAN
<1>1. op[o].read \in Store
  BY DEF RingTypeOK, Operation
<1> QED BY <1>1 DEF ReadOnly, RingTypeOK

LEMMA EndType ==
  ASSUME RingTypeOK, RepliesAreMade, NEW o \in Operations, End(o), UNCHANGED <<models, retired>>,
         storage' \in Store, memo' \in Store, disturbed' \in BOOLEAN,
         sent' \in Seq(Codes), Len(sent') <= MaxRequests, Made \subseteq Made'
  PROVE  RingTypeOK' /\ RepliesAreMade'
<1>1. op' = [op EXCEPT ![o] = Idle]
  BY DEF End
<1>2. RingTypeOK'
  BY <1>1, EmptyTypes DEF RingTypeOK
<1>3. Idle.do = NoOp
  BY DEF Idle
<1>4. RepliesAreMade'
  BY <1>1, <1>3, RingAssumption DEF RepliesAreMade, RingTypeOK
<1> QED BY <1>2, <1>4

LEMMA Undisturbed ==
  ASSUME RingInv, NEW o \in Operations, NEW store, Persist(o, store), ~disturbed'
  PROVE  /\ ~disturbed /\ op[o].read = storage /\ storage' = store
         /\ RecentCodes /\ Kept /\ SlotsAreMade /\ RepliesRead
  BY DEF Persist, RingInv, RingTypeOK

LEMMA AllocInv ==
  ASSUME RingInv, NEW o \in Operations, AllocCode(o)
  PROVE  RingInv'
<1> DEFINE read  == op[o].read
           code  == read.nextCode % CodeSpace
           r     == Len(sent) + 1
           store == [nextCode |-> (code + 1) % CodeSpace,
                     slots |-> [read.slots EXCEPT ![code] = [req |-> r, reply |-> NoRequest]]]
<1>1. r <= MaxRequests /\ Persist(o, store) /\ sent' = Append(sent, code) /\ End(o)
        /\ UNCHANGED <<models, retired>>
  BY DEF AllocCode
<1>2. RingTypeOK /\ RepliesAreMade
  BY DEF RingInv
<1>3. read \in Store
  BY <1>2 DEF RingTypeOK, Operation
<1>4. read.nextCode \in Codes /\ read.slots \in [Codes -> Slot]
  BY <1>3 DEF Store
<1>5. code = read.nextCode /\ code \in Codes
      /\ (code + 1) % CodeSpace = (IF code + 1 = CodeSpace THEN 0 ELSE code + 1)
  <2>1. code = read.nextCode
    BY <1>4, CodeMod
  <2> HIDE DEF code
  <2> QED BY <1>4, <2>1, CodeMod
<1>6. Len(sent) \in Nat /\ sent \in Seq(Codes)
  BY <1>2 DEF RingTypeOK
<1>7. sent' \in Seq(Codes) /\ Len(sent') = r /\ Made' = Made \union {r} /\ r \notin Made
  <2> HIDE DEF code, read, store
  <2> QED BY <1>1, <1>5, <1>6 DEF Made
<1>8. sent'[r] = code /\ \A i \in Made : sent'[i] = sent[i] /\ i \in 1 .. Len(sent)
  <2> HIDE DEF code, read, store
  <2> QED BY <1>1, <1>5, <1>6 DEF Made
<1>9. r \in Requests
  BY <1>1, <1>6 DEF Requests
<1>10. store \in Store
  <2>1. (code + 1) % CodeSpace \in Codes
    <3> HIDE DEF code
    <3> QED BY <1>5, RingAssumption DEF Codes
  <2>2. [req |-> r, reply |-> NoRequest] \in Slot
    BY <1>9 DEF Slot
  <2> HIDE DEF code, r, read
  <2> QED BY <1>4, <1>5, <2>1, <2>2 DEF Store
<1>11. RingTypeOK' /\ RepliesAreMade'
  <2>1. storage' \in Store /\ memo' \in Store /\ disturbed' \in BOOLEAN
    BY <1>1, <1>2, <1>10, PersistType
  <2> HIDE DEF store, code, read
  <2> QED BY <1>1, <1>2, <1>7, <2>1, EndType
<1>12. ASSUME ~disturbed' PROVE RecentCodes' /\ Kept' /\ SlotsAreMade' /\ RepliesRead'
  <2>1. /\ op[o].read = storage /\ storage' = store
        /\ RecentCodes /\ Kept /\ SlotsAreMade /\ RepliesRead
    BY <1>1, <1>12, Undisturbed
  <2> DEFINE n == storage.nextCode
  <2>2. n \in Codes /\ code = n /\ storage'.nextCode = IF n + 1 = CodeSpace THEN 0 ELSE n + 1
    BY <1>5, <1>4, <2>1
  <2>3. storage'.slots[n].req = r /\ storage'.slots[n].reply = NoRequest
        /\ \A c \in Codes \ {n} : storage'.slots[c] = storage.slots[c]
    <3>1. storage'.slots = [storage.slots EXCEPT ![n] = [req |-> r, reply |-> NoRequest]]
      BY <2>1, <2>2
    <3>2. storage.slots \in [Codes -> Slot]
      BY <1>4, <2>1
    <3> HIDE DEF n
    <3> QED BY <2>2, <3>1, <3>2
  <2>4. retired' = retired /\ retired \subseteq Made
    BY <1>1, <1>2 DEF RingTypeOK
  <2> HIDE DEF n, code, read, store
  <2>5. ASSUME NEW i \in Made, Len(sent') - i < CodeSpace
        PROVE  /\ sent[i] = Back(n, Len(sent) + 1 - i) /\ sent[i] # n /\ sent[i] \in Codes
               /\ sent'[i] = Back(storage'.nextCode, Len(sent') + 1 - i)
    <3>1. sent[i] = Back(n, Len(sent) + 1 - i)
      BY <1>6, <1>7, <1>8, <2>1, <2>5, RingAssumption DEF RecentCodes, n
    <3>2. sent'[i] = sent[i] /\ i \in 1 .. Len(sent)
      BY <1>8
    <3> DEFINE k == Len(sent) + 1 - i
    <3>3. k \in 1 .. CodeSpace - 1 /\ Len(sent') + 1 - i = k + 1
      BY <1>6, <1>7, <2>5, <3>2, RingAssumption
    <3> HIDE DEF k
    <3>4. Back(n, k) # n /\ Back(n, k) \in Codes
      BY <2>2, <3>3, RingAssumption DEF Back, Codes
    <3>5. Back(storage'.nextCode, k + 1) = Back(n, k)
      BY <2>2, <3>3, RingAssumption DEF Back, Codes
    <3> QED BY <3>1, <3>2, <3>3, <3>4, <3>5 DEF k
  <2>6. RecentCodes'
    <3>1. sent'[r] = Back(storage'.nextCode, Len(sent') + 1 - r)
      BY <1>6, <1>7, <1>8, <2>2, RingAssumption DEF Back, Codes
    <3> QED BY <1>7, <2>5, <3>1 DEF RecentCodes
  <2>7. Kept'
    <3>1. ASSUME NEW i \in Made \ retired, Len(sent') - i < CodeSpace
          PROVE  storage'.slots[sent'[i]].req = i
      <4>1. storage.slots[sent[i]].req = i
        BY <1>6, <1>7, <1>8, <2>1, <3>1, RingAssumption DEF Kept
      <4> QED BY <1>8, <2>3, <2>5, <3>1, <4>1
    <3> QED BY <1>7, <1>8, <2>2, <2>3, <2>4, <3>1 DEF Kept
  <2>8. SlotsAreMade'
    BY <1>7, <2>1, <2>3 DEF SlotsAreMade
  <2>9. RepliesRead'
    <3>1. NoRequest \notin retired
      BY <1>6, <1>8, <2>4 DEF NoRequest
    <3> QED BY <2>1, <2>3, <2>4, <3>1 DEF RepliesRead
  <2> QED BY <2>6, <2>7, <2>8, <2>9
<1> QED BY <1>11, <1>12 DEF RingInv

Promises == RecentCodes /\ Kept /\ SlotsAreMade /\ RepliesRead

(* A write that keeps the requests this build still reads, whatever it does *)
(* to the replies.                                                         *)
LEMMA SlotsKept ==
  ASSUME RingTypeOK, Promises, UNCHANGED <<sent, retired>>,
         storage'.nextCode = storage.nextCode,
         \A c \in Codes :
           /\ storage'.slots[c].req \in {storage.slots[c].req, NoRequest}
           /\ storage.slots[c].req \in Made \ retired => storage'.slots[c].req = storage.slots[c].req
           /\ storage'.slots[c].reply = storage.slots[c].reply \/ storage'.slots[c].reply \notin retired
  PROVE  Promises'
<1> USE DEF Promises
<1>1. Made' = Made /\ sent \in Seq(Codes) /\ \A r \in Made : sent[r] \in Codes
  BY DEF Made, RingTypeOK
<1>2. RecentCodes'
  BY <1>1 DEF RecentCodes
<1>3. Kept'
  BY <1>1 DEF Kept
<1>4. SlotsAreMade'
  BY <1>1 DEF SlotsAreMade
<1>5. RepliesRead'
  BY <1>1 DEF RepliesRead, SlotsAreMade
<1> QED BY <1>2, <1>3, <1>4, <1>5

(* What such a step of an operation has to show of the store it writes.     *)
LEMMA WriteInv ==
  ASSUME RingInv, NEW o \in Operations, NEW store \in Store, Persist(o, store), End(o),
         UNCHANGED <<sent, models, retired>>,
         op[o].read = storage /\ Promises =>
           /\ store.nextCode = storage.nextCode
           /\ \A c \in Codes :
                /\ store.slots[c].req \in {storage.slots[c].req, NoRequest}
                /\ storage.slots[c].req \in Made \ retired => store.slots[c].req = storage.slots[c].req
                /\ store.slots[c].reply = storage.slots[c].reply \/ store.slots[c].reply \notin retired
  PROVE  RingInv'
<1>1. RingTypeOK /\ RepliesAreMade
  BY DEF RingInv
<1>2. RingTypeOK' /\ RepliesAreMade'
  <2>1. sent' \in Seq(Codes) /\ Len(sent') <= MaxRequests /\ Made \subseteq Made'
    BY <1>1 DEF RingTypeOK, Made
  <2>2. storage' \in Store /\ memo' \in Store /\ disturbed' \in BOOLEAN
    BY <1>1, PersistType
  <2> QED BY <1>1, <2>1, <2>2, EndType
<1>3. ASSUME ~disturbed' PROVE Promises'
  <2>1. op[o].read = storage /\ storage' = store /\ Promises
    BY <1>3, Undisturbed DEF Promises
  <2> QED BY <1>1, <2>1, SlotsKept
<1> QED BY <1>2, <1>3 DEF RingInv, Promises

LEMMA ReadInv ==
  ASSUME RingInv, NEW o \in Operations, ReadOnly(o), End(o), UNCHANGED <<sent, models, retired>>
  PROVE  RingInv'
<1>1. RingTypeOK /\ RepliesAreMade
  BY DEF RingInv
<1>2. RingTypeOK' /\ RepliesAreMade'
  <2>1. sent' \in Seq(Codes) /\ Len(sent') <= MaxRequests /\ Made \subseteq Made'
    BY <1>1 DEF RingTypeOK, Made
  <2>2. storage' \in Store /\ memo' \in Store /\ disturbed' \in BOOLEAN
    BY <1>1, ReadOnlyType
  <2> QED BY <1>1, <2>1, <2>2, EndType
<1>3. UNCHANGED <<storage, disturbed>>
  BY DEF ReadOnly
<1> QED BY <1>2, <1>3 DEF RingInv, RecentCodes, Kept, SlotsAreMade, RepliesRead, Made

LEMMA DecodeInv ==
  ASSUME RingInv, NEW o \in Operations, Decode(o)
  PROVE  RingInv'
<1> DEFINE r == op[o].reply
           next == [do |-> "attach", code |-> sent[r], reply |-> r, read |-> storage]
<1>1. RingTypeOK /\ RepliesAreMade /\ op[o].do = "decode" /\ ReadOnly(o)
      /\ UNCHANGED <<sent, models, retired>>
  BY DEF RingInv, Decode
<1>2. r \in Made /\ r \in Requests
  BY <1>1, RingAssumption DEF RepliesAreMade, RingTypeOK, Made, Requests
<1>3. CASE End(o)
  BY <1>1, <1>3, ReadInv
<1>4. CASE r \notin retired /\ op' = [op EXCEPT ![o] = next]
  <2>1. sent[r] \in Codes
    BY <1>1, <1>2 DEF RingTypeOK, Made
  <2>2. next \in Operation
    BY <1>1, <1>2, <2>1 DEF RingTypeOK, Operation
  <2>3. storage' \in Store /\ memo' \in Store /\ disturbed' \in BOOLEAN
    BY <1>1, ReadOnlyType
  <2>4. RingTypeOK'
    <3> HIDE DEF next
    <3> QED BY <1>1, <1>4, <2>2, <2>3 DEF RingTypeOK, Made
  <2>5. RepliesAreMade'
    <3>1. next.do = "attach" /\ next.reply = r
      OBVIOUS
    <3> HIDE DEF next
    <3> QED BY <1>1, <1>2, <1>4, <3>1 DEF RepliesAreMade, RingTypeOK, Made
  <2>6. UNCHANGED <<storage, disturbed>>
    BY <1>1 DEF ReadOnly
  <2> QED BY <1>1, <2>4, <2>5, <2>6 DEF RingInv, RecentCodes, Kept, SlotsAreMade, RepliesRead,
       Made
<1> QED BY <1>3, <1>4 DEF Decode, MayDecode

LEMMA AttachInv ==
  ASSUME RingInv, NEW o \in Operations, AttachResponse(o)
  PROVE  RingInv'
<1> DEFINE read == op[o].read
           code == op[o].code
           store == [read EXCEPT !.slots[code].reply = op[o].reply]
<1>1. RingTypeOK /\ RepliesAreMade /\ op[o].do = "attach" /\ End(o)
      /\ UNCHANGED <<sent, models, retired>>
  BY DEF RingInv, AttachResponse
<1>2. CASE ReadOnly(o)
  BY <1>1, <1>2, ReadInv
<1>3. CASE Persist(o, store)
  <2>1. read \in Store /\ code \in Codes /\ op[o].reply \in Requests \union {NoRequest}
    BY <1>1 DEF RingTypeOK, Operation
  <2>2. op[o].reply \notin retired
    BY <1>1 DEF RepliesAreMade
  <2>3. /\ store \in Store /\ store.nextCode = read.nextCode
        /\ \A c \in Codes : /\ store.slots[c].req = read.slots[c].req
                            /\ store.slots[c].reply \in {read.slots[c].reply, op[o].reply}
    <3> HIDE DEF read, code
    <3> QED BY <2>1 DEF Store, Slot
  <2> HIDE DEF store
  <2> QED BY <1>1, <1>3, <2>2, <2>3, WriteInv
<1> QED BY <1>2, <1>3 DEF AttachResponse

LEMMA DeleteInv ==
  ASSUME RingInv, NEW o \in Operations, DeleteResponses(o)
  PROVE  RingInv'
<1> DEFINE read == op[o].read
           code == op[o].code
           store == [read EXCEPT !.slots[code].reply = NoRequest]
<1>1. RingTypeOK /\ End(o) /\ UNCHANGED <<sent, models, retired>> /\ Persist(o, store)
  BY DEF RingInv, DeleteResponses
<1>2. read \in Store /\ code \in Codes /\ NoRequest \notin retired
  BY <1>1 DEF RingTypeOK, Operation, Made, NoRequest
<1>3. /\ store \in Store /\ store.nextCode = read.nextCode
      /\ \A c \in Codes : /\ store.slots[c].req = read.slots[c].req
                          /\ store.slots[c].reply \in {read.slots[c].reply, NoRequest}
  <2> HIDE DEF read, code
  <2> QED BY <1>2 DEF Store, Slot
<1> HIDE DEF store
<1> QED BY <1>1, <1>2, <1>3, WriteInv

LEMMA PruneInv ==
  ASSUME RingInv, NEW o \in Operations, PrunePastForecasts(o)
  PROVE  RingInv'
<1> DEFINE read == op[o].read
           gone == {c \in Codes : Undecodable(read.slots[c])}
           store == [read EXCEPT !.slots = [c \in Codes |-> IF c \in gone THEN EmptySlot ELSE @[c]]]
<1>1. RingTypeOK /\ End(o) /\ UNCHANGED <<sent, models, retired>>
  BY DEF RingInv, PrunePastForecasts
<1>2. CASE ReadOnly(o)
  BY <1>1, <1>2, ReadInv
<1>3. CASE Persist(o, store)
  <2>1. read \in Store /\ NoRequest \notin retired
    BY <1>1 DEF RingTypeOK, Operation, Made, NoRequest
  <2>2. /\ store \in Store /\ store.nextCode = read.nextCode
        /\ \A c \in Codes : store.slots[c] = IF c \in gone THEN EmptySlot ELSE read.slots[c]
    <3> HIDE DEF read, gone
    <3> QED BY <2>1, EmptyTypes DEF Store
  <2> HIDE DEF store
  <2>3. EmptySlot.req = NoRequest /\ EmptySlot.reply = NoRequest
    BY DEF EmptySlot
  <2>4. ASSUME read = storage, Promises, NEW c \in Codes, storage.slots[c].req \in Made \ retired
        PROVE  c \notin gone
    <3>1. storage.slots[c].req # NoRequest
      BY <1>1, <2>4 DEF RingTypeOK, Made, NoRequest
    <3> QED BY <2>4, <3>1 DEF Promises, RepliesRead, Undecodable, MayDecode
  <2> HIDE DEF gone
  <2> QED BY <1>1, <1>3, <2>1, <2>2, <2>3, <2>4, WriteInv
<1> QED BY <1>2, <1>3 DEF PrunePastForecasts

LEMMA RestartInv == RingInv /\ Restart => RingInv'
<1> SUFFICES ASSUME RingInv, Restart PROVE RingInv'
  OBVIOUS
<1>1. RingTypeOK
  BY DEF RingInv
<1>2. /\ op' = [o \in Operations |-> Idle] /\ memo' = storage /\ models' = FALSE
      /\ retired' \in {retired, Made} /\ UNCHANGED <<storage, sent, disturbed>> /\ Made' = Made
  BY DEF Restart, Made
<1>3. RingTypeOK'
  BY <1>1, <1>2, EmptyTypes DEF RingTypeOK
<1>4. RepliesAreMade'
  BY <1>2, RingAssumption DEF RepliesAreMade, Idle
<1>5. ASSUME Promises PROVE Promises'
  BY <1>1, <1>2, <1>5 DEF Promises, RecentCodes, Kept, SlotsAreMade, RepliesRead, RingTypeOK
<1> QED BY <1>2, <1>3, <1>4, <1>5 DEF RingInv, Promises

LEMMA RingNextInv == RingInv /\ [RingNext]_ringVars => RingInv'
<1> SUFFICES ASSUME RingInv, [RingNext]_ringVars PROVE RingInv'
  OBVIOUS
<1>1. CASE LoadModels \/ UNCHANGED ringVars
  BY <1>1 DEF LoadModels, ringVars, RingInv, RingTypeOK, RepliesAreMade, RecentCodes, Kept,
       SlotsAreMade,
              RepliesRead, Made
<1>2. CASE Restart
  BY <1>2, RestartInv
<1>3. ASSUME NEW o \in Operations,
             \/ Begin(o, "alloc", 0, NoRequest)
             \/ \E r \in Made : Begin(o, "decode", 0, r)
             \/ Begin(o, "prune", 0, NoRequest)
             \/ \E c \in Codes : Begin(o, "delete", c, NoRequest)
      PROVE  RingInv'
  <2>1. 0 \in Codes
    BY RingAssumption DEF Codes
  <2> QED BY <1>3, <2>1, BeginInv
<1>4. ASSUME NEW o \in Operations,
             AllocCode(o) \/ Decode(o) \/ AttachResponse(o) \/ PrunePastForecasts(o) \/ DeleteResponses(o)
      PROVE  RingInv'
  BY <1>4, AllocInv, DecodeInv, AttachInv, PruneInv, DeleteInv
<1> QED BY <1>1, <1>2, <1>3, <1>4 DEF RingNext

(***************************************************************************)
(* Every step of the app's request store keeps the inductive invariant,    *)
(* the types included.                                                     *)
(***************************************************************************)
THEOREM RingInvariant == RingSpec => []RingInv
  BY RingInitInv, RingNextInv, PTL DEF RingSpec

(***************************************************************************)
(* A request's context is under its code until the ring comes round to it, *)
(* however many operations overlap, while no write failed or undid         *)
(* another: for every size of the ring.                                    *)
(***************************************************************************)
THEOREM RequestsAreKept == RingSpec => []RequestKept
<1>1. RingInv => RequestKept
  BY DEF RingInv, Kept, RequestKept
<1> QED BY <1>1, RingInvariant, PTL

-----------------------------------------------------------------------------
(***************************************************************************)
(* The map packs. The list in memory is whole whenever nothing is under    *)
(* way because, while list changes do not overlap, each of them carries    *)
(* the list it read to where it shows it (OneAtATime), downloads only      *)
(* packs the list does not have (NewToTheList) and so deletes no files     *)
(* behind it, and has placed or found every file of the packs it adds.     *)
(***************************************************************************)
DownloadSteps == {"none", "base", "hs", "land base", "land hs", "record", "show", "failed"}
DownloadState == [pc : DownloadSteps, cancelled : BOOLEAN, list : SUBSET Packs]
PackTypeOK ==
  /\ disk \subseteq Packs \X Archives
  /\ saved \subseteq Packs /\ installed \subseteq Packs
  /\ download \in [Packs -> DownloadState]
  /\ remover \in [Removers -> [pc : {"none", "save", "show"}, list : SUBSET Packs]]
  /\ starting \in [pc : {"unstarted", "look", "show", "started"}, list : SUBSET Packs]
  /\ crossed \in BOOLEAN

(* A download or a removal that shows a list later. *)
Ahead(p) == Downloads(p) \in {"land hs", "record", "show"}
Removes(r) == remover[r].pc # "none"

(* What `crossed` being false says: nothing else is between reading the list
   and showing its own. *)
OneAtATime ==
  /\ \A p, q \in Packs : Ahead(p) /\ Ahead(q) => p = q
  /\ \A r, s \in Removers : Removes(r) /\ Removes(s) => r = s
  /\ \A p \in Packs, r \in Removers : ~(Ahead(p) /\ Removes(r))
  /\ starting.pc # "started" =>
       /\ \A p \in Packs : Downloads(p) = "none"
       /\ \A r \in Removers : ~Removes(r)

NewToTheList == \A p \in Packs : Downloads(p) # "none" => p \notin installed
(* A download that moves its files has them in place, and shows the list it
   finds with its pack added. *)
DownloadsLand ==
  \A p \in Packs : /\ Downloads(p) = "land hs" => <<p, "base">> \in disk
                   /\ Downloads(p) \in {"record", "show"} => Whole(p)
                   /\ Downloads(p) = "show" => download[p].list = installed \union {p}
(* A removal drops what it deleted, and leaves what is whole. *)
RemovalsLand ==
  \A r \in Removers :
    /\ remover[r].pc = "save" => \A p \in installed \ remover[r].list : Whole(p)
    /\ remover[r].pc = "show" => /\ remover[r].list \subseteq installed
                                 /\ \A p \in remover[r].list : Whole(p)
ListWhole == (\A r \in Removers : ~Removes(r)) => \A p \in installed : Whole(p)
(* Before the start has shown its list there is none; what it will show it
   has found on disk. *)
StartLands == /\ starting.pc # "started" => installed = {}
              /\ starting.pc = "show" => \A p \in starting.list : Whole(p)

PackInv ==
  /\ PackTypeOK
  /\ ~crossed => OneAtATime /\ NewToTheList /\ DownloadsLand /\ RemovalsLand /\ ListWhole /\ StartLands

-----------------------------------------------------------------------------
LEMMA AtMostOne ==
  ASSUME NEW S, IsFiniteSet(S), ~(Cardinality(S) > 1)
  PROVE  \A x, y \in S : x = y
<1>1. Cardinality(S) = 0 \/ Cardinality(S) = 1
  BY FS_CardinalityType
<1>2. CASE Cardinality(S) = 0
  BY <1>2, FS_EmptySet
<1>3. CASE Cardinality(S) = 1
  BY <1>3, FS_Singleton
<1> QED BY <1>1, <1>2, <1>3

LEMMA OneMidway ==
  ASSUME ~(Cardinality(Midway') > 1)
  PROVE  OneAtATime'
<1>1. Midway' \subseteq (Packs \union Removers) \union {"starting"}
  BY DEF Midway
<1>2. IsFiniteSet((Packs \union Removers) \union {"starting"})
  BY FS_Union, FS_Singleton, PackAssumption
<1>3. \A x, y \in Midway' : x = y
  BY <1>1, <1>2, FS_Subset, AtMostOne
<1>4. \A p \in Packs : Ahead(p)' => p \in Midway'
  BY DEF Midway, Ahead
<1>5. \A r \in Removers : Removes(r)' => r \in Midway'
  BY DEF Midway, Removes
<1>6. starting'.pc # "started" => "starting" \in Midway'
  BY DEF Midway
<1>7. starting'.pc # "started" => \A p \in Packs : Downloads(p)' # "none" => p \in Midway'
  BY DEF Midway
<1> QED BY <1>3, <1>4, <1>5, <1>6, <1>7, PackAssumption DEF OneAtATime

-----------------------------------------------------------------------------
LEMMA PackInitInv == PackInit => PackInv
<1> SUFFICES ASSUME PackInit PROVE PackInv
  OBVIOUS
<1> USE DEF PackInit
<1>1. PackTypeOK
  BY DEF PackTypeOK, NoDownload, NoRemoval, Unstarted, DownloadState, DownloadSteps
<1>2. OneAtATime
  BY DEF OneAtATime, Ahead, Removes, Downloads, NoDownload, NoRemoval, Unstarted
<1>3. NewToTheList /\ DownloadsLand /\ RemovalsLand /\ ListWhole /\ StartLands
  BY DEF NewToTheList, DownloadsLand, RemovalsLand, ListWhole, StartLands, Downloads,
         NoDownload, NoRemoval, Unstarted
<1> QED BY <1>1, <1>2, <1>3 DEF PackInv

LEMMA Moved ==
  ASSUME NEW d \in DownloadState, NEW pc \in DownloadSteps
  PROVE  /\ [d EXCEPT !.pc = pc] \in DownloadState
         /\ [d EXCEPT !.pc = pc].pc = pc /\ [d EXCEPT !.pc = pc].list = d.list
  BY DEF DownloadState

LEMMA CalledOff ==
  ASSUME NEW d \in DownloadState
  PROVE  /\ [d EXCEPT !.cancelled = TRUE] \in DownloadState
         /\ [d EXCEPT !.cancelled = TRUE].pc = d.pc /\ [d EXCEPT !.cancelled = TRUE].list = d.list
  BY DEF DownloadState

LEMMA Recorded ==
  ASSUME NEW d \in DownloadState, NEW list \in SUBSET Packs
  PROVE  /\ [d EXCEPT !.pc = "show", !.list = list] \in DownloadState
         /\ [d EXCEPT !.pc = "show", !.list = list].pc = "show"
         /\ [d EXCEPT !.pc = "show", !.list = list].list = list
  BY DEF DownloadState, DownloadSteps

LEMMA Going ==
  ASSUME PackTypeOK, NEW p \in Packs, NEW pc \in DownloadSteps, Goto(p, pc)
  PROVE  /\ download' \in [Packs -> DownloadState]
         /\ \A q \in Packs \ {p} : download'[q] = download[q]
         /\ download'[p].pc = pc /\ download'[p].list = download[p].list
<1>1. [download[p] EXCEPT !.pc = pc] \in DownloadState
  BY DEF PackTypeOK, DownloadState
<1>2. download \in [Packs -> DownloadState]
  BY DEF PackTypeOK
<1>3. download' = [download EXCEPT ![p] = [download[p] EXCEPT !.pc = pc]]
  BY DEF Goto
<1>4. download[p] \in DownloadState
  BY <1>2
<1>5. [download[p] EXCEPT !.pc = pc].pc = pc /\ [download[p] EXCEPT !.pc = pc].list = download[p].list
  BY <1>4, Moved
<1> QED BY <1>1, <1>2, <1>3, <1>5

LEMMA Ending ==
  ASSUME PackTypeOK, NEW p \in Packs, download' = [download EXCEPT ![p] = NoDownload]
  PROVE  /\ download' \in [Packs -> DownloadState]
         /\ \A q \in Packs \ {p} : download'[q] = download[q]
         /\ download'[p].pc = "none"
<1>1. NoDownload \in DownloadState /\ NoDownload.pc = "none"
  BY DEF NoDownload, DownloadState, DownloadSteps
<1>2. download \in [Packs -> DownloadState]
  BY DEF PackTypeOK
<1> QED BY <1>1, <1>2

(* What a step of a download does to the downloads. *)
Onward(p) ==
  /\ download' \in [Packs -> DownloadState]
  /\ \A q \in Packs \ {p} : download'[q] = download[q]

LEMMA DownloadMoves ==
  ASSUME PackTypeOK, NEW p \in Packs, DownloadStep(p)
  PROVE  Onward(p)
<1> USE DEF Onward
<1>1. CASE DownloadStart(p)
  <2>1. [NoDownload EXCEPT !.pc = "base"] \in DownloadState
    BY DEF NoDownload, DownloadState, DownloadSteps
  <2> QED BY <1>1, <2>1 DEF DownloadStart, PackTypeOK
<1>2. CASE Cancel(p)
  <2>1. [download[p] EXCEPT !.cancelled = TRUE] \in DownloadState
    BY CalledOff DEF PackTypeOK
  <2> QED BY <1>2, <2>1 DEF Cancel, PackTypeOK
<1>3. CASE DownloadFails(p)
  BY <1>3, Going DEF DownloadFails, DownloadSteps
<1>4. CASE DownloadArchive(p, "base", "hs")
  BY <1>4, Going DEF DownloadArchive, DownloadSteps
<1>5. CASE DownloadArchive(p, "hs", "land base")
  BY <1>5, Going DEF DownloadArchive, DownloadSteps
<1>6. CASE Move(p, "base", "land base", "land hs")
  BY <1>6, Going DEF Move, DownloadSteps
<1>7. CASE Move(p, "hs", "land hs", "record")
  BY <1>7, Going DEF Move, DownloadSteps
<1>8. CASE Record(p)
  <2>1. [download[p] EXCEPT !.pc = "show", !.list = installed \union {p}] \in DownloadState
    <3>1. download[p] \in DownloadState /\ installed \union {p} \in SUBSET Packs
      BY DEF PackTypeOK
    <3> QED BY <3>1, Recorded
  <2>2. download' = [download EXCEPT ![p] = [download[p] EXCEPT !.pc = "show", !.list = installed \union {p}]]
    BY <1>8 DEF Record
  <2> QED BY <2>1, <2>2 DEF PackTypeOK
<1>9. CASE Show(p)
  BY <1>9, Ending DEF Show
<1>10. CASE CleanUp(p)
  BY <1>10, Ending DEF CleanUp
<1> QED BY <1>1, <1>2, <1>3, <1>4, <1>5, <1>6, <1>7, <1>8, <1>9, <1>10 DEF DownloadStep

(* Where each step of a download leaves it. *)
LEMMA DownloadReaches ==
  ASSUME PackTypeOK, NEW p \in Packs
  PROVE  /\ DownloadStart(p) => download'[p].pc = "base"
         /\ Cancel(p) => download'[p].pc = download[p].pc /\ download'[p].list = download[p].list
         /\ DownloadFails(p) => download'[p].pc = "failed"
         /\ Move(p, "base", "land base", "land hs") =>
              \/ download'[p].pc = "failed" /\ disk' = disk
              \/ download'[p].pc = "land hs" /\ disk' = disk \union {<<p, "base">>}
         /\ Move(p, "hs", "land hs", "record") =>
              \/ download'[p].pc = "failed" /\ disk' = disk
              \/ download'[p].pc = "record" /\ disk' = disk \union {<<p, "hs">>}
         /\ Record(p) => download'[p].pc = "show" /\ download'[p].list = installed \union {p}
         /\ Show(p) \/ CleanUp(p) => download'[p].pc = "none"
<1>1. download \in [Packs -> DownloadState] /\ download[p] \in DownloadState
  BY DEF PackTypeOK
<1>2. \A pc \in DownloadSteps : Goto(p, pc) => download'[p].pc = pc
  BY Going
<1>3. {"failed", "land hs", "record"} \subseteq DownloadSteps
  BY DEF DownloadSteps
<1>4. ASSUME DownloadStart(p) PROVE download'[p].pc = "base"
  BY <1>1, <1>4 DEF DownloadStart, NoDownload
<1>5. ASSUME Cancel(p) PROVE download'[p].pc = download[p].pc /\ download'[p].list = download[p].list
  <2>1. download' = [download EXCEPT ![p] = [download[p] EXCEPT !.cancelled = TRUE]]
    BY <1>5 DEF Cancel
  <2> QED BY <1>1, <2>1, CalledOff
<1>6. DownloadFails(p) => download'[p].pc = "failed"
  BY <1>2, <1>3 DEF DownloadFails
<1>7. ASSUME NEW a, NEW at, NEW next \in DownloadSteps, Move(p, a, at, next)
      PROVE  \/ download'[p].pc = "failed" /\ disk' = disk
             \/ download'[p].pc = next /\ disk' = disk \union {<<p, a>>}
  BY <1>2, <1>3, <1>7 DEF Move
<1>8. ASSUME Record(p) PROVE download'[p].pc = "show" /\ download'[p].list = installed \union {p}
  <2>1. download' = [download EXCEPT ![p] = [download[p] EXCEPT !.pc = "show", !.list = installed \union {p}]]
    BY <1>8 DEF Record
  <2>2. installed \union {p} \in SUBSET Packs
    BY DEF PackTypeOK
  <2> QED BY <1>1, <2>1, <2>2, Recorded
<1>9. Show(p) \/ CleanUp(p) => download'[p].pc = "none"
  BY Ending DEF Show, CleanUp
<1> QED BY <1>3, <1>4, <1>5, <1>6, <1>7, <1>8, <1>9

LEMMA PackStepType ==
  ASSUME PackTypeOK, PackStep, crossed' \in BOOLEAN
  PROVE  PackTypeOK'
<1>1. CASE InitLoad \/ InitSave \/ InitShow
  <2>1. CASE InitLoad
    BY <2>1 DEF InitLoad, PackTypeOK
  <2>2. CASE InitSave
    BY <2>2 DEF InitSave, Save, PackTypeOK
  <2>3. CASE InitShow
    BY <2>3 DEF InitShow, PackTypeOK
  <2> QED BY <1>1, <2>1, <2>2, <2>3
<1>2. ASSUME NEW p \in Packs, DownloadStep(p) PROVE PackTypeOK'
  <2>1. download' \in [Packs -> DownloadState]
    BY <1>2, DownloadMoves DEF Onward
  <2>2. disk' \subseteq Packs \X Archives
    <3>1. {p} \X Archives \subseteq Packs \X Archives
      OBVIOUS
    <3> QED BY <1>2, <3>1 DEF PackTypeOK, DownloadStep, DownloadStart, Cancel, DownloadFails,
         DownloadArchive, Move, Record, Show, CleanUp, Archives
  <2>3. saved' \subseteq Packs
    BY <1>2 DEF PackTypeOK, DownloadStep, DownloadStart, Cancel, DownloadFails, DownloadArchive,
         Move, Record, Show, CleanUp, Save
  <2>4. download[p].list \subseteq Packs
    BY DEF PackTypeOK, DownloadState
  <2>5. installed' \subseteq Packs
    <3>1. installed' = installed \/ installed' = download[p].list
      BY <1>2 DEF DownloadStep, DownloadStart, Cancel, DownloadFails, DownloadArchive, Move,
           Record, Show, CleanUp
    <3> QED BY <2>4, <3>1 DEF PackTypeOK
  <2>6. UNCHANGED <<remover, starting>>
    BY <1>2 DEF DownloadStep, DownloadStart, Cancel, DownloadFails, DownloadArchive, Move,
         Record, Show, CleanUp
  <2> QED BY <2>1, <2>2, <2>3, <2>5, <2>6 DEF PackTypeOK
<1>3. ASSUME NEW r \in Removers, NEW p \in Packs, RemoveFiles(r, p) PROVE PackTypeOK'
  BY <1>3 DEF RemoveFiles, Removing, PackTypeOK
<1>4. ASSUME NEW r \in Removers, RemoveSave(r) \/ RemoveShow(r) \/ RemoveAll(r)
      PROVE  PackTypeOK'
  <2>1. CASE RemoveSave(r)
    BY <2>1 DEF RemoveSave, Removing, Save, PackTypeOK
  <2>2. CASE RemoveShow(r)
    BY <2>2 DEF RemoveShow, Removing, PackTypeOK
  <2>3. CASE RemoveAll(r)
    BY <2>3 DEF RemoveAll, Removing, NoDownload, PackTypeOK, DownloadState, DownloadSteps
  <2> QED BY <1>4, <2>1, <2>2, <2>3
<1> QED BY <1>1, <1>2, <1>3, <1>4 DEF PackStep

-----------------------------------------------------------------------------
LEMMA BothArchives ==
  \A p \in Packs : /\ Whole(p) <=> <<p, "base">> \in disk /\ <<p, "hs">> \in disk
                   /\ Whole(p)' <=> <<p, "base">> \in disk' /\ <<p, "hs">> \in disk'
  BY DEF Whole, Archives

LEMMA PackStepInv ==
  ASSUME PackInv, PackStep, crossed' = (crossed \/ Cardinality(Midway') > 1)
  PROVE  PackInv'
<1>1. PackTypeOK /\ crossed' \in BOOLEAN
  BY DEF PackInv, PackTypeOK
<1>2. PackTypeOK'
  BY <1>1, PackStepType
<1> DEFINE Rest == NewToTheList /\ DownloadsLand /\ RemovalsLand /\ ListWhole /\ StartLands
<1> SUFFICES ASSUME ~crossed'
             PROVE  OneAtATime' /\ Rest'
  BY <1>2 DEF PackInv
<1>3. OneAtATime'
  BY OneMidway
<1>4. OneAtATime /\ Rest
  BY DEF PackInv
<1>11. ASSUME NEW p \in Packs, Move(p, "base", "land base", "land hs")
       PROVE  \/ download'[p].pc = "failed" /\ disk' = disk
              \/ download'[p].pc = "land hs" /\ disk' = disk \union {<<p, "base">>}
  BY <1>1, <1>11, DownloadReaches
<1>12. ASSUME NEW p \in Packs, Move(p, "hs", "land hs", "record")
       PROVE  \/ download'[p].pc = "failed" /\ disk' = disk
              \/ download'[p].pc = "record" /\ disk' = disk \union {<<p, "hs">>}
  BY <1>1, <1>12, DownloadReaches
<1> USE <1>3, <1>4, BothArchives
<1> USE DEF OneAtATime, NewToTheList, DownloadsLand, RemovalsLand, ListWhole, StartLands, Ahead,
     Removes, Downloads
<1>9. installed \subseteq Packs /\ starting.list \subseteq Packs
      /\ \A r \in Removers : remover[r].list \subseteq Packs
  BY <1>1 DEF PackTypeOK
<1>10. remover \in [Removers -> [pc : {"none", "save", "show"}, list : SUBSET Packs]]
  BY <1>1 DEF PackTypeOK
<1>5. CASE InitLoad \/ InitSave \/ InitShow
  <2>1. CASE InitLoad
    BY <1>9, <2>1 DEF InitLoad
  <2>2. CASE InitSave
    BY <1>9, <2>2 DEF InitSave
  <2>3. CASE InitShow
    BY <1>9, <2>3 DEF InitShow
  <2> QED BY <1>5, <2>1, <2>2, <2>3
<1>6. ASSUME NEW p \in Packs, DownloadStep(p) PROVE Rest'
  <2>o. \A q \in Packs \ {p} : download'[q] = download[q]
    BY <1>1, <1>6, DownloadMoves DEF Onward
  <2> USE <1>9
  <2>1. CASE DownloadStart(p)
    <3>1. download'[p].pc = "base"
      BY <1>1, <2>1, DownloadReaches
    <3>2. p \notin installed /\ UNCHANGED <<disk, installed, remover, starting>>
      BY <2>1 DEF DownloadStart
    <3> QED BY <2>o, <3>1, <3>2
  <2>2. CASE Cancel(p)
    <3>1. download'[p].pc = download[p].pc /\ download'[p].list = download[p].list
      BY <1>1, <2>2, DownloadReaches
    <3>2. UNCHANGED <<disk, installed, remover, starting>>
      BY <2>2 DEF Cancel
    <3>a. NewToTheList'
      BY <2>o, <3>1, <3>2
    <3>b. DownloadsLand'
      <4>1. \A q \in Packs : download'[q].pc = download[q].pc /\ download'[q].list = download[q].list
        BY <2>o, <3>1
      <4> QED BY <3>2, <4>1
    <3>c. RemovalsLand'
      BY <2>o, <3>1, <3>2
    <3>d. ListWhole' /\ StartLands'
      BY <2>o, <3>1, <3>2
    <3> QED BY <3>a, <3>b, <3>c, <3>d
  <2>3. CASE DownloadFails(p)
    <3>1. download'[p].pc = "failed"
      BY <1>1, <2>3, DownloadReaches
    <3>2. Downloads(p) # "none" /\ UNCHANGED <<disk, installed, remover, starting>>
      BY <2>3 DEF DownloadFails, Archives
    <3> QED BY <2>o, <3>1, <3>2
  <2>4. CASE DownloadArchive(p, "base", "hs") \/ DownloadArchive(p, "hs", "land base")
    <3>1. download'[p].pc \in {"failed", "hs", "land base"}
      BY <1>1, <2>4, Going DEF DownloadArchive, DownloadSteps
    <3> QED BY <2>o, <2>4, <3>1 DEF DownloadArchive
  <2>5. CASE Move(p, "base", "land base", "land hs")
    <3>1. \/ download'[p].pc = "failed" /\ disk' = disk
          \/ download'[p].pc = "land hs" /\ disk' = disk \union {<<p, "base">>}
      BY <2>5, <1>11
    <3>2. Downloads(p) = "land base" /\ UNCHANGED <<installed, remover, starting>>
      BY <2>5 DEF Move
    <3> QED BY <2>o, <3>1, <3>2
  <2>6. CASE Move(p, "hs", "land hs", "record")
    <3>1. \/ download'[p].pc = "failed" /\ disk' = disk
          \/ download'[p].pc = "record" /\ disk' = disk \union {<<p, "hs">>}
      BY <2>6, <1>12
    <3>2. Downloads(p) = "land hs" /\ UNCHANGED <<installed, remover, starting>>
      BY <2>6 DEF Move
    <3> QED BY <2>o, <3>1, <3>2
  <2>7. CASE Record(p)
    <3>1. download'[p].pc = "show" /\ download'[p].list = installed \union {p}
      BY <1>1, <2>7, DownloadReaches
    <3>2. Downloads(p) = "record" /\ UNCHANGED <<disk, installed, remover, starting>>
      BY <2>7 DEF Record
    <3> QED BY <2>o, <3>1, <3>2
  <2>8. CASE Show(p)
    <3>1. download'[p].pc = "none"
      BY <1>1, <2>8, DownloadReaches
    <3>2. Downloads(p) = "show" /\ installed' = installed \union {p}
          /\ UNCHANGED <<disk, remover, starting>>
      BY <2>8 DEF Show
    <3>a. NewToTheList'
      BY <2>o, <3>1, <3>2
    <3>b. DownloadsLand'
      <4>1. \A q \in Packs : ~Ahead(q)'
        BY <2>o, <3>1, <3>2
      <4> QED BY <4>1
    <3>c. RemovalsLand'
      BY <2>o, <3>1, <3>2
    <3>d. ListWhole' /\ StartLands'
      BY <2>o, <3>1, <3>2
    <3> QED BY <3>a, <3>b, <3>c, <3>d
  <2>9. CASE CleanUp(p)
    <3>1. download'[p].pc = "none"
      BY <1>1, <2>9, DownloadReaches
    <3>2. \A q \in Packs \ {p} : \A a : <<q, a>> \in disk' <=> <<q, a>> \in disk
      BY <2>9 DEF CleanUp
    <3>3. Downloads(p) = "failed" /\ UNCHANGED <<installed, remover, starting>>
      BY <2>9 DEF CleanUp
    <3> QED BY <2>o, <3>1, <3>2, <3>3
  <2> QED BY <1>6, <2>1, <2>2, <2>3, <2>4, <2>5, <2>6, <2>7, <2>8, <2>9 DEF DownloadStep
<1>7. ASSUME NEW r \in Removers, NEW p \in Packs, RemoveFiles(r, p) PROVE Rest'
  <2>1. \A q \in Packs \ {p} : \A a : <<q, a>> \in disk' <=> <<q, a>> \in disk
    BY <1>7 DEF RemoveFiles
  <2>2. remover'[r].pc = "save" /\ remover'[r].list = {p}
        /\ \A s \in Removers \ {r} : remover'[s] = remover[s]
    BY <1>7, <1>10 DEF RemoveFiles, Removing
  <2>3. remover[r].pc = "none" /\ p \in installed /\ UNCHANGED <<installed, download, starting>>
    BY <1>7 DEF RemoveFiles
  <2>a. NewToTheList'
    BY <1>9, <2>1, <2>2, <2>3
  <2>b. DownloadsLand'
    BY <1>9, <2>1, <2>2, <2>3
  <2>c. RemovalsLand'
    <3>1. ASSUME NEW s \in Removers PROVE ~Removes(s)
      <4>1. CASE s = r
        BY <2>3, <4>1
      <4>2. CASE s # r
        <5>1. ~Removes(s)'
          BY <2>2, <4>2
        <5> QED BY <2>2, <4>2, <5>1
      <4> QED BY <4>1, <4>2
    <3>2. \A q \in installed \ {p} : Whole(q)'
      BY <1>9, <2>1, <3>1
    <3> QED BY <2>2, <2>3, <3>1, <3>2
  <2>d. ListWhole' /\ StartLands'
    BY <1>9, <2>1, <2>2, <2>3
  <2> QED BY <2>a, <2>b, <2>c, <2>d
<1>8. ASSUME NEW r \in Removers, RemoveSave(r) \/ RemoveShow(r) \/ RemoveAll(r) PROVE Rest'
  <2>1. CASE RemoveSave(r)
    <3>1. remover'[r].pc = "show" /\ remover'[r].list = installed \ remover[r].list
          /\ \A s \in Removers \ {r} : remover'[s] = remover[s]
      BY <1>10, <2>1 DEF RemoveSave, Removing
    <3>2. remover[r].pc = "save" /\ UNCHANGED <<disk, installed, download, starting>>
      BY <2>1 DEF RemoveSave
    <3> QED BY <1>9, <3>1, <3>2
  <2>2. CASE RemoveShow(r)
    <3>1. remover'[r].pc = "none" /\ \A s \in Removers \ {r} : remover'[s] = remover[s]
      BY <1>10, <2>2 DEF RemoveShow, Removing
    <3> QED BY <1>9, <2>2, <3>1 DEF RemoveShow
  <2>3. CASE RemoveAll(r)
    <3>1. remover'[r].pc = "save" /\ remover'[r].list = Packs
          /\ \A s \in Removers \ {r} : remover'[s] = remover[s]
      <4>1. remover' = [remover EXCEPT ![r] = [pc |-> "save", list |-> Packs]]
        BY <2>3 DEF RemoveAll, Removing
      <4> QED BY <1>10, <4>1
    <3>2. \A p \in Packs : download'[p].pc = download[p].pc
      <4> SUFFICES ASSUME NEW p \in Packs PROVE download'[p].pc = download[p].pc
        OBVIOUS
      <4>1. download'[p] = IF download[p].pc = "none" THEN NoDownload ELSE [download[p] EXCEPT !.cancelled = TRUE]
        BY <2>3 DEF RemoveAll
      <4>2. download[p] \in DownloadState
        BY <1>1 DEF PackTypeOK
      <4>3. [download[p] EXCEPT !.cancelled = TRUE].pc = download[p].pc
        BY <4>2, CalledOff
      <4>4. NoDownload.pc = "none"
        BY DEF NoDownload
      <4>5. CASE download[p].pc = "none"
        BY <4>1, <4>4, <4>5
      <4>6. CASE download[p].pc # "none"
        BY <4>1, <4>3, <4>6
      <4> QED BY <4>5, <4>6
    <3>3. remover[r].pc = "none" /\ UNCHANGED <<installed, starting>>
      BY <2>3 DEF RemoveAll
    <3>4. \A p \in Packs : ~Ahead(p)'
      BY <3>1
    <3> QED BY <1>9, <3>1, <3>2, <3>3, <3>4
  <2> QED BY <1>8, <2>1, <2>2, <2>3
<1> QED BY <1>3, <1>5, <1>6, <1>7, <1>8 DEF PackStep

LEMMA PackNextInv == PackInv /\ [PackNext]_packVars => PackInv'
<1> SUFFICES ASSUME PackInv, [PackNext]_packVars PROVE PackInv'
  OBVIOUS
<1>1. CASE PackStep /\ crossed' = (crossed \/ Cardinality(Midway') > 1)
  BY <1>1, PackStepInv
<1>2. CASE Kill /\ crossed' = FALSE
  <2>1. PackTypeOK'
    BY <1>2 DEF Kill, PackInv, PackTypeOK, DownloadState, DownloadSteps, NoDownload, NoRemoval,
         Unstarted
  <2>2. OneAtATime'
    BY <1>2 DEF Kill, OneAtATime, Ahead, Removes, Downloads, NoDownload, NoRemoval, Unstarted
  <2>3. NewToTheList' /\ DownloadsLand' /\ RemovalsLand' /\ ListWhole' /\ StartLands'
    BY <1>2 DEF Kill, NewToTheList, DownloadsLand, RemovalsLand, ListWhole, StartLands, Downloads,
           NoDownload, NoRemoval, Unstarted
  <2> QED BY <2>1, <2>2, <2>3 DEF PackInv
<1>3. CASE UNCHANGED packVars
  BY <1>3 DEF packVars, PackInv, PackTypeOK, OneAtATime, NewToTheList, DownloadsLand,
       RemovalsLand, ListWhole,
              StartLands, Ahead, Removes, Downloads, Whole
<1> QED BY <1>1, <1>2, <1>3 DEF PackNext

(***************************************************************************)
(* Every step of the pack store keeps the inductive invariant, the types   *)
(* included.                                                               *)
(***************************************************************************)
THEOREM PackInvariant == PackSpec => []PackInv
  BY PackInitInv, PackNextInv, PTL DEF PackSpec

(***************************************************************************)
(* With nothing under way and no overlap since the start, every pack on    *)
(* the list has both its archives on disk: for any set of packs and any    *)
(* number of removals, and however often the app was killed.               *)
(***************************************************************************)
THEOREM QuietPacksAreWhole == PackSpec => []QuietMeansWhole
<1>1. PackInv => QuietMeansWhole
  BY DEF PackInv, ListWhole, Removes, QuietMeansWhole, Quiet
<1> QED BY <1>1, PackInvariant, PTL

-----------------------------------------------------------------------------
(***************************************************************************)
(* The account. A live account the phone ever stored is still the one it   *)
(* holds because the token of a deletion goes only after the server said   *)
(* the account is gone (StepsFit) and what was stored of it has gone       *)
(* (ErasedInOrder), and because another account is set up only with no     *)
(* token stored (PhoneAgrees). What is shown as used up is so because      *)
(* whatever is stored of a quota was counted by the server, of that        *)
(* account, by then (Judged).                                              *)
(***************************************************************************)
OverStates == [of : Tokens, over : {TRUE}, month : Months, judged : Months, by : {"answer", "header"}]
Heard == [of : Tokens, over : {FALSE}] \union OverStates
Quotas == Heard \union {NoQuota}
PhoneState == [token : Tokens \union {NoToken}, requests : SUBSET Tokens, quota : Quotas]
AppState == [token : Tokens \union {Starting, NoToken}, quota : Quotas]
Question == [by : {"poll", "sync"}, of : Tokens, answer : Quotas]
EraseSteps == {"no", "asked", "answered", "requests", "settings", "token", "logout"}
AccountTypeOK ==
  /\ accounts \in [Tokens -> {"unminted", "live", "deleted"}]
  /\ spent \subseteq Tokens \X Months /\ month \in Months
  /\ phone \in PhoneState /\ app \in AppState
  /\ setup \in [pc : {"idle", "asked", "minted"}, token : Tokens \union {NoToken}]
  /\ erase \in EraseSteps
  /\ asks \subseteq Question /\ saving \subseteq Tokens
  /\ marred \in [held : SUBSET Tokens, failed : BOOLEAN, late : SUBSET Tokens]

(* What the screens and the server agree on at every step. *)
StepsFit ==
  /\ setup.pc # "idle" => app.token = NoToken
  /\ setup.pc = "minted" => setup.token \in Tokens /\ accounts[setup.token] # "unminted"
  /\ erase # "no" => AtHome
  /\ erase \notin {"no", "asked"} => accounts[app.token] = "deleted"
  /\ \A t \in marred.held : accounts[t] # "unminted"
(* The phone's storage has the token the app works with, but for the last
   step of a deletion. *)
PhoneAgrees ==
  /\ AtHome => phone.token = IF erase = "logout" THEN NoToken ELSE app.token
  /\ app.token = NoToken => phone.token = NoToken
(* What a deletion has behind it is erased, but for what landed late. *)
ErasedInOrder ==
  /\ EraseIn({"settings", "token", "logout"}) => phone.requests \subseteq marred.late
  /\ EraseIn({"token", "logout"}) => phone.quota = NoQuota \/ phone.quota.of \in marred.late
ShownIsOurs ==
  app.token # Starting => app.quota = NoQuota \/ app.quota.of \in {app.token} \union marred.late
(* A quota says it is over of a month the server counted as spent, no later
   than now, and a header's is not filed after the month it was counted in. *)
Judged(q) ==
  q # NoQuota /\ q.over => /\ IsSpent(q.of, q.judged) /\ q.judged <= month
                           /\ q.by = "header" => q.month <= q.judged
AllJudged ==
  /\ Judged(phone.quota) /\ Judged(app.quota)
  /\ \A q \in asks : q.answer # NoQuota =>
       Judged(q.answer) /\ q.answer.of = q.of /\ (q.answer.over => q.answer.by = "answer")

AccountInv ==
  /\ AccountTypeOK /\ StepsFit /\ AllJudged
  /\ ~marred.failed => PhoneAgrees /\ ErasedInOrder /\ ShownIsOurs /\ HeldUntilGone /\ StoredIsHeld

-----------------------------------------------------------------------------
LEMMA AccountInitInv == AccountInit => AccountInv
<1> SUFFICES ASSUME AccountInit PROVE AccountInv
  OBVIOUS
<1> USE DEF AccountInit
<1>1. AccountTypeOK
  <2>1. 0 \in Months
    BY AccountAssumption DEF Months
  <2> QED BY <2>1 DEF AccountTypeOK, PhoneState, AppState, Quotas, EraseSteps
<1>2. StepsFit
  BY AccountAssumption DEF StepsFit, AtHome
<1>3. AllJudged
  BY DEF AllJudged, Judged
<1>4. PhoneAgrees /\ ErasedInOrder /\ ShownIsOurs /\ HeldUntilGone /\ StoredIsHeld
  BY AccountAssumption DEF PhoneAgrees, ErasedInOrder, ShownIsOurs, HeldUntilGone, StoredIsHeld,
       AtHome, EraseIn
<1> QED BY <1>1, <1>2, <1>3, <1>4 DEF AccountInv

-----------------------------------------------------------------------------
LEMMA LaunchInv ==
  ASSUME AccountInv, NEW tokenRead \in BOOLEAN, NEW quotaRead \in BOOLEAN, Launch(tokenRead, quotaRead)
  PROVE  AccountInv'
<1>1. /\ app.token = Starting
      /\ app'.token = IF tokenRead THEN phone.token ELSE NoToken
      /\ app'.quota = IF quotaRead THEN phone.quota ELSE NoQuota
      /\ marred'.failed = (marred.failed \/ (~tokenRead /\ phone.token # NoToken))
      /\ marred'.held = marred.held /\ marred'.late = marred.late
      /\ UNCHANGED <<accounts, spent, month, phone, setup, erase, asks, saving>>
  BY DEF Launch, AccountInv, AccountTypeOK
<1>2. AccountTypeOK'
  BY DEF Launch, AccountInv, AccountTypeOK, PhoneState, AppState, Quotas
<1>3. erase = "no" /\ setup.pc = "idle"
  BY <1>1, AccountAssumption DEF AccountInv, StepsFit, AtHome
<1>4. StepsFit'
  BY <1>1, <1>3 DEF AccountInv, StepsFit, AtHome
<1>5. AllJudged'
  BY <1>1 DEF AccountInv, AllJudged, Judged, IsSpent
<1>6. ASSUME ~marred'.failed PROVE (PhoneAgrees /\ ErasedInOrder /\ ShownIsOurs
      /\ HeldUntilGone /\ StoredIsHeld)'
  <2>1. app'.token = phone.token
    BY <1>1, <1>6
  <2>2. ~marred.failed /\ HeldUntilGone /\ StoredIsHeld
    BY <1>1, <1>6 DEF AccountInv
  <2>3. HeldUntilGone' /\ StoredIsHeld'
    BY <1>1, <2>2 DEF HeldUntilGone, StoredIsHeld
  <2>4. PhoneAgrees' /\ ErasedInOrder'
    BY <1>1, <1>3, <2>1 DEF PhoneAgrees, ErasedInOrder, EraseIn
  <2>5. ShownIsOurs'
    BY <1>1, <2>1, <2>2 DEF ShownIsOurs, StoredIsHeld
  <2> QED BY <2>3, <2>4, <2>5
<1> QED BY <1>2, <1>4, <1>5, <1>6 DEF AccountInv

(* Every step but a few leaves the phone's and the app's records alone.     *)
LEMMA SetupInv ==
  ASSUME AccountInv, Start \/ Mint \/ SetupFails
  PROVE  AccountInv'
<1>1. UNCHANGED <<spent, month, phone, app, erase, asks, saving, marred>>
  BY DEF Start, Mint, SetupFails
<1>2. AccountTypeOK' /\ StepsFit' /\ \A t \in Tokens : accounts'[t] # "live" \/ accounts'[t] = accounts[t] \/ accounts[t] = "unminted"
  <2>1. CASE Start
    <3>1. setup'.pc = "asked" /\ app.token = NoToken /\ UNCHANGED accounts
      BY <2>1 DEF Start, AccountInv, AccountTypeOK
    <3>2. AccountTypeOK'
      BY <1>1, <2>1 DEF Start, AccountInv, AccountTypeOK
    <3> QED BY <1>1, <3>1, <3>2 DEF AccountInv, StepsFit, AtHome
  <2>2. CASE Mint
    <3>1. PICK t \in Tokens : /\ accounts[t] = "unminted" /\ accounts' = [accounts EXCEPT ![t] = "live"]
                              /\ setup' = [pc |-> "minted", token |-> t]
      BY <2>2 DEF Mint
    <3>2. AccountTypeOK'
      BY <1>1, <3>1 DEF AccountInv, AccountTypeOK
    <3>3. accounts'[t] = "live" /\ (\A s \in Tokens \ {t} : accounts'[s] = accounts[s])
      BY <3>1 DEF AccountInv, AccountTypeOK
    <3>4. app.token = NoToken /\ ~AtHome
      BY <2>2, AccountAssumption DEF Mint, AccountInv, StepsFit, AtHome
    <3>5. marred.held \subseteq Tokens
      BY DEF AccountInv, AccountTypeOK
    <3> QED BY <1>1, <3>1, <3>2, <3>3, <3>4, <3>5 DEF AccountInv, StepsFit, AtHome
  <2>3. CASE SetupFails
    BY <1>1, <2>3 DEF SetupFails, AccountInv, AccountTypeOK, StepsFit, AtHome
  <2> QED BY <2>1, <2>2, <2>3
<1>3. AllJudged'
  BY <1>1 DEF AccountInv, AllJudged, Judged, IsSpent
<1>4. ASSUME ~marred'.failed PROVE (PhoneAgrees /\ ErasedInOrder /\ ShownIsOurs
      /\ HeldUntilGone /\ StoredIsHeld)'
  <2>1. PhoneAgrees /\ ErasedInOrder /\ ShownIsOurs /\ HeldUntilGone /\ StoredIsHeld /\ ~marred.failed
    BY <1>1, <1>4 DEF AccountInv
  <2>2. marred.held \subseteq Tokens /\ \A t \in marred.held : accounts[t] # "unminted"
    BY DEF AccountInv, AccountTypeOK, StepsFit
  <2>3. HeldUntilGone'
    BY <1>1, <1>2, <2>1, <2>2 DEF HeldUntilGone
  <2> QED BY <1>1, <2>1, <2>3 DEF PhoneAgrees, ErasedInOrder, ShownIsOurs, StoredIsHeld, AtHome,
       EraseIn
<1> QED BY <1>2, <1>3, <1>4 DEF AccountInv

LEMMA SaveTokenInv == AccountInv /\ SaveToken => AccountInv'
<1> SUFFICES ASSUME AccountInv, SaveToken PROVE AccountInv'
  OBVIOUS
<1>1. /\ setup.pc = "minted" /\ setup'.pc = "idle"
      /\ phone'.token = setup.token /\ phone'.requests = phone.requests /\ phone'.quota = phone.quota
      /\ app'.token = setup.token /\ app'.quota = app.quota
      /\ marred'.held = marred.held \union {setup.token} /\ marred'.failed = marred.failed
         /\ marred'.late = marred.late
      /\ UNCHANGED <<accounts, spent, month, erase, asks, saving>>
  BY DEF SaveToken, AccountInv, AccountTypeOK, PhoneState, AppState
<1>2. setup.token \in Tokens /\ accounts[setup.token] # "unminted" /\ app.token = NoToken /\ erase = "no"
  BY <1>1, AccountAssumption DEF AccountInv, StepsFit, AtHome
<1>3. AccountTypeOK'
  BY <1>2 DEF SaveToken, AccountInv, AccountTypeOK, PhoneState, AppState
<1>4. StepsFit'
  BY <1>1, <1>2 DEF AccountInv, StepsFit, AtHome
<1>5. AllJudged'
  BY <1>1 DEF AccountInv, AllJudged, Judged, IsSpent
<1>6. ASSUME ~marred'.failed PROVE (PhoneAgrees /\ ErasedInOrder /\ ShownIsOurs
      /\ HeldUntilGone /\ StoredIsHeld)'
  <2>1. PhoneAgrees /\ ShownIsOurs /\ HeldUntilGone /\ StoredIsHeld /\ ~marred.failed
    BY <1>1, <1>6 DEF AccountInv
  <2>2. phone.token = NoToken /\ NoToken \notin Tokens /\ Starting \notin Tokens /\ NoToken # Starting
    BY <1>2, <2>1, AccountAssumption DEF PhoneAgrees
  <2>3. phone.requests \subseteq Tokens /\ marred.held \subseteq Tokens
    BY DEF AccountInv, AccountTypeOK, PhoneState
  <2>4. phone.quota = NoQuota \/ phone.quota.of \in Tokens
    BY DEF AccountInv, AccountTypeOK, PhoneState, Quotas, Heard, OverStates
  <2>5. app.quota = NoQuota \/ app.quota.of \in Tokens
    BY DEF AccountInv, AccountTypeOK, AppState, Quotas, Heard, OverStates
  <2>6. PhoneAgrees' /\ ErasedInOrder'
    BY <1>1, <1>2, <2>2 DEF PhoneAgrees, ErasedInOrder, EraseIn, AtHome
  <2>7. ShownIsOurs'
    BY <1>1, <1>2, <2>1, <2>2, <2>5 DEF ShownIsOurs
  <2>8. HeldUntilGone'
    BY <1>1, <1>2, <2>1, <2>2, <2>3 DEF HeldUntilGone
  <2>9. StoredIsHeld'
    BY <1>1, <2>1, <2>2, <2>3, <2>4 DEF StoredIsHeld
  <2> QED BY <2>6, <2>7, <2>8, <2>9
<1> QED BY <1>3, <1>4, <1>5, <1>6 DEF AccountInv

Ours == PhoneAgrees /\ ErasedInOrder /\ ShownIsOurs /\ HeldUntilGone /\ StoredIsHeld

(* Steps of a deletion that change nothing the phone has stored.           *)
LEMMA DeletionInv ==
  ASSUME AccountInv, DeleteAccount \/ ServerDeletes \/ DeleteFails \/ DeleteAnswered \/ EraseThrows
  PROVE  AccountInv'
<1>1. UNCHANGED <<spent, month, phone, app, setup, asks, saving, marred>> /\ AtHome /\ erase # "logout"
  BY DEF DeleteAccount, ServerDeletes, DeleteFails, DeleteAnswered, EraseThrows, EraseAt, AccountInv,
       StepsFit
<1>2. /\ erase' \in {"no", "asked", "answered", "requests"}
      /\ erase' \in {"no", "asked"} \/ accounts'[app.token] = "deleted"
      /\ accounts' \in [Tokens -> {"unminted", "live", "deleted"}]
      /\ \A t \in Tokens : accounts'[t] = accounts[t] \/ accounts'[t] = "deleted"
  BY <1>1 DEF DeleteAccount, ServerDeletes, DeleteFails, DeleteAnswered, EraseThrows, EraseAt,
       AccountInv, StepsFit,
              AccountTypeOK, AtHome
<1>3. AccountTypeOK'
  BY <1>1, <1>2 DEF AccountInv, AccountTypeOK, EraseSteps
<1>4. StepsFit'
  <2>1. marred.held \subseteq Tokens
    BY DEF AccountInv, AccountTypeOK
  <2> QED BY <1>1, <1>2, <2>1, AccountAssumption DEF AccountInv, StepsFit, AtHome
<1>5. AllJudged'
  BY <1>1 DEF AccountInv, AllJudged, Judged, IsSpent
<1>6. ASSUME ~marred'.failed PROVE Ours'
  <2>1. PhoneAgrees /\ ShownIsOurs /\ HeldUntilGone /\ StoredIsHeld /\ ~marred.failed
    BY <1>1, <1>6 DEF AccountInv
  <2>2. PhoneAgrees' /\ ErasedInOrder'
    BY <1>1, <1>2, <2>1 DEF PhoneAgrees, ErasedInOrder, EraseIn, AtHome
  <2>3. ShownIsOurs' /\ StoredIsHeld'
    BY <1>1, <2>1 DEF ShownIsOurs, StoredIsHeld
  <2>4. HeldUntilGone'
    <3>1. marred.held \subseteq Tokens
      BY DEF AccountInv, AccountTypeOK
    <3> QED BY <1>1, <1>2, <2>1, <3>1 DEF HeldUntilGone
  <2> QED BY <2>2, <2>3, <2>4 DEF Ours
<1> QED BY <1>3, <1>4, <1>5, <1>6 DEF AccountInv, Ours

(* Steps of a deletion that erase something stored.                         *)
LEMMA EraseInv ==
  ASSUME AccountInv,
         (\E removed \in BOOLEAN : ClearStore(removed) \/ ClearSettings(removed)) \/ ClearToken \/ Forget
  PROVE  AccountInv'
<1>1. UNCHANGED <<accounts, spent, month, setup, saving>>
  BY DEF ClearStore, ClearSettings, ClearToken, Forget
<1>2. AtHome /\ accounts[app.token] = "deleted" /\ setup.pc = "idle" /\ NoToken \notin Tokens
      /\ Starting \notin Tokens
  BY AccountAssumption DEF ClearStore, ClearSettings, ClearToken, Forget, AccountInv, StepsFit,
       AtHome
<1>3. ASSUME NEW removed \in BOOLEAN, ClearStore(removed) PROVE AccountInv'
  <2>1. /\ erase = "requests" /\ erase' = "settings" /\ UNCHANGED <<app, asks>>
        /\ phone'.token = phone.token /\ phone'.quota = phone.quota
        /\ phone'.requests = IF removed THEN phone.requests \ {app.token} ELSE phone.requests
        /\ marred'.held = marred.held /\ marred'.late = marred.late
        /\ marred'.failed = (marred.failed \/ ~removed)
    BY <1>3 DEF ClearStore, EraseAt, AccountInv, AccountTypeOK, PhoneState
  <2>2. AccountTypeOK'
    BY <1>3, <1>1 DEF ClearStore, EraseAt, AccountInv, AccountTypeOK, PhoneState, EraseSteps
  <2>3. StepsFit' /\ AllJudged'
    BY <1>1, <1>2, <2>1 DEF AccountInv, StepsFit, AtHome, AllJudged, Judged, IsSpent
  <2>4. ASSUME ~marred'.failed PROVE Ours'
    <3>1. Ours /\ removed /\ ~marred.failed
      BY <2>1, <2>4 DEF AccountInv, Ours
    <3>2. phone.token = app.token
      BY <1>2, <2>1, <3>1 DEF Ours, PhoneAgrees
    <3>3. PhoneAgrees' /\ ShownIsOurs' /\ HeldUntilGone'
      BY <1>1, <2>1, <3>1, <3>2 DEF Ours, PhoneAgrees, ShownIsOurs, HeldUntilGone, AtHome
    <3>4. phone'.requests \subseteq marred'.late
      BY <2>1, <3>1, <3>2 DEF Ours, StoredIsHeld
    <3>5. ErasedInOrder' /\ StoredIsHeld'
      BY <2>1, <3>1, <3>4 DEF Ours, ErasedInOrder, StoredIsHeld, EraseIn
    <3> QED BY <3>3, <3>5 DEF Ours
  <2> QED BY <2>2, <2>3, <2>4 DEF AccountInv, Ours
<1>4. ASSUME NEW removed \in BOOLEAN, ClearSettings(removed) PROVE AccountInv'
  <2>1. /\ erase = "settings" /\ erase' = "token" /\ UNCHANGED <<app, asks>>
        /\ phone'.token = phone.token /\ phone'.requests = phone.requests
        /\ phone'.quota = IF removed THEN NoQuota ELSE phone.quota
        /\ marred'.held = marred.held /\ marred'.late = marred.late
        /\ marred'.failed = (marred.failed \/ ~removed)
    BY <1>4 DEF ClearSettings, EraseAt, AccountInv, AccountTypeOK, PhoneState
  <2>2. AccountTypeOK'
    <3>1. phone' \in PhoneState
      BY <1>4 DEF ClearSettings, AccountInv, AccountTypeOK, PhoneState, Quotas
    <3>2. marred' \in [held : SUBSET Tokens, failed : BOOLEAN, late : SUBSET Tokens]
      BY <1>4 DEF ClearSettings, AccountInv, AccountTypeOK
    <3> QED BY <1>1, <2>1, <3>1, <3>2 DEF AccountInv, AccountTypeOK, EraseSteps
  <2>3. StepsFit' /\ AllJudged'
    BY <1>1, <1>2, <2>1 DEF AccountInv, StepsFit, AtHome, AllJudged, Judged, IsSpent
  <2>4. ASSUME ~marred'.failed PROVE Ours'
    <3>1. Ours /\ removed /\ ~marred.failed
      BY <2>1, <2>4 DEF AccountInv, Ours
    <3>2. PhoneAgrees' /\ ShownIsOurs' /\ HeldUntilGone'
      BY <1>1, <2>1, <3>1 DEF Ours, PhoneAgrees, ShownIsOurs, HeldUntilGone, AtHome
    <3>3. ErasedInOrder' /\ StoredIsHeld'
      BY <2>1, <3>1 DEF Ours, ErasedInOrder, StoredIsHeld, EraseIn
    <3> QED BY <3>2, <3>3 DEF Ours
  <2> QED BY <2>2, <2>3, <2>4 DEF AccountInv, Ours
<1>5. CASE ClearToken
  <2>1. /\ erase = "token" /\ erase' = "logout" /\ UNCHANGED <<app, asks, marred>>
        /\ phone'.token = NoToken /\ phone'.requests = phone.requests /\ phone'.quota = phone.quota
    BY <1>5 DEF ClearToken, EraseAt, AccountInv, AccountTypeOK, PhoneState
  <2>2. AccountTypeOK'
    BY <1>5, <1>1 DEF ClearToken, EraseAt, AccountInv, AccountTypeOK, PhoneState, EraseSteps
  <2>3. StepsFit' /\ AllJudged'
    BY <1>1, <1>2, <2>1 DEF AccountInv, StepsFit, AtHome, AllJudged, Judged, IsSpent
  <2>4. ASSUME ~marred'.failed PROVE Ours'
    <3>1. Ours /\ ~marred.failed
      BY <2>1, <2>4 DEF AccountInv, Ours
    <3>2. phone.token = app.token /\ app.token # NoToken
      BY <1>2, <2>1, <3>1 DEF Ours, PhoneAgrees, AtHome
    <3>3. \A t \in marred.held : accounts[t] # "live"
      BY <1>2, <3>1, <3>2 DEF Ours, HeldUntilGone
    <3>4. PhoneAgrees' /\ ShownIsOurs' /\ HeldUntilGone'
      BY <1>1, <2>1, <3>1, <3>2, <3>3 DEF Ours, PhoneAgrees, ShownIsOurs, HeldUntilGone, AtHome
    <3>5. ErasedInOrder' /\ StoredIsHeld'
      BY <2>1, <3>1 DEF Ours, ErasedInOrder, StoredIsHeld, EraseIn
    <3> QED BY <3>4, <3>5 DEF Ours
  <2> QED BY <2>2, <2>3, <2>4 DEF AccountInv, Ours
<1>6. CASE Forget
  <2>1. /\ erase = "logout" /\ erase' = "no" /\ UNCHANGED <<phone, marred>> /\ asks' \subseteq asks
        /\ app'.token = NoToken /\ app'.quota = NoQuota
    BY <1>6 DEF Forget, EraseAt
  <2>2. AccountTypeOK'
    <3>1. app' \in AppState
      BY <1>6 DEF Forget, AppState, Quotas
    <3> QED BY <1>1, <2>1, <3>1 DEF AccountInv, AccountTypeOK, EraseSteps
  <2>3. StepsFit' /\ AllJudged'
    BY <1>1, <1>2, <2>1 DEF AccountInv, StepsFit, AtHome, AllJudged, Judged, IsSpent
  <2>4. ASSUME ~marred'.failed PROVE Ours'
    <3>1. Ours /\ ~marred.failed
      BY <2>1, <2>4 DEF AccountInv, Ours
    <3>2. phone.token = NoToken
      BY <1>2, <2>1, <3>1 DEF Ours, PhoneAgrees
    <3> QED BY <1>1, <1>2, <2>1, <3>1, <3>2
            DEF Ours, PhoneAgrees, ShownIsOurs, HeldUntilGone, ErasedInOrder, StoredIsHeld,
            AtHome, EraseIn
  <2> QED BY <2>2, <2>3, <2>4 DEF AccountInv, Ours
<1> QED BY <1>3, <1>4, <1>5, <1>6

-----------------------------------------------------------------------------
LEMMA HearQuotaInv ==
  ASSUME AccountInv, NEW q \in Heard, NEW late,
         HearQuota(q, late), Judged(q),
         ~late => AtHome /\ q.of = app.token /\ erase \notin {"token", "logout"},
         asks' \subseteq asks, saving' \subseteq Tokens,
         UNCHANGED <<accounts, spent, month, setup, erase>>
  PROVE  AccountInv'
<1>1. /\ app'.token = app.token /\ app'.quota = q
      /\ phone'.token = phone.token /\ phone'.requests = phone.requests /\ phone'.quota = q
      /\ marred'.held = marred.held /\ marred'.failed = marred.failed
      /\ marred'.late = IF late THEN marred.late \union {q.of} ELSE marred.late
  BY DEF HearQuota, AccountInv, AccountTypeOK, PhoneState, AppState
<1>2. q.of \in Tokens
  BY DEF Heard, OverStates
<1>3. AccountTypeOK'
  <2>1. phone' \in PhoneState
    BY DEF HearQuota, AccountInv, AccountTypeOK, PhoneState, Quotas
  <2>2. app' \in AppState
    BY DEF HearQuota, AccountInv, AccountTypeOK, AppState, Quotas
  <2>3. marred' \in [held : SUBSET Tokens, failed : BOOLEAN, late : SUBSET Tokens]
    BY <1>2 DEF HearQuota, AccountInv, AccountTypeOK
  <2> QED BY <2>1, <2>2, <2>3 DEF AccountInv, AccountTypeOK
<1>4. StepsFit'
  BY <1>1 DEF AccountInv, StepsFit, AtHome
<1>5. AllJudged'
  BY <1>1 DEF AccountInv, AllJudged, Judged, IsSpent
<1>6. ASSUME ~marred'.failed PROVE Ours'
  <2>1. Ours
    BY <1>1, <1>6 DEF AccountInv, Ours
  <2>2. ~late => phone.token = q.of
    BY <2>1 DEF Ours, PhoneAgrees
  <2>3. PhoneAgrees' /\ HeldUntilGone'
    BY <1>1, <2>1 DEF Ours, PhoneAgrees, HeldUntilGone, AtHome
  <2>4. ErasedInOrder' /\ ShownIsOurs'
    BY <1>1, <2>1 DEF Ours, ErasedInOrder, ShownIsOurs, EraseIn
  <2>5. StoredIsHeld'
    BY <1>1, <2>1, <2>2 DEF Ours, StoredIsHeld
  <2> QED BY <2>3, <2>4, <2>5 DEF Ours
<1> QED BY <1>3, <1>4, <1>5, <1>6 DEF AccountInv, Ours

LEMMA PasteInv ==
  ASSUME AccountInv, NEW asked \in Months, NEW judged \in Months, NEW over \in BOOLEAN,
         Paste(asked, judged, over)
  PROVE  AccountInv'
<1> DEFINE q == IF over THEN OverIn(app.token, asked, judged, "header") ELSE Free(app.token)
           late == EraseIn({"token", "logout"})
<1>1. AtHome /\ asked <= judged /\ judged <= month /\ (over => IsSpent(app.token, judged))
      /\ HearQuota(q, late)
      /\ saving' = saving \union {app.token} /\ UNCHANGED <<accounts, spent, month, setup, erase, asks>>
  BY DEF Paste
<1>2. q \in Heard /\ q.of = app.token
  BY <1>1 DEF AtHome, OverIn, Free, Heard, OverStates
<1>3. Judged(q)
  BY <1>1 DEF Judged, OverIn, Free
<1>4. saving' \subseteq Tokens
  BY <1>1 DEF AccountInv, AccountTypeOK, AtHome
<1>5. ~late => erase \notin {"token", "logout"}
  BY DEF EraseIn
<1> HIDE DEF q, late
<1> QED BY <1>1, <1>2, <1>3, <1>4, <1>5, HearQuotaInv

LEMMA HearInv ==
  ASSUME AccountInv, NEW q \in asks, Hear(q)
  PROVE  AccountInv'
<1> DEFINE stored == IF q.answer.over THEN [q.answer EXCEPT !.month = month] ELSE q.answer
           late   == EraseIn({"token", "logout"}) \/ app.token # q.of
<1>1. q.answer # NoQuota /\ asks' = asks \ {q} /\ HearQuota(stored, late)
      /\ UNCHANGED <<accounts, spent, month, setup, erase, saving>>
  BY DEF Hear
<1>2. q \in Question /\ Judged(q.answer) /\ q.answer.of = q.of /\ (q.answer.over => q.answer.by = "answer")
      /\ month \in Months /\ saving \subseteq Tokens
  BY <1>1 DEF AccountInv, AccountTypeOK, AllJudged
<1>3. q.of \in Tokens /\ q.answer \in Heard
  BY <1>1, <1>2 DEF Question, Quotas
<1>4. stored \in Heard /\ stored.of = q.of /\ Judged(stored)
  <2>1. CASE q.answer.over
    <3>1. q.answer \in OverStates
      BY <1>3, <2>1 DEF Heard
    <3>2. PICK a \in OverStates : a = q.answer
      BY <3>1
    <3>3. /\ [a EXCEPT !.month = month] \in OverStates
          /\ [a EXCEPT !.month = month].of = a.of /\ [a EXCEPT !.month = month].by = a.by
          /\ [a EXCEPT !.month = month].judged = a.judged /\ [a EXCEPT !.month = month].month = month
      BY <1>2 DEF OverStates
    <3> DEFINE b == [a EXCEPT !.month = month]
    <3>4. stored = b
      BY <2>1, <3>2
    <3>5. a.of = q.of /\ a.by = "answer" /\ a.over /\ a # NoQuota /\ Judged(a)
      BY <1>1, <1>2, <2>1, <3>2
    <3> HIDE DEF b
    <3>6. b \in Heard /\ b.of = q.of /\ Judged(b)
      BY <3>3, <3>5 DEF Judged, Heard, b
    <3> QED BY <3>4, <3>6
  <2>2. CASE ~q.answer.over
    BY <1>2, <1>3, <2>2
  <2> QED BY <2>1, <2>2
<1>5. ~late => AtHome /\ q.of = app.token /\ erase \notin {"token", "logout"}
  BY <1>3 DEF EraseIn, AtHome
<1> HIDE DEF stored, late
<1> QED BY <1>1, <1>2, <1>4, <1>5, HearQuotaInv

LEMMA AskInv ==
  ASSUME AccountInv, (\E by \in {"poll", "sync"} : AskQuota(by)) \/ (\E q \in asks : AskFails(q) \/ Answer(q))
  PROVE  AccountInv'
<1>1. UNCHANGED <<accounts, spent, month, phone, app, setup, erase, saving, marred>>
  BY DEF AskQuota, AskFails, Answer
<1>2. asks \subseteq Question /\ month \in Months /\ app \in AppState
  BY DEF AccountInv, AccountTypeOK
<1>3. \A q \in asks' : \/ q \in asks
                       \/ /\ q \in Question
                          /\ q.answer # NoQuota =>
                               Judged(q.answer) /\ q.answer.of = q.of
                                   /\ (q.answer.over => q.answer.by = "answer")
  <2>1. ASSUME NEW by \in {"poll", "sync"}, AskQuota(by), NEW q \in asks', q \notin asks
        PROVE  q \in Question /\ q.answer = NoQuota
    <3>1. q = [by |-> by, of |-> app.token, answer |-> NoQuota] /\ app.token \in Tokens
      BY <2>1 DEF AskQuota, AtHome
    <3> QED BY <3>1 DEF Question, Quotas
  <2>2. ASSUME NEW p \in asks, Answer(p), NEW q \in asks', q \notin asks
        PROVE  /\ q \in Question /\ Judged(q.answer) /\ q.answer.of = q.of
                  /\ (q.answer.over => q.answer.by = "answer")
    <3> DEFINE a == IF IsSpent(p.of, month) THEN OverIn(p.of, month, month, "answer") ELSE Free(p.of)
    <3>1. q = [p EXCEPT !.answer = a]
      BY <2>2 DEF Answer
    <3>2. p \in Question /\ p.of \in Tokens
      BY <1>2 DEF Question
    <3>3. a \in Heard /\ a.of = p.of /\ (a.over => a.by = "answer")
      BY <1>2, <3>2 DEF OverIn, Free, Heard, OverStates
    <3>4. Judged(a)
      BY <1>2, AccountAssumption DEF OverIn, Free, Judged, Months
    <3> HIDE DEF a
    <3>5. q \in Question /\ q.answer = a /\ q.of = p.of
      BY <3>1, <3>2, <3>3 DEF Question, Quotas
    <3> QED BY <3>3, <3>4, <3>5
  <2>3. ASSUME NEW p \in asks, AskFails(p) PROVE asks' \subseteq asks
    BY <2>3 DEF AskFails
  <2> QED BY <2>1, <2>2, <2>3
<1>4. AccountTypeOK'
  BY <1>1, <1>2, <1>3 DEF AccountInv, AccountTypeOK
<1>5. StepsFit'
  BY <1>1 DEF AccountInv, StepsFit, AtHome
<1>6. AllJudged'
  BY <1>1, <1>3 DEF AccountInv, AllJudged, Judged, IsSpent
<1>7. Ours' <=> Ours
  BY <1>1 DEF Ours, PhoneAgrees, ErasedInOrder, ShownIsOurs, HeldUntilGone, StoredIsHeld,
       AtHome, EraseIn
<1> QED BY <1>1, <1>4, <1>5, <1>6, <1>7 DEF AccountInv, Ours

-----------------------------------------------------------------------------
(* What goes on beside the screens: the server's count, the calendar.       *)
LEMMA OutsideInv ==
  ASSUME AccountInv, Request \/ NextMonth \/ (\E t \in Tokens : Spend(t))
  PROVE  AccountInv'
<1>1. UNCHANGED <<accounts, phone, app, setup, erase, asks, marred>>
  BY DEF Request, NextMonth, Spend
<1>2. /\ spent \subseteq spent' /\ spent' \subseteq Tokens \X Months /\ month' \in Months
         /\ month <= month'
      /\ saving' \subseteq Tokens
  BY AccountAssumption DEF Request, NextMonth, Spend, AccountInv, AccountTypeOK, AtHome, Months
<1>3. AccountTypeOK'
  BY <1>1, <1>2 DEF AccountInv, AccountTypeOK
<1>4. StepsFit'
  BY <1>1 DEF AccountInv, StepsFit, AtHome
<1>5. AllJudged'
  <2>1. \A q : q \in Quotas /\ Judged(q) => Judged(q)'
    <3>1. \A q \in Quotas : q # NoQuota /\ q.over => q.judged \in Months
      BY DEF Quotas, Heard, OverStates
    <3>2. month \in Int /\ month' \in Int /\ Months \subseteq Int
      BY <1>2, AccountAssumption DEF AccountInv, AccountTypeOK, Months
    <3>3. ASSUME NEW q \in Quotas, Judged(q), q # NoQuota, q.over
          PROVE  IsSpent(q.of, q.judged)' /\ q.judged <= month'
                 /\ (q.by = "header" => q.month <= q.judged)
      <4>1. IsSpent(q.of, q.judged) /\ q.judged <= month /\ (q.by = "header" => q.month <= q.judged)
        BY <3>3 DEF Judged
      <4>2. q.judged \in Int
        BY <3>1, <3>2, <3>3
      <4> QED BY <1>2, <3>2, <4>1, <4>2 DEF IsSpent
    <3> QED BY <3>3 DEF Judged
  <2>2. phone.quota \in Quotas /\ app.quota \in Quotas /\ \A q \in asks : q.answer \in Quotas
    BY DEF AccountInv, AccountTypeOK, PhoneState, AppState, Question
  <2> QED BY <1>1, <2>1, <2>2 DEF AccountInv, AllJudged
<1>6. Ours' <=> Ours
  BY <1>1 DEF Ours, PhoneAgrees, ErasedInOrder, ShownIsOurs, HeldUntilGone, StoredIsHeld,
       AtHome, EraseIn
<1> QED BY <1>1, <1>3, <1>4, <1>5, <1>6 DEF AccountInv, Ours

LEMMA PersistRequestsInv ==
  ASSUME AccountInv, NEW t \in Tokens, PersistRequests(t)
  PROVE  AccountInv'
<1> DEFINE late == app.token # t \/ EraseIn({"settings", "token", "logout"})
<1>1. /\ phone'.token = phone.token /\ phone'.quota = phone.quota
         /\ phone'.requests = phone.requests \union {t}
      /\ marred'.held = marred.held /\ marred'.failed = marred.failed
      /\ marred'.late = IF late THEN marred.late \union {t} ELSE marred.late
      /\ UNCHANGED <<accounts, spent, month, app, setup, erase, asks>>
  BY DEF PersistRequests, AccountInv, AccountTypeOK, PhoneState
<1>2. AccountTypeOK'
  <2>1. phone' \in PhoneState
    BY DEF PersistRequests, AccountInv, AccountTypeOK, PhoneState
  <2>2. marred' \in [held : SUBSET Tokens, failed : BOOLEAN, late : SUBSET Tokens]
    BY DEF PersistRequests, AccountInv, AccountTypeOK
  <2>3. saving' \subseteq Tokens
    BY DEF PersistRequests, AccountInv, AccountTypeOK
  <2> QED BY <1>1, <2>1, <2>2, <2>3 DEF AccountInv, AccountTypeOK
<1>3. StepsFit' /\ AllJudged'
  BY <1>1 DEF AccountInv, StepsFit, AtHome, AllJudged, Judged, IsSpent
<1>4. ASSUME ~marred'.failed PROVE Ours'
  <2>1. Ours
    BY <1>1, <1>4 DEF AccountInv, Ours
  <2>2. ~late => phone.token = t
    BY <2>1 DEF Ours, PhoneAgrees, AtHome, EraseIn
  <2>3. PhoneAgrees' /\ HeldUntilGone' /\ ShownIsOurs'
    BY <1>1, <2>1 DEF Ours, PhoneAgrees, HeldUntilGone, ShownIsOurs, AtHome
  <2>4. ErasedInOrder'
    BY <1>1, <2>1 DEF Ours, ErasedInOrder, EraseIn
  <2>5. StoredIsHeld'
    <3> HIDE DEF late
    <3> QED BY <1>1, <2>1, <2>2 DEF Ours, StoredIsHeld
  <2> QED BY <2>3, <2>4, <2>5 DEF Ours
<1> QED BY <1>2, <1>3, <1>4 DEF AccountInv, Ours

LEMMA KillAppInv == AccountInv /\ KillApp => AccountInv'
<1> SUFFICES ASSUME AccountInv, KillApp PROVE AccountInv'
  OBVIOUS
<1>1. /\ app'.token = Starting /\ app'.quota = NoQuota /\ setup'.pc = "idle" /\ erase' = "no"
         /\ asks' = {}
      /\ saving' = {} /\ UNCHANGED <<spent, month, phone, marred>>
  BY DEF KillApp
<1>2. /\ accounts' \in [Tokens -> {"unminted", "live", "deleted"}]
      /\ \A t \in Tokens : accounts'[t] = accounts[t] \/ accounts'[t] = "deleted"
  BY DEF KillApp, AccountInv, AccountTypeOK
<1>3. Starting # NoToken /\ Starting \notin Tokens /\ marred.held \subseteq Tokens
  BY AccountAssumption DEF AccountInv, AccountTypeOK
<1>4. AccountTypeOK'
  <2>1. app' \in AppState
        /\ setup' \in [pc : {"idle", "asked", "minted"}, token : Tokens \union {NoToken}]
    BY DEF KillApp, AppState, Quotas
  <2> QED BY <1>1, <1>2, <2>1 DEF AccountInv, AccountTypeOK, EraseSteps
<1>5. StepsFit' /\ AllJudged'
  BY <1>1, <1>2, <1>3 DEF AccountInv, StepsFit, AtHome, AllJudged, Judged, IsSpent
<1>6. ASSUME ~marred'.failed PROVE Ours'
  <2>1. Ours
    BY <1>1, <1>6 DEF AccountInv, Ours
  <2> QED BY <1>1, <1>2, <1>3, <2>1
          DEF Ours, PhoneAgrees, ErasedInOrder, ShownIsOurs, HeldUntilGone, StoredIsHeld,
          AtHome, EraseIn
<1> QED BY <1>4, <1>5, <1>6 DEF AccountInv, Ours

LEMMA AccountNextInv == AccountInv /\ [AccountNext]_accountVars => AccountInv'
<1> SUFFICES ASSUME AccountInv, [AccountNext]_accountVars PROVE AccountInv'
  OBVIOUS
<1>1. CASE UNCHANGED accountVars
  BY <1>1 DEF accountVars, AccountInv, AccountTypeOK, StepsFit, AllJudged, Judged, PhoneAgrees,
       ErasedInOrder,
              ShownIsOurs, HeldUntilGone, StoredIsHeld, AtHome, EraseIn, IsSpent
<1>2. CASE \E tokenRead, quotaRead \in BOOLEAN : Launch(tokenRead, quotaRead)
  BY <1>2, LaunchInv
<1>3. CASE Start \/ Mint \/ SetupFails \/ SaveToken
  BY <1>3, SetupInv, SaveTokenInv
<1>4. CASE DeleteAccount \/ ServerDeletes \/ DeleteFails \/ DeleteAnswered \/ EraseThrows
  BY <1>4, DeletionInv
<1>5. CASE (\E removed \in BOOLEAN : ClearStore(removed) \/ ClearSettings(removed)) \/ ClearToken \/ Forget
  BY <1>5, EraseInv
<1>6. CASE (\E by \in {"poll", "sync"} : AskQuota(by)) \/ (\E q \in asks : AskFails(q) \/ Answer(q))
  BY <1>6, AskInv
<1>7. CASE \E q \in asks : Hear(q)
  BY <1>7, HearInv
<1>8. CASE \E asked, judged \in Months, over \in BOOLEAN : Paste(asked, judged, over)
  BY <1>8, PasteInv
<1>9. CASE Request \/ NextMonth \/ (\E t \in Tokens : Spend(t))
  BY <1>9, OutsideInv
<1>10. CASE \E t \in Tokens : PersistRequests(t)
  BY <1>10, PersistRequestsInv
<1>11. CASE KillApp
  BY <1>11, KillAppInv
<1> QED BY <1>1, <1>2, <1>3, <1>4, <1>5, <1>6, <1>7, <1>8, <1>9, <1>10, <1>11 DEF AccountNext

(***************************************************************************)
(* Every step of the account keeps the inductive invariant, the types      *)
(* included.                                                               *)
(***************************************************************************)
THEOREM AccountInvariant == AccountSpec => []AccountInv
  BY AccountInitInv, AccountNextInv, PTL DEF AccountSpec

(***************************************************************************)
(* A live account is never left without its token, wherever deleteAccount  *)
(* stops: for any number of accounts and of questions under way.           *)
(***************************************************************************)
THEOREM TokenGoesLast == AccountSpec => []HeldUntilGone
<1>1. AccountInv => HeldUntilGone
  BY DEF AccountInv, HeldUntilGone
<1> QED BY <1>1, AccountInvariant, PTL

(***************************************************************************)
(* Nor is what the phone stored of an account left without the account:    *)
(* the stores are cleared before the token is.                             *)
(***************************************************************************)
THEOREM StoredGoesFirst == AccountSpec => []StoredIsHeld
<1>1. AccountInv => StoredIsHeld
  BY DEF AccountInv, StoredIsHeld
<1> QED BY <1>1, AccountInvariant, PTL

(***************************************************************************)
(* A screen that says the month's forecasts are used up is right of this   *)
(* account and month, however long the months go on: for any number of     *)
(* them.                                                                   *)
(***************************************************************************)
THEOREM OverIsOfThisMonth == AccountSpec => []OverMeansOver
<1>1. AccountInv => OverMeansOver
  <2> SUFFICES ASSUME AccountInv, AtHome, app.quota # NoQuota, app.quota.over, app.quota.month = month,
                      app.quota.of \notin marred.late, ~marred.failed
               PROVE  /\ IsSpent(app.token, app.quota.judged)
                      /\ app.quota.judged = month \/ (app.quota.by = "answer" /\ app.quota.judged < month)
    BY DEF OverMeansOver
  <2>1. app.quota \in OverStates /\ month \in Months
    BY DEF AccountInv, AccountTypeOK, AppState, Quotas, Heard
  <2>2. app.quota.by \in {"answer", "header"} /\ app.quota.judged \in Int /\ month \in Int
    <3>1. Months \subseteq Int
      BY AccountAssumption DEF Months
    <3>2. app.quota.by \in {"answer", "header"} /\ app.quota.judged \in Months
      BY <2>1 DEF OverStates
    <3> QED BY <2>1, <3>1, <3>2
  <2>3. app.quota.of = app.token
    BY AccountAssumption DEF AccountInv, ShownIsOurs, AtHome
  <2>4. Judged(app.quota)
    BY DEF AccountInv, AllJudged
  <2> QED BY <2>2, <2>3, <2>4 DEF Judged
<1> QED BY <1>1, AccountInvariant, PTL

-----------------------------------------------------------------------------
(***************************************************************************)
(* The box.  Of its text the proof keeps two things: what lines without a  *)
(* label may be (BoxOK), and what it holds of the reply being pasted       *)
(* (StreakOK): that reply whole, or its numbered parts among others of one *)
(* reply that looks the same, or its first pieces and nothing else.        *)
(***************************************************************************)
LEMMA LeastNatural ==
  ASSUME NEW S \in SUBSET Nat, S # {}
  PROVE  \E n \in S : \A m \in S : n <= m
<1> DEFINE R == OpToRel(<, Nat)
<1>1. IsWellFoundedOn(R, Nat)
  BY NatLessThanWellFounded
<1>2. \A a, b \in Nat : <<b, a>> \in R <=> b < a
  BY DEF OpToRel
<1> HIDE DEF R
<1>3. PICK n \in S : \A m \in S : ~(<<m, n>> \in R)
  BY <1>1, WFMin
<1>4. ASSUME NEW m \in S PROVE n <= m
  <2>1. n \in Nat /\ m \in Nat
    OBVIOUS
  <2>2. ~(m < n)
    BY <1>2, <1>3, <2>1
  <2> QED BY <2>1, <2>2
<1> QED BY <1>4

(* Up to n, step by step. *)
LEMMA StepByStep ==
  ASSUME NEW n \in Nat, NEW S, 1 \in S, \A k \in 1 .. n - 1 : k \in S => k + 1 \in S
  PROVE  \A k \in 1 .. n : k \in S
<1> DEFINE B == {k \in 1 .. n : k \notin S}
<1> SUFFICES ASSUME B # {} PROVE FALSE
  OBVIOUS
<1>1. PICK m \in B : \A k \in B : m <= k
  <2>1. B \in SUBSET Nat
    OBVIOUS
  <2> HIDE DEF B
  <2> QED BY <2>1, LeastNatural
<1>2. m # 1 /\ m - 1 \in 1 .. n - 1
  BY <1>1
<1>3. m - 1 \in S
  BY <1>1, <1>2
<1>4. (m - 1) + 1 \in S
  BY <1>2, <1>3
<1> QED BY <1>1, <1>4

(* The function the flattening asks for exists, and it is the whole
   of them. *)
LEMMA Flattened ==
  ASSUME NEW n \in Nat, n >= 1, NEW days, days = [d \in 1 .. n |-> days[d]]
  PROVE  \E all : /\ all = [d \in 1 .. n |-> IF d = 1 THEN days[d] ELSE all[d - 1] \o days[d]]
                  /\ FlattenSeq(days) = all[n]
<1> DEFINE Upto(k, all) == all[1] = days[1] /\ \A d \in 2 .. k : all[d] = all[d - 1] \o days[d]
           S == {k \in 1 .. n : \E all : all = [d \in 1 .. n |-> all[d]] /\ Upto(k, all)}
<1>1. 1 \in S
  <2>1. days = [d \in 1 .. n |-> days[d]] /\ Upto(1, days) /\ 1 \in 1 .. n
    OBVIOUS
  <2> HIDE DEF Upto
  <2> QED BY <2>1
<1>2. ASSUME NEW k \in 1 .. n - 1, k \in S PROVE k + 1 \in S
  <2>1. PICK all : all = [d \in 1 .. n |-> all[d]] /\ Upto(k, all)
    BY <1>2
  <2> DEFINE more == [d \in 1 .. n |-> IF d = k + 1 THEN all[k] \o days[k + 1] ELSE all[d]]
  <2>2. k + 1 \in 1 .. n /\ k \in Nat /\ k >= 1 /\ (k + 1) - 1 = k /\ k + 1 # 1
    OBVIOUS
  <2>3. /\ more = [d \in 1 .. n |-> more[d]] /\ more[k + 1] = all[k] \o days[k + 1]
        /\ \A d \in 1 .. n : d # k + 1 => more[d] = all[d]
    BY <2>2
  <2> HIDE DEF more
  <2>4. Upto(k + 1, more)
    <3>1. more[1] = days[1]
      BY <2>1, <2>2, <2>3
    <3>2. ASSUME NEW d \in 2 .. k + 1 PROVE more[d] = more[d - 1] \o days[d]
      <4>1. d - 1 \in 1 .. n /\ d - 1 # k + 1 /\ d \in 1 .. n
        BY <2>2
      <4>2. more[d - 1] = all[d - 1]
        BY <2>3, <4>1
      <4>3. CASE d = k + 1
        BY <2>2, <2>3, <4>2, <4>3
      <4>4. CASE d # k + 1
        <5>1. d \in 2 .. k
          BY <2>2, <4>4
        <5> QED BY <2>1, <2>3, <4>1, <4>2, <4>4, <5>1
      <4> QED BY <4>3, <4>4
    <3> QED BY <3>1, <3>2
  <2> HIDE DEF Upto
  <2> QED BY <2>2, <2>3, <2>4
<1> HIDE DEF S
<1>3. n \in S
  <2>1. \A k \in 1 .. n : k \in S
    BY <1>1, <1>2, StepByStep
  <2> QED BY <2>1
<1>4. PICK all : all = [d \in 1 .. n |-> all[d]] /\ Upto(n, all)
  BY <1>3 DEF S
<1> DEFINE JoinedUp(f) == f = [d \in 1 .. n |-> IF d = 1 THEN days[d] ELSE f[d - 1] \o days[d]]
<1>5. JoinedUp(all)
  <2>1. ASSUME NEW d \in 1 .. n PROVE all[d] = IF d = 1 THEN days[d] ELSE all[d - 1] \o days[d]
    <3>1. CASE d = 1
      BY <1>4, <3>1
    <3>2. CASE d # 1
      <4>1. d \in 2 .. n
        BY <3>2
      <4> QED BY <1>4, <3>2, <4>1
    <3> QED BY <3>1, <3>2
  <2> HIDE DEF Upto
  <2> QED BY <1>4, <2>1
<1> DEFINE flat == CHOOSE f : JoinedUp(f)
<1>6. JoinedUp(flat)
  <2> HIDE DEF JoinedUp
  <2> QED BY <1>5
<1>7. FlattenSeq(days) = flat[n]
  <2>1. Len(days) = n
    OBVIOUS
  <2> QED BY <2>1 DEF FlattenSeq
<1> HIDE DEF flat
<1> QED BY <1>6, <1>7

(* The lines of a text, joined: made of what they are made of. *)
LEMMA FlatIsOf ==
  ASSUME NEW n \in Nat, NEW T, NEW d, d = [i \in 1 .. n |-> d[i]], \A i \in 1 .. n : d[i] \in Seq(T)
  PROVE  FlattenSeq(d) \in Seq(T)
<1>1. CASE n = 0
  <2>1. d = << >> /\ Len(d) = 0
    BY <1>1
  <2> QED BY <2>1 DEF FlattenSeq
<1>2. CASE n >= 1
  <2>1. PICK all : /\ all = [i \in 1 .. n |-> IF i = 1 THEN d[i] ELSE all[i - 1] \o d[i]]
                   /\ FlattenSeq(d) = all[n]
    BY <1>2, Flattened
  <2> DEFINE S == {i \in 1 .. n : all[i] \in Seq(T)}
  <2>2. 1 \in S
    <3>1. 1 \in 1 .. n
      BY <1>2
    <3>2. all[1] = d[1]
      BY <2>1, <3>1
    <3> QED BY <3>1, <3>2
  <2>3. ASSUME NEW i \in 1 .. n - 1, i \in S PROVE i + 1 \in S
    <3>1. i + 1 \in 1 .. n /\ i + 1 # 1 /\ (i + 1) - 1 = i
      OBVIOUS
    <3>2. all[i + 1] = all[i] \o d[i + 1]
      BY <2>1, <3>1
    <3>3. all[i] \in Seq(T) /\ d[i + 1] \in Seq(T)
      BY <2>3, <3>1
    <3>4. all[i] \o d[i + 1] \in Seq(T)
      BY <3>3, ConcatProperties
    <3> QED BY <3>1, <3>2, <3>4
  <2> HIDE DEF S
  <2>4. n \in S
    <3>1. \A k \in 1 .. n : k \in S
      BY <2>2, <2>3, StepByStep
    <3> QED BY <1>2, <3>1
  <2> QED BY <2>1, <2>4 DEF S
<1> QED BY <1>1, <1>2

(* A sequence cut at rising edges, joined up to one of them. *)
Cut(s, e, n) ==
  /\ e \in [0 .. n -> 0 .. Len(s)] /\ e[0] = 0
  /\ \A i \in 1 .. n : e[i - 1] < e[i]
CutPiece(s, e, i) == SubSeq(s, e[i - 1] + 1, e[i])
CutUp(d, s, e, k) == d = [i \in 1 .. k |-> CutPiece(s, e, i)]

LEMMA CutsJoin ==
  ASSUME NEW T, NEW s \in Seq(T), NEW n \in Nat, NEW e, Cut(s, e, n), NEW k \in 1 .. n,
         NEW d, CutUp(d, s, e, k)
  PROVE  FlattenSeq(d) = SubSeq(s, 1, e[k])
<1>1. k \in Nat /\ k >= 1 /\ d = [i \in 1 .. k |-> d[i]] /\ \A i \in 1 .. k : d[i] = CutPiece(s, e, i)
  BY DEF CutUp
<1>2. PICK all : /\ all = [i \in 1 .. k |-> IF i = 1 THEN d[i] ELSE all[i - 1] \o d[i]]
                 /\ FlattenSeq(d) = all[k]
  <2>1. k \in Nat /\ k >= 1
    BY <1>1
  <2>2. d = [i \in 1 .. k |-> d[i]]
    BY <1>1
  <2> QED BY <2>1, <2>2, Flattened, Zenon
<1> DEFINE S == {i \in 1 .. k : all[i] = SubSeq(s, 1, e[i])}
<1>3. 1 \in S
  <2>1. all[1] = CutPiece(s, e, 1) /\ 1 \in 1 .. k
    <3>1. 1 \in 1 .. k
      BY <1>1
    <3>2. all[1] = d[1]
      BY <1>2, <3>1
    <3> QED BY <1>1, <3>1, <3>2
  <2>2. e[1 - 1] + 1 = 1
    BY DEF Cut
  <2> QED BY <2>1, <2>2 DEF CutPiece
<1>4. ASSUME NEW i \in 1 .. k - 1, i \in S PROVE i + 1 \in S
  <2>1. i + 1 \in 1 .. k /\ i + 1 # 1 /\ (i + 1) - 1 = i /\ i \in 0 .. n /\ i + 1 \in 0 .. n /\ i + 1 \in 1 .. n
    OBVIOUS
  <2>2. all[i + 1] = SubSeq(s, 1, e[i]) \o SubSeq(s, e[i] + 1, e[i + 1])
    <3>1. all[i + 1] = all[i] \o d[i + 1]
      BY <1>2, <2>1
    <3>2. d[i + 1] = SubSeq(s, e[i] + 1, e[i + 1])
      BY <1>1, <2>1 DEF CutPiece
    <3> QED BY <1>4, <3>1, <3>2
  <2>3. PICK a \in Nat, b \in Nat : a = e[i] /\ b = e[i + 1]
    <3>1. e[i] \in 0 .. Len(s) /\ e[i + 1] \in 0 .. Len(s)
      BY <2>1 DEF Cut
    <3>2. Len(s) \in Nat
      BY LenProperties
    <3> QED BY <3>1, <3>2
  <2>4. a \in 0 .. Len(s) /\ b \in a .. Len(s) /\ Len(s) \in Nat
    <3>1. e[(i + 1) - 1] < e[i + 1] /\ e[i] \in 0 .. Len(s) /\ e[i + 1] \in 0 .. Len(s)
      BY <2>1 DEF Cut
    <3>2. Len(s) \in Nat
      BY LenProperties
    <3> QED BY <2>1, <2>3, <3>1, <3>2
  <2>5. SubSeq(s, 1, a) \o SubSeq(s, a + 1, b) = SubSeq(s, 1, b)
    <3>1. 1 \in 1 .. Len(s) + 1 /\ a \in 1 - 1 .. Len(s)
      BY <2>4
    <3> QED BY <2>4, <3>1, ConcatAdjacentSubSeq
  <2> QED BY <2>1, <2>2, <2>3, <2>5
<1> HIDE DEF S
<1>5. k \in S
  <2>1. \A i \in 1 .. k : i \in S
    BY <1>1, <1>3, <1>4, StepByStep
  <2> QED BY <1>1, <2>1
<1> QED BY <1>2, <1>5 DEF S

-----------------------------------------------------------------------------
(* What a reply is made of, and its messages. *)
Units == {Header(r) : r \in Replies} \union (Replies \X Nat)
Size(r) == IF r \in Long THEN Body + PartBody ELSE Body
Top == Body + PartBody + 1
Numbered(r) == r \in Labelled /\ Size(r) > PartBody

LEMMA UnitsApart ==
  /\ \A r \in Replies, q \in Replies, k \in Nat : Header(r) # <<q, k>>
  /\ \A r, q : \A j, k \in Nat : <<r, j>> = <<q, k>> => r = q /\ j = k
<1>1. ASSUME NEW r \in Replies, NEW q \in Replies, NEW k \in Nat PROVE Header(r) # <<q, k>>
  <2>1. q # "header"
    BY PartsAssumption
  <2> QED BY <2>1 DEF Header
<1> QED BY <1>1

LEMMA ReplyIs ==
  ASSUME NEW r \in Replies
  PROVE  /\ Size(r) \in Nat \ {0} /\ Size(r) < Top
         /\ BodyUnits(r) \in Seq(Units) /\ Len(BodyUnits(r)) = Size(r)
         /\ \A k \in 1 .. Size(r) : BodyUnits(r)[k] = <<r, k>>
         /\ <<Header(r)>> \in Seq(Units)
         /\ Encoded[r] = <<Header(r)>> \o BodyUnits(r)
         /\ Encoded[r] \in Seq(Units) /\ Len(Encoded[r]) = Size(r) + 1
         /\ Encoded[r][1] = Header(r)
         /\ \A k \in 2 .. Size(r) + 1 : Encoded[r][k] = <<r, k - 1>>
<1>1. Size(r) \in Nat \ {0} /\ Size(r) < Top
  BY PartsAssumption DEF Size, Top
<1>2. BodyUnits(r) = [k \in 1 .. Size(r) |-> <<r, k>>]
  BY DEF BodyUnits, Size
<1>3. \A k \in 1 .. Size(r) : <<r, k>> \in Units
  BY <1>1 DEF Units
<1>4. BodyUnits(r) \in [1 .. Size(r) -> Units]
  BY <1>2, <1>3
<1>5. BodyUnits(r) \in Seq(Units) /\ Len(BodyUnits(r)) = Size(r)
  BY <1>1, <1>4
<1>6. Header(r) \in Units
  BY DEF Units
<1>7. <<Header(r)>> \in Seq(Units) /\ Len(<<Header(r)>>) = 1 /\ <<Header(r)>>[1] = Header(r)
  BY <1>6
<1>8. Encoded[r] = <<Header(r)>> \o BodyUnits(r)
  BY DEF Encoded
<1>9. /\ <<Header(r)>> \o BodyUnits(r) \in Seq(Units)
      /\ Len(<<Header(r)>> \o BodyUnits(r)) = 1 + Size(r)
      /\ \A k \in 1 .. 1 + Size(r) : (<<Header(r)>> \o BodyUnits(r))[k] =
           IF k <= 1 THEN <<Header(r)>>[k] ELSE BodyUnits(r)[k - 1]
  BY <1>5, <1>7, ConcatProperties
<1>10. Encoded[r][1] = Header(r)
  BY <1>1, <1>7, <1>8, <1>9
<1>11. ASSUME NEW k \in 2 .. Size(r) + 1 PROVE Encoded[r][k] = <<r, k - 1>>
  <2>1. k - 1 \in 1 .. Size(r) /\ k \in 1 .. 1 + Size(r) /\ ~(k <= 1)
    BY <1>1
  <2>2. Encoded[r][k] = BodyUnits(r)[k - 1]
    BY <1>8, <1>9, <2>1
  <2>3. BodyUnits(r)[k - 1] = <<r, k - 1>>
    BY <1>2, <2>1
  <2> QED BY <2>2, <2>3
<1>12. \A k \in 1 .. Size(r) : BodyUnits(r)[k] = <<r, k>>
  BY <1>2
<1>13. Len(Encoded[r]) = Size(r) + 1
  BY <1>1, <1>8, <1>9
<1> QED BY <1>1, <1>5, <1>7, <1>8, <1>9, <1>10, <1>11, <1>12, <1>13

(* What a window of s says of where its units are in s. *)
LEMMA IncludedAt ==
  ASSUME NEW T, NEW s \in Seq(T), NEW t \in Seq(T), Includes(s, t), NEW m \in 1 .. Len(t)
  PROVE  \E j \in 1 .. Len(s) : s[j] = t[m]
<1>1. PICK i \in 0 .. Len(s) - Len(t) : SubSeq(s, i + 1, i + Len(t)) = t
  BY DEF Includes
<1>2. Len(s) \in Nat /\ Len(t) \in Nat
  BY LenProperties
<1>3. \A k \in i + 1 .. i + Len(t) : s[k] \in T
  BY <1>2, ElementOfSeq
<1>4. SubSeq(s, i + 1, i + Len(t))[m] = s[(i + 1) + m - 1]
  <2>1. m \in 1 .. (i + Len(t)) - (i + 1) + 1 /\ i + 1 \in Int /\ i + Len(t) \in Int
    BY <1>2
  <2> QED BY <1>3, <2>1, SubSeqProperties
<1>5. (i + 1) + m - 1 \in 1 .. Len(s)
  BY <1>2
<1> QED BY <1>1, <1>4, <1>5

(* A reply that has a unit of r's body is r. *)
LEMMA Whose ==
  ASSUME NEW r \in Replies, NEW q \in Replies, NEW j \in 1 .. Len(Encoded[q]), NEW k \in Nat, Encoded[q][j] = <<r, k>>
  PROVE  q = r
<1>0. Size(q) \in Nat \ {0} /\ Len(Encoded[q]) = Size(q) + 1 /\ Encoded[q][1] = Header(q)
  BY ReplyIs
<1>1. CASE j = 1
  <2>1. Header(q) # <<r, k>>
    BY UnitsApart
  <2> QED BY <1>0, <1>1, <2>1
<1>2. CASE j # 1
  <2>1. j \in 2 .. Size(q) + 1 /\ j - 1 \in Nat
    BY <1>0, <1>2
  <2>2. Encoded[q][j] = <<q, j - 1>>
    BY <2>1, ReplyIs
  <2> QED BY <2>1, <2>2, UnitsApart
<1> QED BY <1>1, <1>2

(* Multiples. *)
LEMMA Division ==
  \A a \in Nat, b \in Nat \ {0} : a = b * (a \div b) + (a % b) /\ a % b \in 0 .. b - 1 /\ a \div b \in Nat
  OBVIOUS
LEMMA MoreTimes == \A a, b, c \in Nat : a <= b => a * c \in Nat /\ b * c \in Nat /\ a * c <= b * c
  OBVIOUS
LEMMA OneMoreTime == \A a \in Nat \ {0}, c \in Nat : (a - 1) * c \in Nat /\ a * c \in Nat /\ (a - 1) * c = a * c - c
  OBVIOUS

(* Where pieces of at most w units end. *)
Edge(s, w, i) == IF i * w < Len(s) THEN i * w ELSE Len(s)
Edges(s, w, n) == [i \in 0 .. n |-> Edge(s, w, i)]

CutInto(s, w, n, e) ==
  /\ n \in 1 .. Len(s) /\ (n = 1 <=> Len(s) <= w)
  /\ Cut(s, e, n) /\ e[n] = Len(s) /\ (n > 1 => e[1] = w)
  /\ Pieces(s, w) = [i \in 1 .. n |-> CutPiece(s, e, i)]

LEMMA PiecesCut ==
  ASSUME NEW T, NEW s \in Seq(T), Len(s) >= 1, NEW w \in Nat \ {0}, NEW n, n = (Len(s) + w - 1) \div w
  PROVE  CutInto(s, w, n, Edges(s, w, n))
<1>1. PICK m \in Nat \ {0} : m = Len(s)
  <2>1. Len(s) \in Nat
    BY LenProperties
  <2> QED BY <2>1
<1>2. n \in Nat /\ n * w \in Nat /\ n * w >= m /\ n * w < m + w
  <2>1. m + w - 1 \in Nat
    OBVIOUS
  <2>2. PICK q \in Nat, z \in 0 .. w - 1 : m + w - 1 = w * q + z /\ q = n
    BY <1>1, <2>1, Division
  <2>3. w * q = q * w /\ q * w \in Nat
    OBVIOUS
  <2> QED BY <2>2, <2>3
<1>3. n >= 1
  <2>1. n # 0
    BY <1>2
  <2> QED BY <1>2, <2>1
<1>4. (n - 1) * w \in Nat /\ (n - 1) * w < m
  BY <1>2, <1>3, OneMoreTime
<1>5. n <= m
  <2>1. (n - 1) * 1 <= (n - 1) * w
    <3>1. \A a \in Nat : a * 1 = a /\ 1 * a = a /\ w * a = a * w
      OBVIOUS
    <3>2. 1 * (n - 1) <= w * (n - 1)
      BY <1>2, <1>3, MoreTimes
    <3> QED BY <1>2, <1>3, <3>1, <3>2
  <2> QED BY <1>2, <1>3, <1>4, <2>1
<1>6. \A i \in 0 .. n - 1 : i * w \in Nat /\ i * w < m
  <2> SUFFICES ASSUME NEW i \in 0 .. n - 1 PROVE i * w \in Nat /\ i * w < m
    OBVIOUS
  <2>1. i * w <= (n - 1) * w /\ i * w \in Nat
    BY <1>2, <1>3, MoreTimes
  <2> QED BY <1>4, <2>1
<1>7. /\ \A i \in 0 .. n - 1 : Edge(s, w, i) = i * w
      /\ Edge(s, w, n) = m
  <2>1. ~(n * w < m)
    BY <1>2
  <2> QED BY <1>1, <1>6, <2>1 DEF Edge
<1> DEFINE e == Edges(s, w, n)
<1>8. \A i \in 0 .. n : e[i] = Edge(s, w, i)
  BY DEF Edges
<1>9. n = 1 <=> m <= w
  <2>1. n = 1 => m <= w
    BY <1>2
  <2>2. ASSUME n # 1 PROVE ~(m <= w)
    <3>1. 1 \in 0 .. n - 1 /\ 1 * w = w
      BY <1>2, <1>3, <2>2
    <3> QED BY <1>6, <3>1
  <2> QED BY <2>1, <2>2
<1>10. \A i \in 0 .. n : Edge(s, w, i) \in 0 .. m
  BY <1>2, <1>3, <1>6, <1>7
<1>11. e \in [0 .. n -> 0 .. Len(s)] /\ e[0] = 0
  <2>1. 0 * w = 0 /\ 0 \in 0 .. n - 1 /\ 0 \in 0 .. n
    BY <1>2, <1>3
  <2>2. e[0] = 0
    BY <1>7, <1>8, <2>1
  <2> QED BY <1>1, <1>10, <2>2 DEF Edges
<1>12. ASSUME NEW i \in 1 .. n PROVE e[i - 1] < e[i]
  <2>1. i - 1 \in 0 .. n - 1 /\ i - 1 \in 0 .. n /\ i \in 0 .. n /\ i \in Nat \ {0}
    BY <1>2, <1>3
  <2>2. e[i - 1] = (i - 1) * w /\ (i - 1) * w < m /\ (i - 1) * w = i * w - w /\ i * w \in Nat
    BY <1>6, <1>7, <1>8, <2>1, OneMoreTime
  <2>3. e[i] = i * w \/ e[i] = m
    BY <1>1, <1>8, <2>1 DEF Edge
  <2> QED BY <2>2, <2>3
<1>13. Cut(s, e, n)
  <2> HIDE DEF e
  <2> QED BY <1>11, <1>12 DEF Cut
<1>14. e[n] = Len(s)
  BY <1>1, <1>3, <1>7, <1>8
<1>15. n > 1 => e[1] = w
  <2> SUFFICES ASSUME n > 1 PROVE e[1] = w
    OBVIOUS
  <2>1. 1 \in 0 .. n - 1 /\ 1 \in 0 .. n /\ 1 * w = w
    BY <1>2
  <2> QED BY <1>7, <1>8, <2>1
<1>16. Pieces(s, w) = [i \in 1 .. n |-> CutPiece(s, e, i)]
  <2>1. ASSUME NEW i \in 1 .. n PROVE Piece(s, i, w) = CutPiece(s, e, i)
    <3>1. i - 1 \in 0 .. n - 1 /\ i - 1 \in 0 .. n /\ i \in 0 .. n
      BY <1>2, <1>3
    <3>2. e[i - 1] = (i - 1) * w /\ e[i] = Edge(s, w, i)
      BY <1>7, <1>8, <3>1
    <3> HIDE DEF e
    <3> QED BY <3>2 DEF Piece, CutPiece, Edge
  <2> HIDE DEF e
  <2>2. Pieces(s, w) = [i \in 1 .. n |-> Piece(s, i, w)]
    BY DEF Pieces
  <2> QED BY <2>1, <2>2
<1>17. n \in 1 .. Len(s) /\ (n = 1 <=> Len(s) <= w)
  BY <1>1, <1>2, <1>3, <1>5, <1>9
<1> HIDE DEF e
<1>18. CutInto(s, w, n, e)
  BY <1>13, <1>14, <1>15, <1>16, <1>17 DEF CutInto
<1> QED BY <1>18 DEF e

LEMMA HeaderAndRest ==
  ASSUME NEW T, NEW h \in T, NEW b \in Seq(T)
  PROVE  /\ HeaderOf(<<h>> \o b) = <<h>> /\ AfterHeader(<<h>> \o b) = b
         /\ <<h>> \o b \in Seq(T) /\ Len(<<h>> \o b) = 1 + Len(b) /\ (<<h>> \o b)[1] = h
<1> DEFINE s == <<h>> \o b
<1>1. Len(b) \in Nat /\ <<h>> \in Seq(T) /\ Len(<<h>>) = 1 /\ <<h>>[1] = h
  BY LenProperties
<1>2. s \in Seq(T) /\ Len(s) = 1 + Len(b) /\ \A k \in 1 .. 1 + Len(b) : s[k] = IF k <= 1 THEN <<h>>[k] ELSE b[k - 1]
  BY <1>1, ConcatProperties
<1> HIDE DEF s
<1>3. s[1] = h /\ \A k \in 1 .. Len(b) : s[k + 1] = b[k]
  <2>1. 1 \in 1 .. 1 + Len(b) /\ 1 <= 1
    BY <1>1
  <2>2. ASSUME NEW k \in 1 .. Len(b) PROVE s[k + 1] = b[k]
    <3>1. k + 1 \in 1 .. 1 + Len(b) /\ ~(k + 1 <= 1) /\ (k + 1) - 1 = k
      BY <1>1
    <3> QED BY <1>2, <3>1
  <2> QED BY <1>1, <1>2, <2>1, <2>2
<1>4. HeaderOf(s) = <<h>>
  <2>1. \A k \in 1 .. 1 : s[k] \in T
    BY <1>3
  <2>2. /\ SubSeq(s, 1, 1) \in Seq(T) /\ Len(SubSeq(s, 1, 1)) = 1
        /\ \A i \in 1 .. 1 - 1 + 1 : SubSeq(s, 1, 1)[i] = s[1 + i - 1]
    BY <2>1, SubSeqProperties
  <2>3. SubSeq(s, 1, 1)[1] = h
    BY <1>3, <2>2
  <2>4. SubSeq(s, 1, 1) = <<h>>
    <3>1. \A i \in 1 .. 1 : SubSeq(s, 1, 1)[i] = <<h>>[i]
      BY <1>1, <2>3
    <3> QED BY <1>1, <2>2, <3>1, SeqEqual
  <2> QED BY <2>4 DEF HeaderOf, HeaderUnits
<1>5. AfterHeader(s) = b
  <2>1. PICK n \in Nat : n = Len(b)
    BY <1>1
  <2>2. \A k \in 2 .. n + 1 : s[k] \in T
    BY <1>2, <2>1
  <2>3. /\ SubSeq(s, 2, n + 1) \in Seq(T) /\ Len(SubSeq(s, 2, n + 1)) = (IF 2 <= n + 1 THEN (n + 1) - 2 + 1 ELSE 0)
        /\ \A i \in 1 .. (n + 1) - 2 + 1 : SubSeq(s, 2, n + 1)[i] = s[2 + i - 1]
    BY <2>1, <2>2, SubSeqProperties
  <2>4. Len(SubSeq(s, 2, n + 1)) = Len(b)
    BY <2>1, <2>3
  <2>5. \A i \in 1 .. Len(b) : SubSeq(s, 2, n + 1)[i] = b[i]
    <3> SUFFICES ASSUME NEW i \in 1 .. Len(b) PROVE SubSeq(s, 2, n + 1)[i] = b[i]
      OBVIOUS
    <3>1. i \in 1 .. (n + 1) - 2 + 1 /\ 2 + i - 1 = i + 1
      BY <2>1
    <3> QED BY <1>3, <2>3, <3>1
  <2>6. SubSeq(s, 2, n + 1) = b
    BY <2>3, <2>4, <2>5, SeqEqual
  <2>7. AfterHeader(s) = SubSeq(s, 2, n + 1)
    BY <1>2, <2>1 DEF AfterHeader, HeaderUnits
  <2> QED BY <2>6, <2>7
<1> QED BY <1>2, <1>3, <1>4, <1>5 DEF s

LEMMA EncodedParts ==
  ASSUME NEW r \in Replies
  PROVE  HeaderOf(Encoded[r]) = <<Header(r)>> /\ AfterHeader(Encoded[r]) = BodyUnits(r)
<1>1. Header(r) \in Units
  BY DEF Units
<1>2. BodyUnits(r) \in Seq(Units) /\ Encoded[r] = <<Header(r)>> \o BodyUnits(r)
  BY ReplyIs
<1> HIDE DEF Units, Encoded, BodyUnits, Header
<1> QED BY <1>1, <1>2, HeaderAndRest

(* The messages of a reply without numbers, in n pieces that end at e. *)
InPieces(r, n, e) ==
  /\ n \in 1 .. Len(Encoded[r]) /\ Cut(Encoded[r], e, n) /\ e[n] = Len(Encoded[r])
  /\ n > 1 => e[1] > 1 /\ r \notin Labelled
  /\ Messages[r] = [i \in 1 .. n |-> Line(NoLabel, CutPiece(Encoded[r], e, i))]
(* The messages of a reply with numbers: its body in n pieces that end at e. *)
InParts(r, n, e) ==
  /\ n \in 2 .. Top /\ Cut(BodyUnits(r), e, n) /\ e[n] = Len(BodyUnits(r))
  /\ Messages[r] = [i \in 1 .. n |-> Line(<<i, n>>, <<Header(r)>> \o CutPiece(BodyUnits(r), e, i))]

LEMMA PiecesOf ==
  ASSUME NEW r \in Replies, ~Numbered(r)
  PROVE  \E n, e : n \in Nat /\ InPieces(r, n, e)
<1>1. /\ Size(r) \in Nat \ {0} /\ Encoded[r] \in Seq(Units) /\ Len(Encoded[r]) = Size(r) + 1
      /\ AfterHeader(Encoded[r]) = BodyUnits(r) /\ Len(BodyUnits(r)) = Size(r)
  BY ReplyIs, EncodedParts
<1>2. CASE r \in Labelled
  <2>1. Len(AfterHeader(Encoded[r])) <= PartBody
    BY <1>1, <1>2, PartsAssumption DEF Numbered
  <2>2. Messages[r] = <<Line(NoLabel, Encoded[r])>>
    BY <1>2, <2>1 DEF Messages, SplitReply
  <2> DEFINE e == [i \in 0 .. 1 |-> IF i = 0 THEN 0 ELSE Len(Encoded[r])]
  <2>3. e \in [0 .. 1 -> 0 .. Len(Encoded[r])] /\ e[0] = 0 /\ e[1] = Len(Encoded[r])
    BY <1>1
  <2> HIDE DEF e
  <2>4. \A i \in 1 .. 1 : e[i - 1] < e[i]
    <3>1. e[1 - 1] < e[1]
      BY <1>1, <2>3
    <3> QED BY <3>1
  <2>5. Cut(Encoded[r], e, 1)
    BY <2>3, <2>4 DEF Cut
  <2>6. CutPiece(Encoded[r], e, 1) = Encoded[r]
    <3>1. e[1 - 1] + 1 = 1
      BY <2>3
    <3>2. SubSeq(Encoded[r], 1, Len(Encoded[r])) = Encoded[r]
      BY <1>1, SubSeqFull
    <3> QED BY <2>3, <3>1, <3>2 DEF CutPiece
  <2>7. Messages[r] = [i \in 1 .. 1 |-> Line(NoLabel, CutPiece(Encoded[r], e, i))]
    BY <2>2, <2>6
  <2>8. 1 \in 1 .. Len(Encoded[r]) /\ ~(1 > 1)
    BY <1>1
  <2>9. InPieces(r, 1, e)
    BY <2>3, <2>5, <2>7, <2>8 DEF InPieces
  <2> QED BY <2>9
<1>3. CASE r \notin Labelled
  <2>1. PICK w \in Nat \ {0} : w = PartBody /\ w > 1
    BY PartsAssumption
  <2>2. PICK n : n = (Len(Encoded[r]) + w - 1) \div w
    OBVIOUS
  <2>3. PICK e : e = Edges(Encoded[r], w, n)
    OBVIOUS
  <2>4. Len(Encoded[r]) >= 1
    BY <1>1
  <2>5. /\ n \in 1 .. Len(Encoded[r]) /\ Cut(Encoded[r], e, n) /\ e[n] = Len(Encoded[r]) /\ (n > 1 => e[1] = w)
        /\ Pieces(Encoded[r], w) = [i \in 1 .. n |-> CutPiece(Encoded[r], e, i)]
    <3>1. PICK s \in Seq(Units) : s = Encoded[r]
      BY <1>1
    <3>2. CutInto(s, w, n, e)
      BY <2>2, <2>3, <2>4, <3>1, PiecesCut
    <3> QED BY <3>1, <3>2 DEF CutInto
  <2>6. Messages[r] = [i \in DOMAIN Pieces(Encoded[r], w) |-> Line(NoLabel, Pieces(Encoded[r], w)[i])]
    BY <1>3, <2>1 DEF Messages
  <2>7. Messages[r] = [i \in 1 .. n |-> Line(NoLabel, CutPiece(Encoded[r], e, i))]
    BY <2>5, <2>6
  <2>8. InPieces(r, n, e) /\ n \in Nat
    BY <1>3, <2>1, <2>5, <2>7 DEF InPieces
  <2> QED BY <2>8
<1> QED BY <1>2, <1>3

LEMMA PartsOf ==
  ASSUME NEW r \in Replies, Numbered(r)
  PROVE  \E n, e : n \in Nat /\ InParts(r, n, e)
<1>1. /\ Size(r) \in Nat \ {0} /\ Size(r) < Top /\ BodyUnits(r) \in Seq(Units) /\ Len(BodyUnits(r)) = Size(r)
      /\ HeaderOf(Encoded[r]) = <<Header(r)>> /\ AfterHeader(Encoded[r]) = BodyUnits(r)
  BY ReplyIs, EncodedParts
<1>2. PICK w \in Nat \ {0} : w = PartBody /\ w > 1
  BY PartsAssumption
<1>3. PICK n : n = (Len(BodyUnits(r)) + w - 1) \div w
  OBVIOUS
<1>4. PICK e : e = Edges(BodyUnits(r), w, n)
  OBVIOUS
<1>5. Len(BodyUnits(r)) >= 1 /\ ~(Len(BodyUnits(r)) <= w)
  BY <1>1, <1>2 DEF Numbered
<1>6. /\ n \in 1 .. Len(BodyUnits(r)) /\ n # 1 /\ Cut(BodyUnits(r), e, n) /\ e[n] = Len(BodyUnits(r))
      /\ Pieces(BodyUnits(r), w) = [i \in 1 .. n |-> CutPiece(BodyUnits(r), e, i)]
  <2>1. PICK s \in Seq(Units) : s = BodyUnits(r)
    BY <1>1
  <2>2. CutInto(s, w, n, e)
    BY <1>3, <1>4, <1>5, <2>1, PiecesCut
  <2> QED BY <1>5, <2>1, <2>2 DEF CutInto
<1>7. PICK bodies : bodies = Pieces(BodyUnits(r), w)
  OBVIOUS
<1>8. DOMAIN bodies = 1 .. n /\ Len(bodies) = n /\ \A i \in 1 .. n : bodies[i] = CutPiece(BodyUnits(r), e, i)
  <2>1. n \in Nat
    BY <1>1, <1>6
  <2> QED BY <1>6, <1>7, <2>1
<1>9. Messages[r] = [i \in DOMAIN bodies |-> Line(<<i, Len(bodies)>>, <<Header(r)>> \o bodies[i])]
  <2>1. r \in Labelled /\ Messages[r] = SplitReply(Encoded[r], w)
    BY <1>2 DEF Messages, Numbered
  <2> QED BY <1>1, <1>5, <1>7, <2>1 DEF SplitReply
<1>10. Messages[r] = [i \in 1 .. n |-> Line(<<i, n>>, <<Header(r)>> \o CutPiece(BodyUnits(r), e, i))]
  BY <1>8, <1>9
<1>11. n \in 2 .. Top /\ n \in Nat
  <2>1. Top \in Nat
    BY PartsAssumption DEF Top
  <2> QED BY <1>1, <1>6, <2>1
<1>12. InParts(r, n, e)
  BY <1>6, <1>10, <1>11 DEF InParts
<1> QED BY <1>11, <1>12

(* A piece between two edges. *)
PieceOf(T, c, s, a, b) ==
  /\ c \in Seq(T) /\ a \in Nat /\ b \in Nat /\ a < b /\ b <= Len(s) /\ Len(c) = b - a
  /\ \A k \in 1 .. b - a : c[k] = s[a + k]

LEMMA PieceIs ==
  ASSUME NEW T, NEW s \in Seq(T), NEW n \in Nat, NEW e, Cut(s, e, n), NEW i \in 1 .. n
  PROVE  PieceOf(T, CutPiece(s, e, i), s, e[i - 1], e[i])
<1>1. i - 1 \in 0 .. n /\ i \in 0 .. n
  OBVIOUS
<1>2. PICK a \in Nat, b \in Nat : a = e[i - 1] /\ b = e[i] /\ a < b /\ b <= Len(s)
  <2>1. e[i - 1] \in 0 .. Len(s) /\ e[i] \in 0 .. Len(s) /\ e[i - 1] < e[i]
    BY <1>1 DEF Cut
  <2>2. Len(s) \in Nat
    BY LenProperties
  <2> QED BY <2>1, <2>2
<1>3. \A k \in a + 1 .. b : s[k] \in T
  <2>1. \A k \in a + 1 .. b : k \in 1 .. Len(s)
    <3>1. Len(s) \in Nat
      BY LenProperties
    <3> QED BY <1>2, <3>1
  <2> QED BY <2>1, ElementOfSeq
<1>4. /\ SubSeq(s, a + 1, b) \in Seq(T) /\ Len(SubSeq(s, a + 1, b)) = (IF a + 1 <= b THEN b - (a + 1) + 1 ELSE 0)
      /\ \A k \in 1 .. b - (a + 1) + 1 : SubSeq(s, a + 1, b)[k] = s[(a + 1) + k - 1]
  <2>1. a + 1 \in Int /\ b \in Int
    OBVIOUS
  <2> QED BY <1>3, <2>1, SubSeqProperties
<1>5. CutPiece(s, e, i) = SubSeq(s, a + 1, b)
  BY <1>2 DEF CutPiece
<1>6. Len(SubSeq(s, a + 1, b)) = b - a
  BY <1>2, <1>4
<1>7. ASSUME NEW k \in 1 .. b - a PROVE SubSeq(s, a + 1, b)[k] = s[a + k]
  <2>1. k \in 1 .. b - (a + 1) + 1 /\ (a + 1) + k - 1 = a + k
    OBVIOUS
  <2> QED BY <1>4, <2>1
<1>8. PieceOf(T, SubSeq(s, a + 1, b), s, a, b)
  BY <1>2, <1>4, <1>6, <1>7 DEF PieceOf
<1> QED BY <1>2, <1>5, <1>8

-----------------------------------------------------------------------------
(* What a text is read as. *)
Labels(t) == {i \in DOMAIN t : t[i].label # NoLabel}
FirstLabel(t) == IF Labels(t) = {} THEN Len(t) + 1 ELSE CHOOSE i \in Labels(t) : \A j \in Labels(t) : i <= j
TotalOf(t) == IF Labels(t) = {} THEN 0 ELSE t[FirstLabel(t)].label[2]
LastOf(t, k) ==
  CHOOSE i \in Labels(t) : t[i].label[1] = k /\ \A j \in Labels(t) : t[j].label[1] = k => j <= i
UpTo(t, i) ==
  IF \E j \in Labels(t) : j > i THEN (CHOOSE j \in Labels(t) : j > i /\ \A l \in Labels(t) : l > i => j <= l) - 1
  ELSE Len(t)
Disagree(t) == \E i \in Labels(t) : t[i].label[2] # TotalOf(t)
Repeat(t) == \E i, j \in Labels(t) : i # j /\ t[i].label[1] = t[j].label[1]

LEMMA ReadIs ==
  ASSUME NEW t
  PROVE  /\ ReadParts(t).total = TotalOf(t)
         /\ ReadParts(t).parts =
              [k \in {t[i].label[1] : i \in Labels(t)} |-> Join(SubSeq(t, LastOf(t, k), UpTo(t, LastOf(t, k))))]
         /\ ReadParts(t).unlabelled = Join(SubSeq(t, 1, FirstLabel(t) - 1))
         /\ ReadParts(t).disagreed = Disagree(t) /\ ReadParts(t).duplicated = Repeat(t)
<1>1. ReadParts(t) =
        [total      |-> TotalOf(t),
         parts      |-> [k \in {t[i].label[1] : i \in Labels(t)} |->
                           Join(SubSeq(t, LastOf(t, k), UpTo(t, LastOf(t, k))))],
         unlabelled |-> Join(SubSeq(t, 1, FirstLabel(t) - 1)),
         disagreed  |-> Disagree(t),
         duplicated |-> Repeat(t)]
  BY Zenon DEF ReadParts, Labels, FirstLabel, TotalOf, LastOf, UpTo, Disagree, Repeat
<1> QED BY <1>1

(* A text is a sequence, of whatever it holds. *)
Text(t) == \E n \in Nat : t = [i \in 1 .. n |-> t[i]]
LinesOf(t) == {t[i] : i \in DOMAIN t}

LEMMA TextIs ==
  ASSUME NEW t, Text(t)
  PROVE  t \in Seq(LinesOf(t)) /\ Len(t) \in Nat /\ DOMAIN t = 1 .. Len(t)
<1>1. PICK n \in Nat : t = [i \in 1 .. n |-> t[i]]
  BY DEF Text
<1>2. DOMAIN t = 1 .. n
  BY <1>1
<1>3. t \in [1 .. n -> LinesOf(t)]
  BY <1>1, <1>2 DEF LinesOf
<1> HIDE DEF LinesOf
<1> QED BY <1>1, <1>2, <1>3

LEMMA JoinOne ==
  ASSUME NEW t, t = [i \in 1 .. 1 |-> t[i]]
  PROVE  Join(t) = t[1].payload
<1>1. PICK d : d = [i \in 1 .. 1 |-> t[i].payload]
  OBVIOUS
<1>2. d = [i \in 1 .. 1 |-> d[i]] /\ d[1] = t[1].payload
  BY <1>1
<1>3. PICK all : /\ all = [i \in 1 .. 1 |-> IF i = 1 THEN d[i] ELSE all[i - 1] \o d[i]]
                 /\ FlattenSeq(d) = all[1]
  <2>1. 1 \in Nat /\ 1 >= 1
    OBVIOUS
  <2>2. d = [i \in 1 .. 1 |-> d[i]]
    BY <1>2
  <2> QED BY <2>1, <2>2, Flattened, Zenon
<1>4. all[1] = d[1]
  BY <1>3
<1>5. Join(t) = FlattenSeq(d)
  <2>1. DOMAIN t = 1 .. 1
    OBVIOUS
  <2> QED BY <1>1, <2>1 DEF Join
<1> QED BY <1>2, <1>3, <1>4, <1>5

LEMMA JoinNone == Join(<< >>) = Empty
<1>1. [i \in DOMAIN << >> |-> << >>[i].payload] = << >>
  OBVIOUS
<1> QED BY <1>1 DEF Join, Empty, FlattenSeq

(* Without labels a text is what it joins to. *)
LEMMA ReadPlain ==
  ASSUME NEW t, Text(t), Labels(t) = {}
  PROVE  /\ ReadParts(t).total = 0 /\ ReadParts(t).unlabelled = Join(t)
         /\ Reassemble(t) = Join(t) /\ ~Usable(ReadParts(t))
<1>1. TotalOf(t) = 0 /\ FirstLabel(t) = Len(t) + 1
  BY DEF TotalOf, FirstLabel
<1>2. SubSeq(t, 1, FirstLabel(t) - 1) = t
  <2>1. (Len(t) + 1) - 1 = Len(t)
    BY TextIs
  <2>2. SubSeq(t, 1, Len(t)) = t
    BY TextIs, SubSeqFull
  <2> QED BY <1>1, <2>1, <2>2
<1>3. ReadParts(t).total = 0 /\ ReadParts(t).unlabelled = Join(t)
  BY <1>1, <1>2, ReadIs
<1>4. Reassemble(t) = Join(t)
  BY <1>3 DEF Reassemble
<1>5. ~Usable(ReadParts(t))
  BY <1>3 DEF Usable
<1> QED BY <1>3, <1>4, <1>5

(* Parts under their numbers, in order. *)
Ordered(s, D) ==
  \E m \in Nat : /\ s \in [1 .. m -> D] /\ \A d \in D : \E k \in 1 .. m : s[k] = d
                 /\ \A i, j \in 1 .. m : i < j => s[i] < s[j]
Numbering(s, n, p) == [k \in DOMAIN s |-> Line(<<s[k], n>>, p[s[k]])]
ReadAs(t, n, D, p) ==
  /\ ReadParts(t).total = n /\ ReadParts(t).unlabelled = Empty
  /\ ~ReadParts(t).disagreed /\ ~ReadParts(t).duplicated
  /\ DOMAIN ReadParts(t).parts = D /\ \A d \in D : ReadParts(t).parts[d] = p[d]

LEMMA ReadNumbered ==
  ASSUME NEW n \in Nat \ {0}, NEW D \in SUBSET Nat, D # {}, NEW s, Ordered(s, D), NEW p,
         NEW t, t = Numbering(s, n, p)
  PROVE  ReadAs(t, n, D, p) /\ Text(t)
<1>1. PICK m \in Nat : /\ s \in [1 .. m -> D] /\ \A d \in D : \E k \in 1 .. m : s[k] = d
                       /\ \A i, j \in 1 .. m : i < j => s[i] < s[j]
  BY DEF Ordered
<1>2. m >= 1
  <2>1. \E k \in 1 .. m : TRUE
    BY <1>1
  <2> QED BY <2>1
<1>3. t = [k \in 1 .. m |-> t[k]] /\ DOMAIN t = 1 .. m
      /\ \A k \in 1 .. m : t[k] = Line(<<s[k], n>>, p[s[k]])
  BY <1>1 DEF Numbering
<1>4. Text(t) /\ Len(t) = m
  BY <1>3 DEF Text
<1>5. \A k \in 1 .. m : /\ t[k].label = <<s[k], n>> /\ t[k].payload = p[s[k]] /\ s[k] \in Nat
                        /\ t[k].label[1] = s[k] /\ t[k].label[2] = n
  <2> SUFFICES ASSUME NEW k \in 1 .. m
               PROVE  /\ t[k].label = <<s[k], n>> /\ t[k].payload = p[s[k]] /\ s[k] \in Nat
                      /\ t[k].label[1] = s[k] /\ t[k].label[2] = n
    OBVIOUS
  <2>1. s[k] \in Nat
    BY <1>1
  <2>2. t[k] = [label |-> <<s[k], n>>, payload |-> p[s[k]]]
    BY <1>3 DEF Line
  <2>3. t[k].label = <<s[k], n>> /\ t[k].payload = p[s[k]]
    BY <2>2
  <2> QED BY <2>1, <2>3
<1>6. Labels(t) = 1 .. m
  BY <1>3, <1>5 DEF Labels, NoLabel
<1>7. FirstLabel(t) = 1
  <2>1. 1 \in 1 .. m /\ \A j \in 1 .. m : 1 <= j
    BY <1>2
  <2>2. \A i \in 1 .. m : (\A j \in 1 .. m : i <= j) => i = 1
    BY <1>2
  <2>3. FirstLabel(t) = CHOOSE i \in 1 .. m : \A j \in 1 .. m : i <= j
    BY <1>2, <1>6, <2>1 DEF FirstLabel
  <2> QED BY <2>1, <2>2, <2>3
<1>8. TotalOf(t) = n
  BY <1>2, <1>5, <1>6, <1>7 DEF TotalOf
<1>9. \A i, j \in 1 .. m : s[i] = s[j] => i = j
  <2> SUFFICES ASSUME NEW i \in 1 .. m, NEW j \in 1 .. m, s[i] = s[j] PROVE i = j
    OBVIOUS
  <2>1. s[i] \in Nat /\ s[j] \in Nat
    BY <1>5
  <2>2. ~(i < j) /\ ~(j < i)
    BY <1>1, <2>1
  <2> QED BY <2>2
<1>10. ASSUME NEW k \in 1 .. m PROVE LastOf(t, s[k]) = k
  <2>1. LastOf(t, s[k]) = CHOOSE i \in 1 .. m : t[i].label[1] = s[k] /\ \A j \in 1 .. m : t[j].label[1] = s[k] => j <= i
    BY <1>6 DEF LastOf
  <2>2. \A j \in 1 .. m : t[j].label[1] = s[k] => j = k
    BY <1>5, <1>9
  <2>3. t[k].label[1] = s[k] /\ \A j \in 1 .. m : t[j].label[1] = s[k] => j <= k
    BY <1>5, <2>2
  <2> QED BY <2>1, <2>2, <2>3
<1>11. ASSUME NEW k \in 1 .. m PROVE UpTo(t, k) = k
  <2>1. CASE k = m
    <3>1. ~\E j \in 1 .. m : j > k
      BY <2>1
    <3> QED BY <1>4, <1>6, <2>1, <3>1 DEF UpTo
  <2>2. CASE k # m
    <3>1. k + 1 \in 1 .. m /\ k + 1 > k /\ \A l \in 1 .. m : l > k => k + 1 <= l
      BY <2>2
    <3>2. UpTo(t, k) = (CHOOSE j \in 1 .. m : j > k /\ \A l \in 1 .. m : l > k => j <= l) - 1
      BY <1>6, <3>1 DEF UpTo
    <3>3. \A j \in 1 .. m : j > k /\ (\A l \in 1 .. m : l > k => j <= l) => j = k + 1
      BY <3>1
    <3>4. (CHOOSE j \in 1 .. m : j > k /\ \A l \in 1 .. m : l > k => j <= l) = k + 1
      <4> DEFINE Next(j) == j > k /\ \A l \in 1 .. m : l > k => j <= l
      <4>1. k + 1 \in 1 .. m /\ Next(k + 1)
        BY <3>1
      <4>2. \A j \in 1 .. m : Next(j) => j = k + 1
        BY <3>3
      <4> HIDE DEF Next
      <4>3. (CHOOSE j \in 1 .. m : Next(j)) = k + 1
        BY <4>1, <4>2
      <4> QED BY <4>3 DEF Next
    <3>5. PICK c : c = CHOOSE j \in 1 .. m : j > k /\ \A l \in 1 .. m : l > k => j <= l
      OBVIOUS
    <3>6. c = k + 1 /\ UpTo(t, k) = c - 1
      BY <3>2, <3>4, <3>5, Zenon
    <3> QED BY <3>6
  <2> QED BY <2>1, <2>2
<1>12. ASSUME NEW k \in 1 .. m PROVE Join(SubSeq(t, k, k)) = p[s[k]]
  <2>1. \A i \in k .. k : t[i] \in LinesOf(t)
    BY <1>3 DEF LinesOf
  <2>2. /\ SubSeq(t, k, k) \in Seq(LinesOf(t)) /\ Len(SubSeq(t, k, k)) = 1
        /\ \A i \in 1 .. k - k + 1 : SubSeq(t, k, k)[i] = t[k + i - 1]
    <3> HIDE DEF LinesOf
    <3>1. k \in Int /\ k <= k /\ k - k + 1 = 1
      OBVIOUS
    <3> QED BY <2>1, <3>1, SubSeqProperties
  <2>3. SubSeq(t, k, k) = [i \in 1 .. 1 |-> SubSeq(t, k, k)[i]]
    <3> HIDE DEF LinesOf
    <3> QED BY <2>2
  <2>4. SubSeq(t, k, k)[1] = t[k]
    <3>1. 1 \in 1 .. k - k + 1 /\ k + 1 - 1 = k
      OBVIOUS
    <3> QED BY <2>2, <3>1
  <2>5. Join(SubSeq(t, k, k)) = SubSeq(t, k, k)[1].payload
    BY <2>3, JoinOne
  <2> QED BY <1>5, <2>4, <2>5
<1>13. {t[i].label[1] : i \in Labels(t)} = D
  <2>1. \A i \in 1 .. m : t[i].label[1] \in D
    BY <1>1, <1>5
  <2>2. \A d \in D : \E i \in 1 .. m : t[i].label[1] = d
    BY <1>1, <1>5
  <2> QED BY <1>6, <2>1, <2>2
<1>14. ReadParts(t).parts = [d \in D |-> Join(SubSeq(t, LastOf(t, d), UpTo(t, LastOf(t, d))))]
  <2>1. ReadParts(t).parts =
          [k \in {t[i].label[1] : i \in Labels(t)} |-> Join(SubSeq(t, LastOf(t, k), UpTo(t, LastOf(t, k))))]
    BY ReadIs
  <2> QED BY <1>13, <2>1, Zenon
<1>15. ASSUME NEW d \in D PROVE ReadParts(t).parts[d] = p[d]
  <2>1. PICK k \in 1 .. m : s[k] = d
    BY <1>1
  <2>2. ReadParts(t).parts[d] = Join(SubSeq(t, LastOf(t, d), UpTo(t, LastOf(t, d))))
    BY <1>14
  <2>3. LastOf(t, d) = k /\ UpTo(t, k) = k
    BY <1>10, <1>11, <2>1
  <2> QED BY <1>12, <2>1, <2>2, <2>3
<1>16. ReadParts(t).unlabelled = Empty
  <2>1. SubSeq(t, 1, FirstLabel(t) - 1) = << >>
    <3>1. FirstLabel(t) - 1 = 0 /\ 0 < 1 /\ 0 \in Int /\ 1 \in Int
      BY <1>7
    <3> QED BY <3>1, SubSeqEmpty
  <2>2. ReadParts(t).unlabelled = Join(<< >>)
    BY <2>1, ReadIs
  <2> QED BY <2>2, JoinNone
<1>17. ~ReadParts(t).disagreed
  <2>1. ~Disagree(t)
    BY <1>5, <1>6, <1>8 DEF Disagree
  <2> QED BY <2>1, ReadIs, Zenon
<1>18. ~ReadParts(t).duplicated
  <2>1. ~Repeat(t)
    BY <1>5, <1>6, <1>9 DEF Repeat
  <2> QED BY <2>1, ReadIs, Zenon
<1>19. ReadParts(t).total = n
  BY <1>8, ReadIs
<1>20. DOMAIN ReadParts(t).parts = D
  BY <1>14
<1> QED BY <1>4, <1>15, <1>16, <1>17, <1>18, <1>19, <1>20 DEF ReadAs

(* Numbers can be put in order. *)
LEMMA OneMoreInOrder ==
  ASSUME NEW S \in SUBSET Nat, NEW k \in Nat, NEW s, Ordered(s, S \intersect 1 .. k)
  PROVE  \E z : Ordered(z, S \intersect 1 .. k + 1)
<1> DEFINE D == S \intersect 1 .. k
           E == S \intersect 1 .. k + 1
<1>1. CASE k + 1 \notin S
  <2>1. E = D
    BY <1>1
  <2> QED BY <2>1, Zenon
<1>2. CASE k + 1 \in S
  <2>1. /\ E = D \union {k + 1} /\ k + 1 \in E /\ D \subseteq E
        /\ \A d \in D : d \in Nat /\ d < k + 1
    BY <1>2
  <2>2. Ordered(s, D)
    OBVIOUS
  <2> HIDE DEF D, E
  <2>3. PICK m \in Nat : /\ s \in [1 .. m -> D] /\ \A d \in D : \E i \in 1 .. m : s[i] = d
                         /\ \A i, j \in 1 .. m : i < j => s[i] < s[j]
    BY <2>2 DEF Ordered
  <2>4. PICK z : z = [i \in 1 .. m + 1 |-> IF i = m + 1 THEN k + 1 ELSE s[i]]
    OBVIOUS
  <2>5. z[m + 1] = k + 1 /\ \A i \in 1 .. m : z[i] = s[i] /\ s[i] \in D
    BY <2>3, <2>4
  <2>6. z \in [1 .. m + 1 -> E]
    BY <2>1, <2>3, <2>4, <2>5
  <2>7. \A d \in E : \E i \in 1 .. m + 1 : z[i] = d
    BY <2>1, <2>3, <2>5
  <2>8. ASSUME NEW i \in 1 .. m + 1, NEW j \in 1 .. m + 1, i < j PROVE z[i] < z[j]
    <3>1. i \in 1 .. m
      BY <2>8
    <3>2. CASE j = m + 1
      BY <2>1, <2>5, <3>1, <3>2
    <3>3. CASE j # m + 1
      <4>1. j \in 1 .. m
        BY <3>3
      <4> QED BY <2>3, <2>5, <2>8, <3>1, <4>1
    <3> QED BY <3>2, <3>3
  <2>9. Ordered(z, E)
    BY <2>6, <2>7, <2>8 DEF Ordered
  <2> QED BY <2>9 DEF E
<1> QED BY <1>1, <1>2

LEMMA SomeOrder ==
  ASSUME NEW n \in Nat \ {0}, NEW S \in SUBSET (1 .. n)
  PROVE  \E s : Ordered(s, S)
<1> DEFINE K == {k \in 1 .. n : \E s : Ordered(s, S \intersect 1 .. k)}
<1>1. S \in SUBSET Nat
  OBVIOUS
<1>2. Ordered(<< >>, S \intersect 1 .. 0)
  <2>1. << >> \in [1 .. 0 -> S \intersect 1 .. 0] /\ S \intersect 1 .. 0 = {}
    OBVIOUS
  <2> QED BY <2>1 DEF Ordered
<1>3. 1 \in K
  <2>1. \E z : Ordered(z, S \intersect 1 .. 0 + 1)
    BY <1>1, <1>2, OneMoreInOrder
  <2> QED BY <2>1
<1>4. ASSUME NEW k \in 1 .. n - 1, k \in K PROVE k + 1 \in K
  <2>1. PICK s : Ordered(s, S \intersect 1 .. k)
    BY <1>4
  <2>2. k \in Nat
    OBVIOUS
  <2>3. \E z : Ordered(z, S \intersect 1 .. k + 1)
    <3> HIDE DEF K
    <3> QED BY <1>1, <2>1, <2>2, OneMoreInOrder
  <2> QED BY <2>2, <2>3
<1>5. n \in K
  <2> HIDE DEF K
  <2>1. \A k \in 1 .. n : k \in K
    BY <1>3, <1>4, StepByStep
  <2> QED BY <2>1
<1>6. S \intersect 1 .. n = S
  OBVIOUS
<1> QED BY <1>5, <1>6, Zenon

LEMMA InOrderIs ==
  ASSUME NEW n \in Nat \ {0}, NEW S \in SUBSET (1 .. n)
  PROVE  Ordered(InOrder(S), S)
<1>1. PICK s : Ordered(s, S)
  BY SomeOrder
<1>2. PICK m \in Nat : /\ s \in [1 .. m -> S] /\ \A d \in S : \E i \in 1 .. m : s[i] = d
                       /\ \A i, j \in 1 .. m : i < j => s[i] < s[j]
  BY <1>1 DEF Ordered
<1>3. ASSUME NEW f \in [1 .. m -> S], \A i, j \in 1 .. m : i < j => f[i] < f[j]
      PROVE  f \in Injection(1 .. m, S)
  <2>1. ASSUME NEW i \in 1 .. m, NEW j \in 1 .. m, f[i] = f[j] PROVE i = j
    <3>1. f[i] \in Nat /\ f[j] \in Nat
      <4>1. f[i] \in S /\ f[j] \in S
        BY <1>3
      <4>2. S \subseteq Nat
        OBVIOUS
      <4> QED BY <4>1, <4>2
    <3>2. ~(i < j) /\ ~(j < i)
      BY <1>3, <2>1, <3>1
    <3> QED BY <3>2
  <2> QED BY <2>1 DEF Injection, IsInjective
<1>4. Cardinality(S) = m /\ IsFiniteSet(S)
  <2>1. s \in Injection(1 .. m, S)
    BY <1>2, <1>3
  <2>2. s \in Surjection(1 .. m, S)
    BY <1>2 DEF Surjection
  <2>3. IsFiniteSet(1 .. m) /\ Cardinality(1 .. m) = m
    BY FS_Interval
  <2> QED BY <2>1, <2>2, <2>3, FS_Surjection
<1>5. InOrder(S) = CHOOSE f \in [1 .. m -> S] : \A i, j \in DOMAIN f : i < j => f[i] < f[j]
  BY <1>4 DEF InOrder
<1>6. PICK f : f = InOrder(S)
  OBVIOUS
<1>7. f \in [1 .. m -> S] /\ \A i, j \in 1 .. m : i < j => f[i] < f[j]
  <2> DEFINE Up(g) == \A i, j \in DOMAIN g : i < j => g[i] < g[j]
  <2>1. s \in [1 .. m -> S] /\ Up(s)
    BY <1>2
  <2>2. f = CHOOSE g \in [1 .. m -> S] : Up(g)
    BY <1>5, <1>6, Zenon
  <2>3. f \in [1 .. m -> S] /\ Up(f)
    <3> HIDE DEF Up
    <3> QED BY <2>1, <2>2
  <2> QED BY <2>3
<1>8. f \in Surjection(1 .. m, S)
  <2>1. IsFiniteSet(1 .. m) /\ Cardinality(1 .. m) = m
    BY FS_Interval
  <2>2. f \in Injection(1 .. m, S)
    BY <1>3, <1>7
  <2> QED BY <1>4, <2>1, <2>2, FS_Injection
<1>9. Ordered(f, S)
  BY <1>7, <1>8 DEF Ordered, Surjection
<1> QED BY <1>6, <1>9

-----------------------------------------------------------------------------
(* What may be in the box. *)
UnitsBut(r) == Units \ ({r} \X Nat)
Loose(l) == \A r \in Replies : Numbered(r) => l.payload \in Seq(UnitsBut(r))
LabelsOK(t) == \A i \in Labels(t) : t[i].label[1] \in 1 .. Top /\ t[i].label[2] \in Nat \ {0}
AllLoose(t) == \A i \in DOMAIN t : t[i].label = NoLabel => Loose(t[i])
HoldsOnly(t, r) == t = <<Line(NoLabel, Encoded[r])>>
Pasted(t) == Text(t) /\ LabelsOK(t) /\ AllLoose(t)
BoxOK(t) == Text(t) /\ LabelsOK(t) /\ (AllLoose(t) \/ \E r \in Asked : HoldsOnly(t, r))

LEMMA EncodedBut ==
  ASSUME NEW r \in Replies, NEW q \in Replies, r # q
  PROVE  Encoded[q] \in Seq(UnitsBut(r))
<1>1. /\ Encoded[q] \in Seq(Units) /\ Len(Encoded[q]) = Size(q) + 1 /\ Size(q) \in Nat \ {0}
      /\ Encoded[q][1] = Header(q) /\ \A k \in 2 .. Size(q) + 1 : Encoded[q][k] = <<q, k - 1>>
  BY ReplyIs
<1>2. ASSUME NEW k \in 1 .. Len(Encoded[q]) PROVE Encoded[q][k] \in UnitsBut(r)
  <2>1. Encoded[q][k] \in Units
    BY <1>1, ElementOfSeq
  <2>2. CASE k = 1
    <3>1. \A j \in Nat : Header(q) # <<r, j>>
      BY UnitsApart
    <3>2. Header(q) \notin {r} \X Nat
      <4> HIDE DEF Header
      <4> QED BY <3>1
    <3> QED BY <1>1, <2>1, <2>2, <3>2 DEF UnitsBut
  <2>3. CASE k # 1
    <3>1. k \in 2 .. Size(q) + 1
      BY <1>1, <2>3
    <3>2. Encoded[q][k] = <<q, k - 1>>
      BY <1>1, <3>1
    <3>3. <<q, k - 1>> \notin {r} \X Nat
      OBVIOUS
    <3> QED BY <2>1, <3>2, <3>3 DEF UnitsBut
  <2> QED BY <2>2, <2>3
<1>3. PICK s : s = Encoded[q]
  OBVIOUS
<1>4. s \in Seq(Units) /\ \A k \in 1 .. Len(s) : s[k] \in UnitsBut(r)
  BY <1>1, <1>2, <1>3
<1>5. s \in Seq(UnitsBut(r))
  <2>1. PICK T : T = UnitsBut(r)
    OBVIOUS
  <2>2. Len(s) \in Nat /\ s \in [1 .. Len(s) -> Units]
    BY <1>4, LenProperties
  <2>3. s \in [1 .. Len(s) -> T]
    BY <1>4, <2>1, <2>2
  <2>4. s \in Seq(T)
    BY <2>2, <2>3
  <2> QED BY <2>1, <2>4
<1> QED BY <1>3, <1>5

(* One message, pasted. *)
LEMMA MessageIs ==
  ASSUME NEW r \in Replies, NEW i \in DOMAIN Messages[r], NEW l, l = Messages[r][i]
  PROVE  IF Numbered(r) THEN l.label[1] \in 1 .. Top /\ l.label[2] \in Nat \ {0} /\ l.label # NoLabel
         ELSE l.label = NoLabel /\ Loose(l)
<1>1. CASE Numbered(r)
  <2>1. PICK n, e : n \in Nat /\ InParts(r, n, e)
    BY <1>1, PartsOf
  <2>2. i \in 1 .. n /\ l = Line(<<i, n>>, <<Header(r)>> \o CutPiece(BodyUnits(r), e, i)) /\ n \in 2 .. Top
    BY <2>1 DEF InParts
  <2>3. l.label = <<i, n>>
    BY <2>2 DEF Line
  <2>4. Top \in Nat
    BY PartsAssumption DEF Top
  <2>5. i \in 1 .. Top /\ n \in Nat \ {0} /\ <<i, n>> # <<0, 0>>
    BY <2>2, <2>4
  <2>6. l.label[1] = i /\ l.label[2] = n /\ l.label # NoLabel
    BY <2>3, <2>5 DEF NoLabel
  <2> QED BY <1>1, <2>5, <2>6
<1>2. CASE ~Numbered(r)
  <2>1. PICK n, e : n \in Nat /\ InPieces(r, n, e)
    BY <1>2, PiecesOf
  <2>2. i \in 1 .. n /\ l = Line(NoLabel, CutPiece(Encoded[r], e, i)) /\ Cut(Encoded[r], e, n)
    BY <2>1 DEF InPieces
  <2>3. l.label = NoLabel /\ l.payload = CutPiece(Encoded[r], e, i)
    BY <2>2 DEF Line
  <2>4. ASSUME NEW q \in Replies, Numbered(q) PROVE l.payload \in Seq(UnitsBut(q))
    <3>1. q # r
      BY <1>2, <2>4
    <3>2. Encoded[r] \in Seq(UnitsBut(q))
      BY <3>1, EncodedBut
    <3>3. PICK s, T : s = Encoded[r] /\ T = UnitsBut(q)
      OBVIOUS
    <3>4. CutPiece(s, e, i) \in Seq(T)
      <4>1. PieceOf(T, CutPiece(s, e, i), s, e[i - 1], e[i])
        BY <2>1, <2>2, <3>2, <3>3, PieceIs
      <4> QED BY <4>1 DEF PieceOf
    <3> QED BY <2>3, <3>3, <3>4
  <2> QED BY <1>2, <2>3, <2>4 DEF Loose
<1> QED BY <1>1, <1>2

LEMMA OnePasted ==
  ASSUME NEW r \in Replies, NEW i \in DOMAIN Messages[r], NEW t, t = <<Messages[r][i]>>
  PROVE  Pasted(t) /\ (~Numbered(r) => Labels(t) = {})
<1>1. PICK l : l = Messages[r][i]
  OBVIOUS
<1>2. t = <<l>> /\ DOMAIN t = 1 .. 1 /\ t[1] = l /\ t = [k \in 1 .. 1 |-> t[k]]
  BY <1>1
<1>3. IF Numbered(r) THEN l.label[1] \in 1 .. Top /\ l.label[2] \in Nat \ {0} /\ l.label # NoLabel
      ELSE l.label = NoLabel /\ Loose(l)
  BY <1>1, MessageIs
<1>4. \A k \in DOMAIN t : t[k] = l
  BY <1>2
<1>5. Text(t)
  BY <1>2 DEF Text
<1> HIDE DEF Loose, Numbered, NoLabel, Top
<1>6. LabelsOK(t) /\ AllLoose(t) /\ (~Numbered(r) => Labels(t) = {})
  BY <1>3, <1>4 DEF LabelsOK, AllLoose, Labels
<1> QED BY <1>5, <1>6 DEF Pasted

LEMMA TwoPasted ==
  ASSUME NEW r \in Replies, NEW i \in DOMAIN Messages[r], NEW q \in Replies, NEW j \in DOMAIN Messages[q],
         NEW t, t = <<Messages[r][i], Messages[q][j]>>
  PROVE  Pasted(t)
<1>1. PICK l, m : l = Messages[r][i] /\ m = Messages[q][j]
  OBVIOUS
<1>2. t = <<l, m>> /\ DOMAIN t = 1 .. 2 /\ t[1] = l /\ t[2] = m /\ t = [k \in 1 .. 2 |-> t[k]]
  BY <1>1
<1>3. IF Numbered(r) THEN l.label[1] \in 1 .. Top /\ l.label[2] \in Nat \ {0} /\ l.label # NoLabel
      ELSE l.label = NoLabel /\ Loose(l)
  BY <1>1, MessageIs
<1>4. IF Numbered(q) THEN m.label[1] \in 1 .. Top /\ m.label[2] \in Nat \ {0} /\ m.label # NoLabel
      ELSE m.label = NoLabel /\ Loose(m)
  BY <1>1, MessageIs
<1>5. \A k \in DOMAIN t : t[k] = l \/ t[k] = m
  BY <1>2
<1>6. Text(t)
  BY <1>2 DEF Text
<1> HIDE DEF Loose, Numbered, NoLabel, Top
<1>7. LabelsOK(t) /\ AllLoose(t)
  BY <1>3, <1>4, <1>5 DEF LabelsOK, AllLoose, Labels
<1> QED BY <1>6, <1>7 DEF Pasted

(* How many parts a text says there are, and which. *)
LEMMA TotalIs ==
  ASSUME NEW t, Text(t), LabelsOK(t)
  PROVE  /\ TotalOf(t) \in Nat /\ (TotalOf(t) = 0 <=> Labels(t) = {})
         /\ DOMAIN ReadParts(t).parts \subseteq 1 .. Top
         /\ Labels(t) # {} => DOMAIN ReadParts(t).parts # {}
<1>1. DOMAIN ReadParts(t).parts = {t[i].label[1] : i \in Labels(t)}
  <2>1. ReadParts(t).parts =
          [k \in {t[i].label[1] : i \in Labels(t)} |-> Join(SubSeq(t, LastOf(t, k), UpTo(t, LastOf(t, k))))]
    BY ReadIs
  <2> QED BY <2>1
<1>2. Labels(t) = {} => TotalOf(t) = 0
  BY DEF TotalOf
<1>3. ASSUME Labels(t) # {} PROVE TotalOf(t) \in Nat \ {0}
  <2>1. Labels(t) \in SUBSET Nat
    <3>1. \A i \in DOMAIN t : i \in Nat
      BY TextIs
    <3> QED BY <3>1 DEF Labels
  <2>2. PICK n \in Labels(t) : \A m \in Labels(t) : n <= m
    BY <1>3, <2>1, LeastNatural
  <2>3. FirstLabel(t) \in Labels(t)
    BY <1>3, <2>2 DEF FirstLabel
  <2> QED BY <1>3, <2>3 DEF TotalOf, LabelsOK
<1>4. \A i \in Labels(t) : t[i].label[1] \in 1 .. Top
  BY DEF LabelsOK
<1> QED BY <1>1, <1>2, <1>3, <1>4

LEMMA NumberingOK ==
  ASSUME NEW D \in SUBSET (1 .. Top), NEW s, Ordered(s, D), NEW n \in Nat \ {0}, NEW p, NEW t, t = Numbering(s, n, p)
  PROVE  Pasted(t)
<1>1. PICK m \in Nat : s \in [1 .. m -> D]
  BY DEF Ordered
<1>2. t = [k \in 1 .. m |-> t[k]] /\ DOMAIN t = 1 .. m /\ \A k \in 1 .. m : t[k] = Line(<<s[k], n>>, p[s[k]])
  BY <1>1 DEF Numbering
<1>3. ASSUME NEW k \in 1 .. m
      PROVE  t[k].label # NoLabel /\ t[k].label[1] \in 1 .. Top /\ t[k].label[2] \in Nat \ {0}
  <2>1. s[k] \in 1 .. Top
    BY <1>1
  <2>2. t[k].label = <<s[k], n>>
    <3>1. t[k] = [label |-> <<s[k], n>>, payload |-> p[s[k]]]
      BY <1>2 DEF Line
    <3> QED BY <3>1
  <2>3. <<s[k], n>> # <<0, 0>>
    OBVIOUS
  <2> QED BY <2>1, <2>2, <2>3 DEF NoLabel
<1>4. Text(t)
  BY <1>2 DEF Text
<1> HIDE DEF NoLabel, Loose, Top
<1>5. LabelsOK(t) /\ AllLoose(t)
  BY <1>2, <1>3 DEF LabelsOK, AllLoose, Labels
<1> QED BY <1>4, <1>5 DEF Pasted

(* What is merged of two texts. *)
Combined(t, u, v, D, s, p) ==
  /\ D = DOMAIN ReadParts(t).parts \union DOMAIN ReadParts(u).parts /\ D \subseteq 1 .. Top /\ D # {}
  /\ Ordered(s, D) /\ v = Numbering(s, ReadParts(u).total, p) /\ ReadParts(u).total \in Nat \ {0}
  /\ \A d \in D : p[d] = IF d \in DOMAIN ReadParts(u).parts THEN ReadParts(u).parts[d] ELSE ReadParts(t).parts[d]

LEMMA CombinedIs ==
  ASSUME NEW t, Text(t), LabelsOK(t), NEW u, Text(u), LabelsOK(u), Usable(ReadParts(u)),
         NEW v, v = Combine(ReadParts(t), ReadParts(u))
  PROVE  \E D, s, p : Combined(t, u, v, D, s, p)
<1>1. PICK A, B : A = DOMAIN ReadParts(t).parts /\ B = DOMAIN ReadParts(u).parts
  OBVIOUS
<1>2. PICK n : n = ReadParts(u).total
  OBVIOUS
<1>3. n \in Nat \ {0} /\ Labels(u) # {}
  <2>1. n = TotalOf(u)
    BY <1>2, ReadIs
  <2>2. n \in Nat
    BY <2>1, TotalIs
  <2>3. n > 0
    BY <1>2 DEF Usable
  <2>4. TotalOf(u) # 0
    BY <2>1, <2>2, <2>3
  <2>5. Labels(u) # {}
    BY <2>4, TotalIs
  <2> QED BY <2>2, <2>3, <2>5
<1>4. A \subseteq 1 .. Top /\ B \subseteq 1 .. Top /\ B # {}
  BY <1>1, <1>3, TotalIs
<1>5. PICK D : D = A \union B
  OBVIOUS
<1>6. D \in SUBSET (1 .. Top) /\ D # {} /\ Top \in Nat \ {0}
  BY <1>4, <1>5, PartsAssumption DEF Top
<1>7. PICK s : s = InOrder(D)
  OBVIOUS
<1>8. Ordered(s, D)
  BY <1>6, <1>7, InOrderIs
<1>9. PICK p : p = [d \in D |-> IF d \in B THEN ReadParts(u).parts[d] ELSE ReadParts(t).parts[d]]
  OBVIOUS
<1>10. PICK m \in Nat : s \in [1 .. m -> D]
  BY <1>8 DEF Ordered
<1>11. v = [k \in DOMAIN s |-> Line(<<s[k], n>>, IF s[k] \in B THEN ReadParts(u).parts[s[k]] ELSE ReadParts(t).parts[s[k]])]
  BY <1>1, <1>2, <1>5, <1>7, Zenon DEF Combine
<1>12. \A k \in DOMAIN s : p[s[k]] = IF s[k] \in B THEN ReadParts(u).parts[s[k]] ELSE ReadParts(t).parts[s[k]]
  BY <1>9, <1>10
<1>13. v = Numbering(s, n, p)
  BY <1>11, <1>12, Zenon DEF Numbering
<1>14. Combined(t, u, v, D, s, p)
  BY <1>1, <1>2, <1>3, <1>5, <1>6, <1>8, <1>9, <1>13 DEF Combined
<1> QED BY <1>14

(* The ways a paste may end. *)
LEMMA MergeGives ==
  ASSUME NEW t, NEW u, NEW v, v = MergeParts(t, u)
  PROVE  \/ v = t
         \/ v = u
         \/ Usable(ReadParts(u)) /\ v = Combine(ReadParts(t), ReadParts(u))
         \/ ReadParts(t).total = 0 /\ ReadParts(u).total = 0 /\ CollectingChunks(t) /\ v = t \o u
<1>1. CASE ReadParts(u).total = 0 /\ ReadParts(t).total = 0 /\ v = MergeChunks(t, u)
  BY <1>1, Zenon DEF MergeChunks
<1>2. v = t \/ (ReadParts(u).total = 0 /\ ReadParts(t).total = 0 /\ v = MergeChunks(t, u))
      \/ (Usable(ReadParts(u)) /\ v = Combine(ReadParts(t), ReadParts(u))) \/ v = u
  BY Zenon DEF MergeParts
<1> QED BY <1>1, <1>2

LEMMA HoldsIs ==
  ASSUME NEW r \in Replies, NEW t, HoldsOnly(t, r)
  PROVE  /\ Text(t) /\ Labels(t) = {} /\ Join(t) = Encoded[r] /\ Reassemble(t) = Encoded[r]
         /\ ReadParts(t).total = 0 /\ ReadParts(t).unlabelled = Encoded[r]
<1>1. PICK l : l = Line(NoLabel, Encoded[r])
  OBVIOUS
<1>2. t = <<l>> /\ t = [k \in 1 .. 1 |-> t[k]] /\ DOMAIN t = 1 .. 1 /\ t[1] = l /\ 1 \in Nat
  BY <1>1 DEF HoldsOnly
<1>3. l.label = NoLabel /\ l.payload = Encoded[r]
  BY <1>1 DEF Line
<1>4. Text(t)
  BY <1>2 DEF Text
<1>5. Labels(t) = {}
  BY <1>2, <1>3 DEF Labels
<1>6. Join(t) = Encoded[r]
  BY <1>2, <1>3, JoinOne
<1> QED BY <1>4, <1>5, <1>6, ReadPlain

LEMMA BoxStays ==
  ASSUME NEW t, BoxOK(t), NEW u, Pasted(u), NEW v, v = MergeParts(t, u)
  PROVE  BoxOK(v)
<1>1. Text(t) /\ LabelsOK(t) /\ Text(u) /\ LabelsOK(u) /\ AllLoose(u)
  BY DEF BoxOK, Pasted
<1>2. CASE v = t
  BY <1>2
<1>3. CASE v = u
  BY <1>1, <1>3 DEF BoxOK
<1>4. CASE Usable(ReadParts(u)) /\ v = Combine(ReadParts(t), ReadParts(u))
  <2>1. PICK D, s, p : Combined(t, u, v, D, s, p)
    BY <1>1, <1>4, CombinedIs
  <2>2. PICK n \in Nat \ {0} : v = Numbering(s, n, p)
    BY <2>1 DEF Combined
  <2>3. D \in SUBSET (1 .. Top) /\ Ordered(s, D)
    BY <2>1 DEF Combined
  <2>4. Pasted(v)
    BY <2>2, <2>3, NumberingOK
  <2> QED BY <2>4 DEF Pasted, BoxOK
<1>5. CASE ReadParts(t).total = 0 /\ ReadParts(u).total = 0 /\ CollectingChunks(t) /\ v = t \o u
  <2>1. Labels(t) = {} /\ Labels(u) = {}
    <3>1. TotalOf(t) = 0 /\ TotalOf(u) = 0
      BY <1>5, ReadIs
    <3> QED BY <1>1, <3>1, TotalIs
  <2>2. AllLoose(t)
    <3>1. ASSUME NEW r \in Asked, HoldsOnly(t, r) PROVE FALSE
      <4>1. r \in Replies
        BY PartsAssumption
      <4>2. Reassemble(t) = Encoded[r]
        BY <3>1, <4>1, HoldsIs
      <4> QED BY <1>5, <4>2 DEF CollectingChunks, Decodes
    <3> QED BY <3>1 DEF BoxOK
  <2>3. PICK S : S = LinesOf(t) \union LinesOf(u)
    OBVIOUS
  <2>4. t \in Seq(S) /\ u \in Seq(S) /\ Len(t) \in Nat /\ Len(u) \in Nat /\ DOMAIN t = 1 .. Len(t) /\ DOMAIN u = 1 .. Len(u)
    <3>1. t \in Seq(LinesOf(t)) /\ u \in Seq(LinesOf(u))
      BY <1>1, TextIs
    <3>2. LinesOf(t) \subseteq S /\ LinesOf(u) \subseteq S
      BY <2>3
    <3>3. t \in Seq(S) /\ u \in Seq(S)
      BY <3>1, <3>2, SeqMonotonic
    <3> QED BY <1>1, <3>3, TextIs
  <2>5. /\ v \in Seq(S) /\ Len(v) = Len(t) + Len(u)
        /\ \A k \in 1 .. Len(t) + Len(u) : v[k] = IF k <= Len(t) THEN t[k] ELSE u[k - Len(t)]
    BY <1>5, <2>4, ConcatProperties
  <2>6. DOMAIN v = 1 .. Len(t) + Len(u) /\ v = [k \in 1 .. Len(t) + Len(u) |-> v[k]]
    BY <2>4, <2>5
  <2>7. Text(v)
    BY <2>4, <2>6 DEF Text
  <2>8. \A k \in DOMAIN v : (\E i \in DOMAIN t : v[k] = t[i]) \/ (\E i \in DOMAIN u : v[k] = u[i])
    <3> SUFFICES ASSUME NEW k \in 1 .. Len(t) + Len(u)
                 PROVE  (\E i \in DOMAIN t : v[k] = t[i]) \/ (\E i \in DOMAIN u : v[k] = u[i])
      BY <2>6
    <3>1. CASE k <= Len(t)
      <4>1. k \in DOMAIN t
        BY <2>4, <3>1
      <4> QED BY <2>5, <3>1, <4>1
    <3>2. CASE ~(k <= Len(t))
      <4>1. k - Len(t) \in DOMAIN u
        BY <2>4, <3>2
      <4> QED BY <2>5, <3>2, <4>1
    <3> QED BY <3>1, <3>2
  <2> HIDE DEF Loose, NoLabel, Top
  <2>9. \A k \in DOMAIN v : v[k].label = NoLabel
    BY <2>1, <2>8 DEF Labels
  <2>10. LabelsOK(v)
    BY <2>9 DEF LabelsOK, Labels
  <2>11. AllLoose(v)
    BY <1>1, <2>2, <2>1, <2>8 DEF AllLoose, Labels
  <2> QED BY <2>7, <2>10, <2>11 DEF BoxOK
<1> QED BY <1>2, <1>3, <1>4, <1>5, MergeGives

(* A box in which parts of r are found, though no line has a number, holds r. *)
LEMMA FoundInHeld ==
  ASSUME NEW t, BoxOK(t), Labels(t) = {}, NEW r \in Replies, Numbered(r),
         NEW b \in Seq(Units), Includes(AfterHeader(Join(t)), b), NEW m \in 1 .. Len(b), NEW k \in Nat, b[m] = <<r, k>>
  PROVE  HoldsOnly(t, r)
<1> SUFFICES ASSUME ~HoldsOnly(t, r) PROVE FALSE
  OBVIOUS
<1>1. Text(t) /\ \A i \in DOMAIN t : t[i].label = NoLabel
  BY DEF BoxOK, Labels
<1>2. \A i \in DOMAIN t : t[i].payload \in Seq(UnitsBut(r))
  <2>1. CASE AllLoose(t)
    BY <1>1, <2>1 DEF AllLoose, Loose
  <2>2. ASSUME NEW q \in Asked, HoldsOnly(t, q) PROVE \A i \in DOMAIN t : t[i].payload \in Seq(UnitsBut(r))
    <3>1. q # r /\ q \in Replies
      BY <2>2, PartsAssumption
    <3>2. Encoded[q] \in Seq(UnitsBut(r))
      BY <3>1, EncodedBut
    <3>3. \A i \in DOMAIN t : t[i].payload = Encoded[q]
      <4>1. PICK l : l = Line(NoLabel, Encoded[q])
        OBVIOUS
      <4>2. t = <<l>> /\ l.payload = Encoded[q]
        BY <2>2, <4>1 DEF HoldsOnly, Line
      <4> QED BY <4>2
    <3> QED BY <3>2, <3>3
  <2> QED BY <2>1, <2>2 DEF BoxOK
<1>3. PICK T : T = UnitsBut(r)
  OBVIOUS
<1>4. PICK s : s = Join(t)
  OBVIOUS
<1>5. s \in Seq(T)
  <2>1. PICK d : d = [i \in DOMAIN t |-> t[i].payload]
    OBVIOUS
  <2>2. PICK n \in Nat : DOMAIN t = 1 .. n
    BY <1>1, TextIs
  <2>3. d = [i \in 1 .. n |-> d[i]] /\ \A i \in 1 .. n : d[i] \in Seq(T)
    BY <1>2, <1>3, <2>1, <2>2
  <2>4. FlattenSeq(d) \in Seq(T)
    BY <2>3, FlatIsOf
  <2> QED BY <1>4, <2>1, <2>4 DEF Join
<1>6. AfterHeader(s) \in Seq(T)
  <2>1. Len(s) \in Nat
    BY <1>5, LenProperties
  <2>2. \A i \in 2 .. Len(s) : s[i] \in T
    BY <1>5, <2>1, ElementOfSeq
  <2>3. SubSeq(s, 2, Len(s)) \in Seq(T)
    BY <2>1, <2>2, SubSeqProperties
  <2> QED BY <2>3 DEF AfterHeader, HeaderUnits
<1>7. PICK a : a = AfterHeader(s)
  OBVIOUS
<1>8. a \in Seq(Units) /\ a \in Seq(T) /\ Includes(a, b)
  <2>1. T \subseteq Units
    BY <1>3 DEF UnitsBut
  <2>2. a \in Seq(T)
    BY <1>6, <1>7
  <2>3. a \in Seq(Units)
    BY <2>1, <2>2, SeqMonotonic
  <2> QED BY <1>4, <1>7, <2>2, <2>3
<1>9. PICK j \in 1 .. Len(a) : a[j] = b[m]
  BY <1>8, IncludedAt
<1>10. a[j] \in T
  BY <1>8, ElementOfSeq
<1> QED BY <1>3, <1>9, <1>10 DEF UnitsBut

-----------------------------------------------------------------------------
(* Numbered parts. *)
Parted(r, i, l) ==
  /\ l = Line(<<i, Len(Messages[r])>>, l.payload) /\ i \in 1 .. Len(Messages[r]) /\ Len(Messages[r]) \in 2 .. Top
  /\ HeaderOf(l.payload) = <<Header(r)>> /\ AfterHeader(l.payload) \in Seq(Units)
  /\ Len(AfterHeader(l.payload)) >= 1 /\ \E k \in Nat : AfterHeader(l.payload)[1] = <<r, k>>
  /\ Includes(BodyUnits(r), AfterHeader(l.payload))

LEMMA CutIncluded ==
  ASSUME NEW T, NEW s \in Seq(T), NEW n \in Nat, NEW e, Cut(s, e, n), NEW i \in 1 .. n
  PROVE  Includes(s, CutPiece(s, e, i))
<1>1. PICK c : c = CutPiece(s, e, i)
  OBVIOUS
<1>2. PICK a \in Nat, b \in Nat : a = e[i - 1] /\ b = e[i] /\ a < b /\ b <= Len(s) /\ Len(c) = b - a
  <2>1. PieceOf(T, CutPiece(s, e, i), s, e[i - 1], e[i])
    BY PieceIs
  <2> QED BY <1>1, <2>1 DEF PieceOf
<1>3. Len(s) \in Nat
  BY LenProperties
<1>4. a + Len(c) = b /\ a \in 0 .. Len(s) - Len(c)
  BY <1>2, <1>3
<1>5. SubSeq(s, a + 1, a + Len(c)) = c
  BY <1>1, <1>2, <1>4 DEF CutPiece
<1>6. Includes(s, c)
  BY <1>4, <1>5 DEF Includes
<1> QED BY <1>1, <1>6

LEMMA PartIs ==
  ASSUME NEW r \in Replies, Numbered(r), NEW i \in DOMAIN Messages[r]
  PROVE  Parted(r, i, Messages[r][i])
<1>1. PICK n, e : n \in Nat /\ InParts(r, n, e)
  BY PartsOf
<1>2. PICK s : s = BodyUnits(r)
  OBVIOUS
<1>3. s \in Seq(Units) /\ Len(s) = Size(r) /\ \A k \in 1 .. Size(r) : s[k] = <<r, k>>
  BY <1>2, ReplyIs
<1>4. PICK c : c = CutPiece(s, e, i)
  OBVIOUS
<1>5. PICK l : l = Messages[r][i]
  OBVIOUS
<1>6. /\ n \in 2 .. Top /\ Cut(s, e, n) /\ Messages[r] = [j \in 1 .. n |-> Line(<<j, n>>, <<Header(r)>> \o CutPiece(s, e, j))]
  BY <1>1, <1>2 DEF InParts
<1>7. Len(Messages[r]) = n /\ i \in 1 .. n /\ l = Line(<<i, n>>, <<Header(r)>> \o c)
  BY <1>4, <1>5, <1>6
<1>8. l.payload = <<Header(r)>> \o c
  BY <1>7 DEF Line
<1>9. PieceOf(Units, c, s, e[i - 1], e[i])
  <2>1. n \in Nat /\ Cut(s, e, n) /\ i \in 1 .. n
    BY <1>6, <1>7, PartsAssumption DEF Top
  <2>2. PieceOf(Units, CutPiece(s, e, i), s, e[i - 1], e[i])
    BY <1>3, <2>1, PieceIs
  <2> QED BY <1>4, <2>2
<1>10. Includes(s, c)
  <2>1. n \in Nat /\ Cut(s, e, n) /\ i \in 1 .. n
    BY <1>6, <1>7, PartsAssumption DEF Top
  <2>2. Includes(s, CutPiece(s, e, i))
    BY <1>3, <2>1, CutIncluded
  <2> QED BY <1>4, <2>2
<1>11. Header(r) \in Units
  BY DEF Units
<1>12. HeaderOf(l.payload) = <<Header(r)>> /\ AfterHeader(l.payload) = c
  <2>1. c \in Seq(Units)
    BY <1>9 DEF PieceOf
  <2> HIDE DEF Header, Units
  <2> QED BY <1>8, <1>11, <2>1, HeaderAndRest
<1>13. Len(c) >= 1 /\ \E k \in Nat : c[1] = <<r, k>>
  <2>1. PICK a, b : PieceOf(Units, c, s, a, b)
    BY <1>9
  <2>2. a \in Nat /\ b \in Nat /\ a < b /\ b <= Len(s) /\ Len(c) = b - a /\ \A k \in 1 .. b - a : c[k] = s[a + k]
    BY <2>1 DEF PieceOf
  <2>3. Len(s) \in Nat
    BY <1>3, LenProperties
  <2>4. 1 \in 1 .. b - a /\ a + 1 \in 1 .. Size(r) /\ a + 1 \in Nat
    BY <1>3, <2>2, <2>3
  <2>5. c[1] = s[a + 1]
    BY <2>2, <2>4
  <2>6. s[a + 1] = <<r, a + 1>>
    BY <1>3, <2>4
  <2> QED BY <2>2, <2>4, <2>5, <2>6
<1> HIDE DEF Header, Units, Line
<1>14. Parted(r, i, l)
  <2>1. c \in Seq(Units)
    BY <1>9 DEF PieceOf
  <2> QED BY <1>2, <1>6, <1>7, <1>8, <2>1, <1>10, <1>12, <1>13 DEF Parted
<1> QED BY <1>5, <1>14

LEMMA ReadPart ==
  ASSUME NEW r \in Replies, Numbered(r), NEW i \in DOMAIN Messages[r], NEW t, t = <<Messages[r][i]>>
  PROVE  \E p : /\ ReadAs(t, Len(Messages[r]), {i}, p) /\ t = Numbering(<<i>>, Len(Messages[r]), p)
                /\ Ordered(<<i>>, {i}) /\ p[i] = Messages[r][i].payload
<1>1. PICK l, n : l = Messages[r][i] /\ n = Len(Messages[r])
  OBVIOUS
<1>2. l = Line(<<i, n>>, l.payload) /\ i \in 1 .. n /\ n \in 2 .. Top
  BY <1>1, PartIs DEF Parted
<1>3. n \in Nat \ {0} /\ i \in Nat
  BY <1>2, PartsAssumption DEF Top
<1>4. PICK p : p = [j \in {i} |-> l.payload]
  OBVIOUS
<1>5. p[i] = l.payload
  BY <1>4
<1>6. PICK s : s = <<i>>
  OBVIOUS
<1>7. s \in [1 .. 1 -> {i}] /\ s[1] = i /\ DOMAIN s = 1 .. 1
  BY <1>6
<1>8. Ordered(s, {i})
  <2>1. \A d \in {i} : \E k \in 1 .. 1 : s[k] = d
    BY <1>7
  <2>2. \A j, k \in 1 .. 1 : j < k => s[j] < s[k]
    OBVIOUS
  <2> QED BY <1>7, <2>1, <2>2 DEF Ordered
<1>9. t = Numbering(s, n, p)
  <2>1. Numbering(s, n, p) = [k \in 1 .. 1 |-> Line(<<s[k], n>>, p[s[k]])]
    BY <1>7 DEF Numbering
  <2>2. \A k \in 1 .. 1 : Line(<<s[k], n>>, p[s[k]]) = l
    <3>1. Line(<<s[1], n>>, p[s[1]]) = l
      BY <1>2, <1>5, <1>7
    <3> QED BY <3>1
  <2>3. t = [k \in 1 .. 1 |-> l]
    BY <1>1
  <2> QED BY <2>1, <2>2, <2>3, Zenon
<1>10. {i} \in SUBSET Nat /\ {i} # {}
  BY <1>3
<1>11. ReadAs(t, n, {i}, p)
  BY <1>3, <1>8, <1>9, <1>10, ReadNumbered
<1> QED BY <1>1, <1>5, <1>6, <1>8, <1>9, <1>11

(* The parts got of r, among others that look like its own. *)
GotAmong(r, t, got, D, s, p) ==
  /\ D \in SUBSET (1 .. Top)
  /\ got # {} /\ got \subseteq D /\ Ordered(s, D) /\ t = Numbering(s, Len(Messages[r]), p)
  /\ \A i \in got : p[i] = Messages[r][i].payload
  /\ \A i \in D : (\A j \in D : i <= j) => HeaderOf(p[i]) = <<Header(r)>>
PartsIn(r, t, got) == \E D, s, p : GotAmong(r, t, got, D, s, p)

LEMMA FirstPartIs ==
  ASSUME NEW R, DOMAIN R.parts \subseteq 1 .. Top, DOMAIN R.parts # {}
  PROVE  \E f \in DOMAIN R.parts : (\A j \in DOMAIN R.parts : f <= j) /\ FirstPart(R) = R.parts[f]
<1>1. PICK D : D = DOMAIN R.parts
  OBVIOUS
<1>2. D \in SUBSET Nat /\ D # {}
  BY <1>1
<1>3. PICK n \in D : \A m \in D : n <= m
  BY <1>2, LeastNatural
<1>4. PICK f : f = CHOOSE i \in D : \A j \in D : i <= j
  OBVIOUS
<1>5. f \in D /\ \A j \in D : f <= j
  BY <1>3, <1>4
<1>6. FirstPart(R) = R.parts[f]
  BY <1>1, <1>4 DEF FirstPart
<1> QED BY <1>1, <1>5, <1>6

LEMMA Incoming ==
  ASSUME NEW r \in Replies, Numbered(r), NEW i \in DOMAIN Messages[r], NEW l, l = Messages[r][i], NEW u, u = <<l>>
  PROVE  /\ Usable(ReadParts(u)) /\ ReadParts(u).total = Len(Messages[r]) /\ Len(Messages[r]) \in Nat \ {0}
         /\ DOMAIN ReadParts(u).parts = {i} /\ ReadParts(u).parts[i] = l.payload
         /\ FirstPart(ReadParts(u)) = l.payload /\ i \in 1 .. Top
         /\ PartsIn(r, u, {i})
<1>1. PICK n : n = Len(Messages[r])
  OBVIOUS
<1>2. n \in Nat \ {0} /\ i \in 1 .. Top /\ HeaderOf(l.payload) = <<Header(r)>>
  <2>1. Parted(r, i, l)
    BY PartIs
  <2>2. i \in 1 .. n /\ n \in 2 .. Top /\ Top \in Nat
    BY <1>1, <2>1, PartsAssumption DEF Parted, Top
  <2> QED BY <2>1, <2>2 DEF Parted
<1>3. PICK p : /\ ReadAs(u, n, {i}, p) /\ u = Numbering(<<i>>, n, p) /\ Ordered(<<i>>, {i}) /\ p[i] = l.payload
  BY <1>1, ReadPart
<1>4. PICK R : R = ReadParts(u)
  OBVIOUS
<1>5. R.total = n /\ R.unlabelled = Empty /\ ~R.disagreed /\ DOMAIN R.parts = {i} /\ R.parts[i] = l.payload
  BY <1>3, <1>4, Zenon DEF ReadAs
<1>6. Usable(R)
  <2>1. n > 0
    BY <1>2
  <2> QED BY <1>5, <2>1, Zenon DEF Usable
<1>7. FirstPart(R) = l.payload
  <2>1. {i} \subseteq 1 .. Top /\ {i} # {}
    BY <1>2
  <2>2. PICK f \in DOMAIN R.parts : FirstPart(R) = R.parts[f]
    BY <1>5, <2>1, FirstPartIs
  <2> QED BY <1>5, <2>2
<1>8. PartsIn(r, u, {i})
  <2>1. {i} \in SUBSET (1 .. Top)
    BY <1>2
  <2>2. PICK s : s = <<i>>
    OBVIOUS
  <2>3. Ordered(s, {i}) /\ u = Numbering(s, Len(Messages[r]), p)
    BY <1>1, <1>3, <2>2
  <2>4. \A j \in {i} : p[j] = Messages[r][j].payload /\ HeaderOf(p[j]) = <<Header(r)>>
    BY <1>2, <1>3
  <2>5. GotAmong(r, u, {i}, {i}, s, p)
    BY <2>1, <2>3, <2>4 DEF GotAmong
  <2> QED BY <2>5 DEF PartsIn
<1> QED BY <1>1, <1>2, <1>4, <1>5, <1>6, <1>7, <1>8

LEMMA Gathered ==
  ASSUME NEW r \in Replies, Numbered(r), NEW t, NEW got, PartsIn(r, t, got)
  PROVE  /\ Usable(ReadParts(t)) /\ ReadParts(t).total = Len(Messages[r]) /\ ~ReadParts(t).duplicated
         /\ got \subseteq DOMAIN ReadParts(t).parts /\ \A j \in got : ReadParts(t).parts[j] = Messages[r][j].payload
         /\ HeaderOf(FirstPart(ReadParts(t))) = <<Header(r)>> /\ Text(t)
<1>1. PICK n : n = Len(Messages[r])
  OBVIOUS
<1> PICK D, s, p : GotAmong(r, t, got, D, s, p)
  BY DEF PartsIn
<1>2. /\ D \in SUBSET (1 .. Top)
      /\ got # {} /\ got \subseteq D /\ Ordered(s, D) /\ t = Numbering(s, n, p)
      /\ \A j \in got : p[j] = Messages[r][j].payload
      /\ \A j \in D : (\A k \in D : j <= k) => HeaderOf(p[j]) = <<Header(r)>>
  BY <1>1 DEF GotAmong
<1>3. n \in Nat \ {0}
  <2>1. PICK m, e : m \in Nat /\ InParts(r, m, e)
    BY PartsOf
  <2>2. Len(Messages[r]) = m /\ m # 0
    BY <2>1 DEF InParts
  <2> QED BY <1>1, <2>2
<1>4. D \in SUBSET Nat /\ D # {}
  <2>1. Top \in Nat
    BY PartsAssumption DEF Top
  <2>2. 1 .. Top \subseteq Nat
    BY <2>1
  <2> QED BY <1>2, <2>2
<1>5. ReadAs(t, n, D, p) /\ Text(t)
  BY <1>2, <1>3, <1>4, ReadNumbered
<1>6. PICK R : R = ReadParts(t)
  OBVIOUS
<1>7. R.total = n /\ R.unlabelled = Empty /\ ~R.disagreed /\ ~R.duplicated /\ DOMAIN R.parts = D /\ \A d \in D : R.parts[d] = p[d]
  BY <1>5, <1>6, Zenon DEF ReadAs
<1>8. Usable(R)
  <2>1. n > 0
    BY <1>3
  <2> QED BY <1>7, <2>1, Zenon DEF Usable
<1>9. HeaderOf(FirstPart(R)) = <<Header(r)>>
  <2>1. D \subseteq 1 .. Top
    BY <1>2
  <2>2. PICK f \in D : (\A j \in D : f <= j) /\ FirstPart(R) = R.parts[f]
    BY <1>4, <1>7, <2>1, FirstPartIs
  <2>3. HeaderOf(p[f]) = <<Header(r)>>
    BY <1>2, <2>2
  <2> QED BY <1>7, <2>2, <2>3
<1>10. got \subseteq DOMAIN R.parts /\ \A j \in got : R.parts[j] = Messages[r][j].payload
  BY <1>2, <1>7
<1> QED BY <1>1, <1>5, <1>6, <1>7, <1>8, <1>9, <1>10

(* A numbered message, pasted. *)
LEMMA PasteNumbered ==
  ASSUME NEW t, BoxOK(t), NEW r \in Replies, Numbered(r), NEW i \in DOMAIN Messages[r],
         NEW u, u = <<Messages[r][i]>>, NEW v, v = MergeParts(t, u),
         NEW got, got = {} \/ HoldsOnly(t, r) \/ PartsIn(r, t, got)
  PROVE  HoldsOnly(v, r) \/ PartsIn(r, v, got \union {i})
<1>1. PICK l, n : l = Messages[r][i] /\ n = Len(Messages[r])
  OBVIOUS
<1>2. PICK cur, inc : cur = ReadParts(t) /\ inc = ReadParts(u)
  OBVIOUS
<1>3. /\ Usable(inc) /\ inc.total = n /\ n \in Nat \ {0} /\ DOMAIN inc.parts = {i} /\ inc.parts[i] = l.payload
      /\ FirstPart(inc) = l.payload /\ i \in 1 .. Top /\ PartsIn(r, u, {i})
  <2>1. u = <<l>>
    BY <1>1
  <2> QED BY <1>1, <1>2, <2>1, Incoming
<1>4. /\ HeaderOf(l.payload) = <<Header(r)>> /\ AfterHeader(l.payload) \in Seq(Units)
      /\ Len(AfterHeader(l.payload)) >= 1 /\ \E k \in Nat : AfterHeader(l.payload)[1] = <<r, k>>
      /\ Includes(BodyUnits(r), AfterHeader(l.payload))
  <2>1. Parted(r, i, l)
    BY <1>1, PartIs
  <2> QED BY <2>1 DEF Parted
<1>5. Text(t) /\ LabelsOK(t) /\ Text(u) /\ LabelsOK(u)
  <2>1. Pasted(u)
    BY OnePasted
  <2> QED BY <2>1 DEF BoxOK, Pasted
<1>6. PICK held : held = IF cur.total = 0 THEN cur.unlabelled ELSE Empty
  OBVIOUS
<1>7. /\ held # Empty /\ HeldWhole(held, inc) => v = t
      /\ ~(held # Empty /\ HeldWhole(held, inc)) => v = IF SameReply(cur, inc) THEN Combine(cur, inc) ELSE u
  <2>1. inc.total # 0
    BY <1>3
  <2> QED BY <1>2, <1>3, <1>6, <2>1, Zenon DEF MergeParts
<1>8. CASE held # Empty /\ HeldWhole(held, inc)
  <2>1. cur.total = 0 /\ held = cur.unlabelled
    BY <1>6, <1>8
  <2>2. Labels(t) = {}
    <3>1. TotalOf(t) = 0
      BY <1>2, <2>1, ReadIs
    <3> QED BY <1>5, <3>1, TotalIs
  <2>3. held = Join(t)
    BY <1>2, <1>5, <2>1, <2>2, ReadPlain
  <2>4. PICK b : b = AfterHeader(l.payload)
    OBVIOUS
  <2>5. Includes(AfterHeader(Join(t)), b)
    BY <1>3, <1>8, <2>3, <2>4 DEF HeldWhole
  <2>6. b \in Seq(Units) /\ 1 \in 1 .. Len(b) /\ \E k \in Nat : b[1] = <<r, k>>
    <3>1. b \in Seq(Units) /\ Len(b) >= 1
      BY <1>4, <2>4
    <3>2. Len(b) \in Nat
      BY <3>1, LenProperties
    <3> QED BY <1>4, <2>4, <3>1, <3>2
  <2>7. PICK k \in Nat : b[1] = <<r, k>>
    BY <2>6
  <2>8. HoldsOnly(t, r)
    BY <2>2, <2>5, <2>6, <2>7, FoundInHeld
  <2> QED BY <1>7, <1>8, <2>8
<1>9. CASE ~(held # Empty /\ HeldWhole(held, inc)) /\ SameReply(cur, inc)
  <2>1. v = Combine(cur, inc)
    BY <1>7, <1>9
  <2>2. PICK D, s, p : Combined(t, u, v, D, s, p)
    BY <1>2, <1>3, <1>5, <2>1, CombinedIs
  <2>3. PICK A : A = DOMAIN cur.parts
    OBVIOUS
  <2>4. /\ D = A \union {i} /\ D \in SUBSET (1 .. Top) /\ Ordered(s, D) /\ v = Numbering(s, n, p)
        /\ \A d \in D : p[d] = IF d \in {i} THEN inc.parts[d] ELSE cur.parts[d]
    BY <1>2, <1>3, <2>2, <2>3 DEF Combined
  <2>5. Usable(cur) /\ HeaderOf(FirstPart(cur)) = <<Header(r)>>
    BY <1>3, <1>4, <1>9 DEF SameReply
  <2>6. A # {}
    <3>1. cur.total # 0 /\ cur.total = TotalOf(t)
      <4>1. cur.total > 0
        BY <2>5 DEF Usable
      <4>2. cur.total = TotalOf(t)
        BY <1>2, ReadIs
      <4>3. TotalOf(t) \in Nat
        BY <1>5, TotalIs
      <4> QED BY <4>1, <4>2, <4>3
    <3>2. Labels(t) # {}
      BY <1>5, <3>1, TotalIs
    <3> QED BY <1>2, <1>5, <2>3, <3>2, TotalIs
  <2>7. p[i] = l.payload /\ \A d \in A : d # i => p[d] = cur.parts[d]
    BY <1>3, <2>4
  <2>8. got \subseteq A /\ \A j \in got : cur.parts[j] = Messages[r][j].payload
    <3>1. CASE got = {}
      BY <3>1
    <3>2. CASE HoldsOnly(t, r)
      <4>1. cur.total = 0
        BY <1>2, <3>2, HoldsIs
      <4> QED BY <2>5, <4>1 DEF Usable
    <3>3. CASE PartsIn(r, t, got)
      BY <1>2, <2>3, <3>3, Gathered
    <3> QED BY <3>1, <3>2, <3>3
  <2>9. got \union {i} # {} /\ got \union {i} \subseteq D /\ \A j \in got \union {i} : p[j] = Messages[r][j].payload
    BY <1>1, <2>4, <2>7, <2>8
  <2>10. ASSUME NEW d \in D, \A k \in D : d <= k PROVE HeaderOf(p[d]) = <<Header(r)>>
    <3>1. CASE d = i
      BY <1>4, <2>7, <3>1
    <3>2. CASE d # i
      <4>1. d \in A /\ A \subseteq 1 .. Top
        BY <2>4, <3>2
      <4>2. PICK f \in A : (\A j \in A : f <= j) /\ FirstPart(cur) = cur.parts[f]
        BY <2>3, <2>6, <4>1, FirstPartIs
      <4>3. f <= d /\ d <= f /\ f \in Nat /\ d \in Nat
        BY <2>4, <2>10, <4>1, <4>2
      <4>4. f = d
        BY <4>3
      <4> QED BY <2>5, <2>7, <3>2, <4>1, <4>2, <4>4
    <3> QED BY <3>1, <3>2
  <2>11. PartsIn(r, v, got \union {i})
    <3>1. PICK more : more = got \union {i}
      OBVIOUS
    <3>2. v = Numbering(s, Len(Messages[r]), p)
      BY <1>1, <2>4
    <3>3. more # {} /\ more \subseteq D /\ \A j \in more : p[j] = Messages[r][j].payload
      BY <2>9, <3>1
    <3>4. \A d \in D : (\A k \in D : d <= k) => HeaderOf(p[d]) = <<Header(r)>>
      BY <2>10
    <3>5. D \in SUBSET (1 .. Top) /\ Ordered(s, D)
      BY <2>4
    <3>6. GotAmong(r, v, more, D, s, p)
      BY <3>2, <3>3, <3>4, <3>5 DEF GotAmong
    <3> QED BY <3>1, <3>6 DEF PartsIn
  <2> QED BY <2>11
<1>10. CASE ~(held # Empty /\ HeldWhole(held, inc)) /\ ~SameReply(cur, inc)
  <2>1. v = u
    BY <1>7, <1>10
  <2>2. CASE got = {}
    <3>1. got \union {i} = {i}
      BY <2>2
    <3> QED BY <1>3, <2>1, <3>1
  <2>3. CASE PartsIn(r, t, got)
    <3>1. Usable(cur) /\ cur.total = n /\ HeaderOf(FirstPart(cur)) = <<Header(r)>>
      BY <1>1, <1>2, <2>3, Gathered
    <3>2. SameReply(cur, inc)
      BY <1>3, <1>4, <3>1 DEF SameReply
    <3> QED BY <1>10, <3>2
  <2>4. CASE HoldsOnly(t, r)
    <3>1. held = Encoded[r]
      BY <1>2, <1>6, <2>4, HoldsIs
    <3>2. held # Empty
      <4>1. Len(Encoded[r]) = Size(r) + 1 /\ Size(r) \in Nat
        BY ReplyIs
      <4>2. Len(Empty) = 0
        BY DEF Empty
      <4> QED BY <3>1, <4>1, <4>2
    <3>3. HeldWhole(held, inc)
      <4>1. HeaderOf(held) = <<Header(r)>> /\ AfterHeader(held) = BodyUnits(r)
        BY <3>1, EncodedParts
      <4> QED BY <1>3, <1>4, <4>1 DEF HeldWhole
    <3> QED BY <1>10, <3>2, <3>3
  <2> QED BY <2>2, <2>3, <2>4
<1> QED BY <1>8, <1>9, <1>10

(* All parts got, the reply is put together. *)
LEMMA NumberedReads ==
  ASSUME NEW r \in Replies, Numbered(r), NEW t, PartsIn(r, t, DOMAIN Messages[r])
  PROVE  Reassemble(t) = Encoded[r]
<1>1. PICK n, e : n \in Nat /\ InParts(r, n, e)
  BY PartsOf
<1>2. PICK s : s = BodyUnits(r)
  OBVIOUS
<1>3. /\ n \in 2 .. Top /\ Cut(s, e, n) /\ e[n] = Len(s)
      /\ Messages[r] = [j \in 1 .. n |-> Line(<<j, n>>, <<Header(r)>> \o CutPiece(s, e, j))]
  BY <1>1, <1>2 DEF InParts
<1>4. n >= 2 /\ DOMAIN Messages[r] = 1 .. n /\ Len(Messages[r]) = n
  BY <1>3, PartsAssumption DEF Top
<1>5. s \in Seq(Units)
  BY <1>2, ReplyIs
<1>6. PICK R : R = ReadParts(t)
  OBVIOUS
<1>7. /\ R.total = n /\ ~R.disagreed /\ ~R.duplicated /\ R.unlabelled = Empty
      /\ 1 .. n \subseteq DOMAIN R.parts /\ \A j \in 1 .. n : R.parts[j] = Messages[r][j].payload
  <2>1. /\ Usable(R) /\ R.total = n /\ ~R.duplicated
        /\ 1 .. n \subseteq DOMAIN R.parts /\ \A j \in 1 .. n : R.parts[j] = Messages[r][j].payload
    BY <1>4, <1>6, Gathered
  <2> QED BY <2>1, Zenon DEF Usable
<1>8. ASSUME NEW j \in 1 .. n PROVE HeaderOf(R.parts[j]) = <<Header(r)>> /\ AfterHeader(R.parts[j]) = CutPiece(s, e, j)
  <2>1. PICK l, c : l = Messages[r][j] /\ c = CutPiece(s, e, j)
    OBVIOUS
  <2>2. l = [label |-> <<j, n>>, payload |-> <<Header(r)>> \o c]
    BY <1>3, <2>1 DEF Line
  <2>3. R.parts[j] = <<Header(r)>> \o c
    <3>1. l.payload = <<Header(r)>> \o c
      BY <2>2, Zenon
    <3>2. R.parts[j] = l.payload
      BY <1>7, <2>1, Zenon
    <3> QED BY <3>1, <3>2
  <2>4. c \in Seq(Units)
    <3>1. PieceOf(Units, CutPiece(s, e, j), s, e[j - 1], e[j])
      BY <1>3, <1>5, PieceIs
    <3> QED BY <2>1, <3>1 DEF PieceOf
  <2>5. Header(r) \in Units
    BY DEF Units
  <2> HIDE DEF Header, Units
  <2>6. HeaderOf(<<Header(r)>> \o c) = <<Header(r)>> /\ AfterHeader(<<Header(r)>> \o c) = c
    BY <2>4, <2>5, HeaderAndRest
  <2> QED BY <2>1, <2>3, <2>6
<1>9. PICK d : d = [j \in 1 .. n |-> AfterHeader(R.parts[j])]
  OBVIOUS
<1>10. FlattenSeq(d) = s
  <2>1. d = [j \in 1 .. n |-> CutPiece(s, e, j)]
    BY <1>8, <1>9
  <2>2. CutUp(d, s, e, n)
    BY <2>1, Zenon DEF CutUp
  <2>3. n \in 1 .. n
    BY <1>4
  <2>4. FlattenSeq(d) = SubSeq(s, 1, e[n])
    BY <1>3, <1>5, <2>2, <2>3, CutsJoin
  <2> QED BY <1>3, <1>5, <2>4, SubSeqFull
<1>11. /\ R.total # 0 /\ ~\E i \in 1 .. R.total : i \notin DOMAIN R.parts
       /\ HeaderOf(R.parts[1]) = <<Header(r)>>
       /\ ~\E i \in 2 .. R.total : HeaderOf(R.parts[i]) # <<Header(r)>>
       /\ [i \in 1 .. R.total |-> AfterHeader(R.parts[i])] = d
  <2>1. 1 \in 1 .. n /\ 2 .. n \subseteq 1 .. n /\ n # 0
    BY <1>4
  <2>2. \A i \in 2 .. n : HeaderOf(R.parts[i]) = <<Header(r)>>
    BY <1>8, <2>1
  <2> QED BY <1>7, <1>8, <1>9, <2>1, <2>2
<1>12. Reassemble(t) = <<Header(r)>> \o FlattenSeq(d)
  BY <1>6, <1>7, <1>11, Zenon DEF Reassemble
<1>13. Encoded[r] = <<Header(r)>> \o s
  BY <1>2, ReplyIs
<1> QED BY <1>10, <1>12, <1>13

-----------------------------------------------------------------------------
(* Pieces without numbers. *)
LEMMA CutRises ==
  ASSUME NEW s, Len(s) \in Nat, NEW n \in Nat, NEW e, Cut(s, e, n), NEW i \in 0 .. n, NEW j \in 0 .. n, i < j
  PROVE  e[i] < e[j] /\ e[i] \in Nat /\ e[j] \in Nat
<1> DEFINE S == {d \in 1 .. n : i + d <= n => e[i] < e[i + d]}
<1>1. \A k \in 0 .. n : e[k] \in Nat
  BY DEF Cut
<1>2. 1 \in S
  <2>1. ASSUME i + 1 <= n PROVE e[i] < e[i + 1]
    <3>1. i + 1 \in 1 .. n /\ (i + 1) - 1 = i
      BY <2>1
    <3>2. e[(i + 1) - 1] < e[i + 1]
      BY <3>1 DEF Cut
    <3> QED BY <3>1, <3>2
  <2>2. 1 \in 1 .. n
    OBVIOUS
  <2> QED BY <2>1, <2>2
<1>3. ASSUME NEW d \in 1 .. n - 1, d \in S PROVE d + 1 \in S
  <2>1. ASSUME i + (d + 1) <= n PROVE e[i] < e[i + (d + 1)]
    <3>1. i + d + 1 \in 1 .. n /\ (i + d + 1) - 1 = i + d /\ i + d \in 0 .. n /\ i + (d + 1) = i + d + 1 /\ i + d + 1 \in 0 .. n
      BY <2>1
    <3>2. e[(i + d + 1) - 1] < e[i + d + 1]
      BY <3>1 DEF Cut
    <3>3. e[i] < e[i + d]
      BY <1>3, <3>1
    <3>4. e[i] \in Nat /\ e[i + d] \in Nat /\ e[i + d + 1] \in Nat
      BY <1>1, <3>1
    <3> QED BY <3>1, <3>2, <3>3, <3>4
  <2> QED BY <2>1
<1> HIDE DEF S
<1>4. j - i \in S
  <2>1. \A k \in 1 .. n : k \in S
    BY <1>2, <1>3, StepByStep
  <2>2. j - i \in 1 .. n
    OBVIOUS
  <2> QED BY <2>1, <2>2
<1>5. i + (j - i) = j
  OBVIOUS
<1> QED BY <1>1, <1>4, <1>5 DEF S

LEMMA HeadUnit ==
  ASSUME NEW T, NEW c \in Seq(T), Len(c) >= 1
  PROVE  HeaderOf(c) = <<c[1]>>
<1>1. Len(c) \in Nat
  BY LenProperties
<1>2. 1 \in 1 .. Len(c)
  BY <1>1
<1>3. c[1] \in T
  BY <1>2, ElementOfSeq
<1>4. \A k \in 1 .. 1 : c[k] \in T
  BY <1>3
<1>5. /\ SubSeq(c, 1, 1) \in Seq(T) /\ Len(SubSeq(c, 1, 1)) = 1
      /\ \A i \in 1 .. 1 - 1 + 1 : SubSeq(c, 1, 1)[i] = c[1 + i - 1]
  BY <1>4, SubSeqProperties
<1>6. SubSeq(c, 1, 1)[1] = c[1]
  BY <1>5
<1>7. <<c[1]>> \in Seq(T) /\ Len(<<c[1]>>) = 1 /\ <<c[1]>>[1] = c[1]
  BY <1>3
<1>8. \A i \in 1 .. 1 : SubSeq(c, 1, 1)[i] = <<c[1]>>[i]
  BY <1>6, <1>7
<1>9. SubSeq(c, 1, 1) = <<c[1]>>
  BY <1>5, <1>7, <1>8, SeqEqual
<1> QED BY <1>9 DEF HeaderOf, HeaderUnits

PieceMade(r, n, e, i, l, c) ==
  /\ l = Line(NoLabel, c) /\ c \in Seq(Units) /\ Len(c) = e[i] - e[i - 1] /\ Len(c) >= 1 /\ Includes(Encoded[r], c)
  /\ e[i] \in Nat /\ e[i - 1] \in Nat /\ e[i] <= Len(Encoded[r])
  /\ i = 1 => c[1] = Header(r)
  /\ i > 1 => e[i - 1] \in Nat \ {0} /\ c[1] = <<r, e[i - 1]>>
  /\ \E m \in 1 .. Len(c), k \in Nat : c[m] = <<r, k>>
  /\ HeaderOf(c) = <<c[1]>>

LEMMA PieceMadeOf ==
  ASSUME NEW r \in Replies, NEW n \in Nat, NEW e, InPieces(r, n, e), NEW i \in 1 .. n
  PROVE  PieceMade(r, n, e, i, Messages[r][i], CutPiece(Encoded[r], e, i))
<1>1. PICK s, c, l : s = Encoded[r] /\ c = CutPiece(s, e, i) /\ l = Messages[r][i]
  OBVIOUS
<1>2. PICK z \in Nat \ {0} : z = Size(r)
  BY ReplyIs
<1>3. s \in Seq(Units) /\ Len(s) = z + 1 /\ s[1] = Header(r) /\ \A k \in 2 .. z + 1 : s[k] = <<r, k - 1>>
  BY <1>1, <1>2, ReplyIs
<1>4. Cut(s, e, n) /\ e[n] = Len(s) /\ (n > 1 => e[1] > 1) /\ l = Line(NoLabel, c)
  BY <1>1 DEF InPieces
<1>5. PICK a, b : a = e[i - 1] /\ b = e[i]
  OBVIOUS
<1>6. PieceOf(Units, c, s, a, b)
  BY <1>1, <1>3, <1>4, <1>5, PieceIs
<1>7. /\ c \in Seq(Units) /\ a \in Nat /\ b \in Nat /\ a < b /\ b <= z + 1 /\ Len(c) = b - a
      /\ \A k \in 1 .. b - a : c[k] = s[a + k]
  BY <1>3, <1>6 DEF PieceOf
<1>8. Includes(s, c)
  BY <1>1, <1>3, <1>4, CutIncluded
<1>9. HeaderOf(c) = <<c[1]>>
  <2>1. Len(c) >= 1
    BY <1>7
  <2> QED BY <1>7, <2>1, HeadUnit
<1>10. ASSUME i = 1 PROVE c[1] = Header(r) /\ \E m \in 1 .. b - a, k \in Nat : c[m] = <<r, k>>
  <2>1. a = 0
    <3>1. e[1 - 1] = 0
      BY <1>4 DEF Cut
    <3> QED BY <1>5, <1>10, <3>1
  <2>2. b > 1
    <3>1. CASE n = 1
      BY <1>3, <1>4, <1>5, <1>10, <3>1
    <3>2. CASE n # 1
      BY <1>4, <1>5, <1>10, <3>2
    <3> QED BY <3>1, <3>2
  <2>3. 1 \in 1 .. b - a /\ 2 \in 1 .. b - a /\ a + 1 = 1 /\ a + 2 = 2
    BY <1>7, <2>1, <2>2
  <2>4. c[1] = s[1] /\ c[2] = s[2]
    BY <1>7, <2>3
  <2>5. 2 \in 2 .. z + 1 /\ 2 - 1 = 1
    OBVIOUS
  <2>6. s[2] = <<r, 1>>
    BY <1>3, <2>5
  <2>7. 1 \in Nat /\ c[2] = <<r, 1>>
    BY <2>4, <2>6
  <2> QED BY <1>3, <2>3, <2>4, <2>7
<1>11. ASSUME i > 1 PROVE a \in Nat \ {0} /\ c[1] = <<r, a>> /\ \E m \in 1 .. b - a, k \in Nat : c[m] = <<r, k>>
  <2>1. a > 0
    <3>1. i - 1 \in 0 .. n /\ 0 \in 0 .. n /\ 0 < i - 1
      BY <1>11
    <3>2. Len(s) \in Nat
      BY <1>3
    <3>3. e[0] < e[i - 1] /\ e[0] = 0
      <4>1. e[0] < e[i - 1]
        BY <1>4, <3>1, <3>2, CutRises
      <4> QED BY <1>4, <4>1 DEF Cut
    <3> QED BY <1>5, <3>3
  <2>2. 1 \in 1 .. b - a /\ a + 1 \in 2 .. z + 1 /\ (a + 1) - 1 = a
    BY <1>7, <2>1
  <2>3. c[1] = s[a + 1]
    BY <1>7, <2>2
  <2>4. s[a + 1] = <<r, a>>
    BY <1>3, <2>2
  <2> QED BY <1>7, <2>1, <2>2, <2>3, <2>4
<1>12. \E m \in 1 .. b - a, k \in Nat : c[m] = <<r, k>>
  BY <1>10, <1>11
<1>13. Len(c) >= 1 /\ Len(c) = b - a /\ b <= Len(s)
  BY <1>3, <1>7
<1> HIDE DEF Header, Units, Line
<1>14. PieceMade(r, n, e, i, l, c)
  BY <1>1, <1>4, <1>5, <1>7, <1>8, <1>9, <1>10, <1>11, <1>12, <1>13 DEF PieceMade
<1> QED BY <1>1, <1>14

-----------------------------------------------------------------------------
(* The reply as a whole, or its first pieces and nothing else. *)
WholeIn(r, t) == Text(t) /\ Labels(t) = {} /\ Join(t) = Encoded[r]
FirstPieces(r, t, got, n, e, k) ==
  /\ n \in Nat /\ InPieces(r, n, e) /\ k \in 1 .. n - 1
  /\ got = 1 .. k /\ t = [j \in 1 .. k |-> Messages[r][j]]
PiecesIn(r, t, got) == \E n, e, k : FirstPieces(r, t, got, n, e, k)

LEMMA WholeReads ==
  ASSUME NEW r, NEW t, WholeIn(r, t)
  PROVE  Reassemble(t) = Encoded[r] /\ ReadParts(t).total = 0
BY ReadPlain DEF WholeIn

LEMMA WhoseText ==
  ASSUME NEW r \in Replies, NEW q \in Replies, NEW b \in Seq(Units), Includes(Encoded[q], b),
         NEW m \in 1 .. Len(b), NEW k \in Nat, b[m] = <<r, k>>
  PROVE  q = r
<1>1. PICK s : s = Encoded[q]
  OBVIOUS
<1>2. s \in Seq(Units) /\ Includes(s, b)
  BY <1>1, ReplyIs
<1>3. PICK j \in 1 .. Len(s) : s[j] = b[m]
  BY <1>2, IncludedAt
<1>4. j \in 1 .. Len(Encoded[q]) /\ Encoded[q][j] = <<r, k>>
  BY <1>1, <1>3
<1> QED BY <1>4, Whose

(* One message of a reply without numbers. *)
LEMMA PlainMessage ==
  ASSUME NEW r \in Replies, NEW n \in Nat, NEW e, InPieces(r, n, e), NEW i \in 1 .. n,
         NEW u, u = <<Messages[r][i]>>, NEW c, c = CutPiece(Encoded[r], e, i)
  PROVE  /\ Text(u) /\ Labels(u) = {} /\ Join(u) = c /\ Reassemble(u) = c /\ u[1].label = NoLabel /\ u[1].payload = c
         /\ ReadParts(u).total = 0 /\ ~Usable(ReadParts(u))
<1>1. PICK l : l = Messages[r][i]
  OBVIOUS
<1>2. l = Line(NoLabel, c)
  BY <1>1, PieceMadeOf DEF PieceMade
<1>3. u = <<l>> /\ u = [k \in 1 .. 1 |-> u[k]] /\ DOMAIN u = 1 .. 1 /\ u[1] = l /\ 1 \in Nat
  BY <1>1
<1>4. l.label = NoLabel /\ l.payload = c
  BY <1>2 DEF Line
<1>5. Text(u)
  BY <1>3 DEF Text
<1>6. Labels(u) = {}
  BY <1>3, <1>4 DEF Labels
<1>7. Join(u) = c
  BY <1>3, <1>4, JoinOne
<1> QED BY <1>3, <1>4, <1>5, <1>6, <1>7, ReadPlain

LEMMA MergePlain ==
  ASSUME NEW t, NEW u, ReadParts(u).total = 0, ~Usable(ReadParts(u)), NEW v, v = MergeParts(t, u)
  PROVE  v = IF ReadParts(t).total = 0 THEN MergeChunks(t, u) ELSE u
BY Zenon DEF MergeParts

(* What decodes and has a piece of r in it is r. *)
LEMMA DecodedWhole ==
  ASSUME NEW t, BoxOK(t), ReadParts(t).total = 0, Decodes(t), NEW r \in Replies, NEW b \in Seq(Units),
         Includes(Join(t), b), NEW m \in 1 .. Len(b), NEW k \in Nat, b[m] = <<r, k>>
  PROVE  WholeIn(r, t)
<1>1. Text(t) /\ Labels(t) = {}
  <2>1. Text(t) /\ LabelsOK(t)
    BY DEF BoxOK
  <2>2. TotalOf(t) = 0
    BY ReadIs
  <2> QED BY <2>1, <2>2, TotalIs
<1>2. PICK q \in Asked : Reassemble(t) = Encoded[q]
  BY DEF Decodes
<1>3. q \in Replies /\ Join(t) = Encoded[q]
  BY <1>1, <1>2, ReadPlain, PartsAssumption
<1>4. Includes(Encoded[q], b)
  BY <1>3
<1>5. q = r
  BY <1>3, <1>4, WhoseText
<1> QED BY <1>1, <1>3, <1>5 DEF WholeIn

(* The whole reply is kept when a message of it comes again. *)
LEMMA PasteAgain ==
  ASSUME NEW r \in Asked, ~Numbered(r), NEW i \in DOMAIN Messages[r], NEW u, u = <<Messages[r][i]>>,
         NEW t, WholeIn(r, t), NEW v, v = MergeParts(t, u)
  PROVE  v = t
<1>1. r \in Replies
  BY PartsAssumption
<1>2. PICK n, e : n \in Nat /\ InPieces(r, n, e)
  BY <1>1, PiecesOf
<1>3. i \in 1 .. n
  BY <1>2 DEF InPieces
<1>4. PICK c : c = CutPiece(Encoded[r], e, i)
  OBVIOUS
<1>5. Join(u) = c /\ ReadParts(u).total = 0 /\ ~Usable(ReadParts(u))
  BY <1>1, <1>2, <1>3, <1>4, PlainMessage
<1>6. Includes(Encoded[r], c)
  BY <1>1, <1>2, <1>3, <1>4, PieceMadeOf DEF PieceMade
<1>7. Reassemble(t) = Encoded[r] /\ ReadParts(t).total = 0 /\ Join(t) = Encoded[r]
  BY WholeReads DEF WholeIn
<1>8. Decodes(t)
  BY <1>7 DEF Decodes
<1>9. v = MergeChunks(t, u)
  BY <1>5, <1>7, MergePlain
<1>10. Includes(Join(t), Join(u))
  BY <1>5, <1>6, <1>7
<1> QED BY <1>8, <1>9, <1>10, Zenon DEF MergeChunks

(* The first of a reply's messages, when the box does not hold it as it is. *)
LEMMA PasteFirst ==
  ASSUME NEW r \in Asked, ~Numbered(r), 1 \in DOMAIN Messages[r], NEW u, u = <<Messages[r][1]>>,
         NEW t, BoxOK(t), r \in Labelled \/ Messages[r][1] \notin Range(t), NEW v, v = MergeParts(t, u)
  PROVE  WholeIn(r, v) \/ PiecesIn(r, v, {1})
<1>1. r \in Replies
  BY PartsAssumption
<1>2. PICK n, e : n \in Nat /\ InPieces(r, n, e)
  BY <1>1, PiecesOf
<1>3. 1 \in 1 .. n
  BY <1>2 DEF InPieces
<1>4. PICK c, l : c = CutPiece(Encoded[r], e, 1) /\ l = Messages[r][1]
  OBVIOUS
<1>5. /\ Text(u) /\ Labels(u) = {} /\ Join(u) = c /\ Reassemble(u) = c /\ u[1].label = NoLabel /\ u[1].payload = c
      /\ ReadParts(u).total = 0 /\ ~Usable(ReadParts(u))
  BY <1>1, <1>2, <1>3, <1>4, PlainMessage
<1>6. PieceMade(r, n, e, 1, l, c)
  BY <1>1, <1>2, <1>3, <1>4, PieceMadeOf
<1>7. ASSUME n = 1 PROVE c = Encoded[r]
  <2>1. PICK s : s = Encoded[r]
    OBVIOUS
  <2>2. s \in Seq(Units)
    BY <1>1, <2>1, ReplyIs
  <2>3. Cut(s, e, n) /\ e[1] = Len(s)
    BY <1>2, <1>7, <2>1 DEF InPieces
  <2>4. e[1 - 1] + 1 = 1
    BY <2>3 DEF Cut
  <2>5. c = SubSeq(s, 1, Len(s))
    BY <1>4, <2>1, <2>3, <2>4 DEF CutPiece
  <2> QED BY <2>1, <2>2, <2>5, SubSeqFull
<1>8. ASSUME v = u PROVE WholeIn(r, v) \/ PiecesIn(r, v, {1})
  <2>1. CASE n = 1
    <3> QED BY <1>5, <1>8, <1>7, <2>1 DEF WholeIn
  <2>2. CASE n # 1
    <3>1. 1 \in 1 .. n - 1
      BY <1>2, <1>3, <2>2
    <3>2. v = [j \in 1 .. 1 |-> Messages[r][j]]
      <4>1. PICK f : f = Messages[r]
        OBVIOUS
      <4>2. <<f[1]>> = [j \in 1 .. 1 |-> f[j]]
        OBVIOUS
      <4> QED BY <1>8, <4>1, <4>2
    <3>3. {1} = 1 .. 1
      OBVIOUS
    <3>4. FirstPieces(r, v, {1}, n, e, 1)
      BY <1>2, <3>1, <3>2, <3>3 DEF FirstPieces
    <3> QED BY <3>4 DEF PiecesIn
  <2> QED BY <2>1, <2>2
<1>9. CASE ReadParts(t).total # 0
  <2>1. v = u
    BY <1>5, <1>9, MergePlain
  <2> QED BY <1>8, <2>1
<1>10. CASE ReadParts(t).total = 0
  <2>1. v = MergeChunks(t, u)
    BY <1>5, <1>10, MergePlain
  <2>2. CASE Decodes(t) /\ Includes(Join(t), Join(u))
    <3>1. v = t
      BY <2>1, <2>2, Zenon DEF MergeChunks
    <3>2. c \in Seq(Units)
      BY <1>6 DEF PieceMade
    <3>3. PICK m \in 1 .. Len(c), k \in Nat : c[m] = <<r, k>>
      BY <1>6 DEF PieceMade
    <3>4. Includes(Join(t), c)
      BY <1>5, <2>2
    <3>5. WholeIn(r, t)
      BY <1>1, <1>10, <2>2, <3>2, <3>3, <3>4, DecodedWhole
    <3> QED BY <3>1, <3>5
  <2>3. CASE ~(Decodes(t) /\ Includes(Join(t), Join(u))) /\ (Decodes(u) \/ ~CollectingChunks(t))
    <3>1. v = u
      BY <2>1, <2>3, Zenon DEF MergeChunks
    <3> QED BY <1>8, <3>1
  <2>4. CASE ~(Decodes(t) /\ Includes(Join(t), Join(u))) /\ ~(Decodes(u) \/ ~CollectingChunks(t))
    <3>1. IsHead(u[1])
      <4>1. HeaderOf(c) = <<Header(r)>>
        BY <1>6 DEF PieceMade
      <4> QED BY <1>5, <4>1 DEF IsHead
    <3>2. n # 1
      <4> SUFFICES ASSUME n = 1 PROVE FALSE
        OBVIOUS
      <4> QED BY <1>5, <1>7, <2>4 DEF Decodes
    <3>3. l \notin Range(t)
      <4>1. n > 1
        BY <1>2, <1>3, <3>2
      <4> QED BY <1>2, <1>4, <4>1 DEF InPieces
    <3>4. ~\E j \in DOMAIN t : <<t[j]>> = u
      <4> SUFFICES ASSUME NEW j \in DOMAIN t, <<t[j]>> = u PROVE FALSE
        OBVIOUS
      <4>1. <<t[j]>> = <<l>>
        BY <1>4
      <4>2. t[j] = l
        BY <4>1
      <4> QED BY <3>3, <4>2 DEF Range
    <3>5. v = u
      BY <2>1, <2>4, <3>1, <3>4, Zenon DEF MergeChunks
    <3> QED BY <1>8, <3>5
  <2> QED BY <2>2, <2>3, <2>4
<1> QED BY <1>9, <1>10

JoinsTo(t, w) == Text(t) /\ Labels(t) = {} /\ Join(t) = w /\ Reassemble(t) = w /\ ReadParts(t).total = 0

LEMMA PiecesJoin ==
  ASSUME NEW r \in Replies, NEW n \in Nat, NEW e, InPieces(r, n, e), NEW k \in 1 .. n,
         NEW t, t = [j \in 1 .. k |-> Messages[r][j]]
  PROVE  JoinsTo(t, SubSeq(Encoded[r], 1, e[k]))
<1>1. k \in Nat /\ k >= 1 /\ DOMAIN t = 1 .. k /\ t = [j \in 1 .. k |-> t[j]] /\ \A j \in 1 .. k : j \in 1 .. n
  OBVIOUS
<1>2. PICK s : s = Encoded[r]
  OBVIOUS
<1>3. ASSUME NEW j \in 1 .. k PROVE t[j].label = NoLabel /\ t[j].payload = CutPiece(s, e, j)
  <2>1. t[j] = Messages[r][j] /\ j \in 1 .. n
    BY <1>1
  <2>2. Messages[r][j] = Line(NoLabel, CutPiece(s, e, j))
    BY <1>2, <2>1 DEF InPieces
  <2>3. t[j] = [label |-> NoLabel, payload |-> CutPiece(s, e, j)]
    BY <2>1, <2>2 DEF Line
  <2> QED BY <2>3
<1>4. Text(t)
  BY <1>1 DEF Text
<1>5. Labels(t) = {}
  BY <1>1, <1>3 DEF Labels
<1>6. PICK d : d = [j \in 1 .. k |-> t[j].payload]
  OBVIOUS
<1>7. CutUp(d, s, e, k)
  BY <1>3, <1>6 DEF CutUp
<1>8. s \in Seq(Units)
  BY <1>2, ReplyIs
<1>9. Cut(s, e, n)
  BY <1>2 DEF InPieces
<1>10. FlattenSeq(d) = SubSeq(s, 1, e[k])
  BY <1>7, <1>8, <1>9, CutsJoin
<1>11. Join(t) = FlattenSeq(d)
  BY <1>1, <1>6 DEF Join
<1>12. Join(t) = SubSeq(Encoded[r], 1, e[k])
  BY <1>2, <1>10, <1>11
<1> QED BY <1>4, <1>5, <1>12, ReadPlain DEF JoinsTo

(* A piece is no reply. *)
LEMMA PieceIsNone ==
  ASSUME NEW r \in Replies, NEW n \in Nat, NEW e, InPieces(r, n, e), n > 1, NEW i \in 1 .. n, NEW q \in Replies
  PROVE  CutPiece(Encoded[r], e, i) # Encoded[q]
<1> PICK c, l : c = CutPiece(Encoded[r], e, i) /\ l = Messages[r][i]
  OBVIOUS
<1> SUFFICES ASSUME c = Encoded[q] PROVE FALSE
  OBVIOUS
<1>1. /\ \E m \in 1 .. Len(c), k \in Nat : c[m] = <<r, k>>
      /\ i > 1 => e[i - 1] \in Nat \ {0} /\ c[1] = <<r, e[i - 1]>>
      /\ Len(c) = e[i] - e[i - 1]
  <2>1. PieceMade(r, n, e, i, l, CutPiece(Encoded[r], e, i))
    BY PieceMadeOf
  <2>2. PieceMade(r, n, e, i, l, c)
    BY <2>1
  <2> QED BY <2>2 DEF PieceMade
<1>2. q = r
  BY <1>1, Whose
<1>3. PICK z \in Nat \ {0} : z = Size(r)
  BY ReplyIs
<1>4. Len(c) = z + 1 /\ c[1] = Header(r) /\ Len(Encoded[r]) = z + 1
  BY <1>2, <1>3, ReplyIs
<1>5. CASE i > 1
  <2>1. PICK a \in Nat : c[1] = <<r, a>>
    BY <1>1, <1>5
  <2> QED BY <1>4, <2>1, UnitsApart
<1>6. CASE i = 1
  <2>1. Cut(Encoded[r], e, n) /\ e[n] = z + 1
    BY <1>4 DEF InPieces
  <2>2. e[1 - 1] = 0
    BY <2>1 DEF Cut
  <2>3. e[1] < e[n] /\ e[1] \in Nat
    <3>1. 1 \in 0 .. n /\ n \in 0 .. n /\ 1 < n /\ Len(Encoded[r]) \in Nat
      BY <1>4
    <3>2. PICK s : s = Encoded[r]
      OBVIOUS
    <3> QED BY <2>1, <3>1, <3>2, CutRises
  <2> QED BY <1>1, <1>4, <1>6, <2>1, <2>2, <2>3
<1> QED BY <1>5, <1>6

(* The pieces that follow, and those that come again. *)
LEMMA PasteNext ==
  ASSUME NEW r \in Asked, ~Numbered(r), NEW t, NEW got, PiecesIn(r, t, got),
         NEW i \in DOMAIN Messages[r], i \in got \union {Cardinality(got) + 1},
         NEW u, u = <<Messages[r][i]>>, NEW v, v = MergeParts(t, u)
  PROVE  WholeIn(r, v) \/ PiecesIn(r, v, got \union {i})
<1>1. r \in Replies
  BY PartsAssumption
<1>2. PICK n, e, k : FirstPieces(r, t, got, n, e, k)
  BY DEF PiecesIn
<1>3. /\ n \in Nat /\ InPieces(r, n, e) /\ k \in 1 .. n - 1 /\ k \in 1 .. n /\ n > 1
      /\ got = 1 .. k /\ t = [j \in 1 .. k |-> Messages[r][j]]
  BY <1>2 DEF FirstPieces
<1>4. i \in 1 .. n /\ i \in 1 .. k + 1
  <2>1. Cardinality(got) = k
    <3>1. Cardinality(1 .. k) = k
      BY <1>3, FS_Interval
    <3> QED BY <1>3, <3>1
  <2>2. i \in 1 .. n
    BY <1>3 DEF InPieces
  <2> QED BY <1>3, <2>1, <2>2
<1>5. PICK c, l, s : c = CutPiece(Encoded[r], e, i) /\ l = Messages[r][i] /\ s = Encoded[r]
  OBVIOUS
<1>6. /\ Text(u) /\ Labels(u) = {} /\ Join(u) = c /\ Reassemble(u) = c /\ u[1].label = NoLabel /\ u[1].payload = c
      /\ ReadParts(u).total = 0 /\ ~Usable(ReadParts(u))
  BY <1>1, <1>3, <1>4, <1>5, PlainMessage
<1>7. PieceMade(r, n, e, i, l, c)
  BY <1>1, <1>3, <1>4, <1>5, PieceMadeOf
<1>8. PICK w : w = SubSeq(s, 1, e[k])
  OBVIOUS
<1>9. Text(t) /\ Labels(t) = {} /\ Join(t) = w /\ Reassemble(t) = w /\ ReadParts(t).total = 0
  <2>1. JoinsTo(t, SubSeq(Encoded[r], 1, e[k]))
    BY <1>1, <1>3, PiecesJoin
  <2> QED BY <1>5, <1>8, <2>1 DEF JoinsTo
<1>10. PICK z \in Nat \ {0} : z = Size(r)
  BY <1>1, ReplyIs
<1>11. s \in Seq(Units) /\ Len(s) = z + 1 /\ \A j \in 2 .. z + 1 : s[j] = <<r, j - 1>>
  BY <1>1, <1>5, <1>10, ReplyIs
<1>12. PICK b : b = e[k]
  OBVIOUS
<1>13. b \in Nat /\ 1 < b /\ b < z + 1
  <2>1. Cut(s, e, n) /\ e[n] = z + 1 /\ e[1] > 1 /\ Len(s) \in Nat
    BY <1>3, <1>5, <1>11 DEF InPieces
  <2>2. k \in 0 .. n /\ n \in 0 .. n /\ k < n /\ 1 \in 0 .. n
    BY <1>3
  <2>3. e[k] < e[n] /\ e[k] \in Nat
    BY <1>3, <2>1, <2>2, CutRises
  <2>4. CASE k = 1
    BY <1>12, <2>1, <2>3, <2>4
  <2>5. CASE k # 1
    <3>1. 1 < k
      BY <1>3, <2>5
    <3>2. e[1] < e[k] /\ e[1] \in Nat
      BY <1>3, <2>1, <2>2, <3>1, CutRises
    <3> QED BY <1>12, <2>1, <2>3, <3>2
  <2> QED BY <2>4, <2>5
<1>14. w \in Seq(Units) /\ Len(w) = b /\ w[2] = <<r, 1>>
  <2>1. \A j \in 1 .. b : s[j] \in Units
    <3>1. \A j \in 1 .. b : j \in 1 .. Len(s)
      BY <1>11, <1>13
    <3> QED BY <1>11, <3>1, ElementOfSeq
  <2>2. /\ SubSeq(s, 1, b) \in Seq(Units) /\ Len(SubSeq(s, 1, b)) = (IF 1 <= b THEN b - 1 + 1 ELSE 0)
        /\ \A j \in 1 .. b - 1 + 1 : SubSeq(s, 1, b)[j] = s[1 + j - 1]
    BY <1>13, <2>1, SubSeqProperties
  <2>3. w = SubSeq(s, 1, b) /\ 2 \in 1 .. b - 1 + 1 /\ 1 + 2 - 1 = 2 /\ 2 \in 2 .. z + 1 /\ 2 - 1 = 1
    BY <1>8, <1>12, <1>13
  <2>4. w[2] = s[2] /\ s[2] = <<r, 1>>
    BY <1>11, <2>2, <2>3
  <2>5. Len(w) = b
    BY <1>13, <2>2, <2>3
  <2> QED BY <2>2, <2>3, <2>4, <2>5
<1>15. ~Decodes(t)
  <2> SUFFICES ASSUME NEW q \in Asked, Reassemble(t) = Encoded[q] PROVE FALSE
    BY DEF Decodes
  <2>1. q \in Replies /\ w = Encoded[q]
    BY <1>9, PartsAssumption
  <2>2. 2 \in 1 .. Len(Encoded[q]) /\ 1 \in Nat /\ Encoded[q][2] = <<r, 1>>
    BY <1>13, <1>14, <2>1
  <2>3. q = r
    BY <1>1, <2>1, <2>2, Whose
  <2> QED BY <1>5, <1>11, <1>13, <1>14, <2>1, <2>3
<1>16. ~Decodes(u)
  <2> SUFFICES ASSUME NEW q \in Asked, Reassemble(u) = Encoded[q] PROVE FALSE
    BY DEF Decodes
  <2>1. q \in Replies /\ CutPiece(Encoded[r], e, i) = Encoded[q]
    BY <1>5, <1>6, PartsAssumption
  <2> QED BY <1>1, <1>3, <1>4, <2>1, PieceIsNone
<1>17. CollectingChunks(t)
  <2>1. t # Empty
    <3>1. 1 \in DOMAIN t
      BY <1>3
    <3>2. DOMAIN Empty = {}
      BY DEF Empty
    <3> QED BY <3>1, <3>2
  <2>2. IsHead(t[1])
    <3>1. 1 \in 1 .. n /\ t[1] = Messages[r][1]
      BY <1>3
    <3>2. PICK f : f = CutPiece(Encoded[r], e, 1)
      OBVIOUS
    <3>3. t[1] = Line(NoLabel, f) /\ HeaderOf(f) = <<Header(r)>>
      <4>1. PieceMade(r, n, e, 1, Messages[r][1], CutPiece(Encoded[r], e, 1))
        BY <1>1, <1>3, <3>1, PieceMadeOf
      <4> QED BY <3>1, <3>2, <4>1 DEF PieceMade
    <3>4. t[1].label = NoLabel /\ t[1].payload = f
      BY <3>3 DEF Line
    <3> QED BY <3>3, <3>4 DEF IsHead
  <2> QED BY <1>15, <2>1, <2>2 DEF CollectingChunks
<1>18. v = MergeChunks(t, u)
  BY <1>6, <1>9, MergePlain
<1>19. CASE i <= k
  <2>1. i \in DOMAIN t /\ t[i] = l
    BY <1>3, <1>4, <1>5, <1>19
  <2>2. <<t[i]>> = u
    BY <1>5, <2>1
  <2>3. v = t
    BY <1>15, <1>16, <1>17, <1>18, <2>1, <2>2, Zenon DEF MergeChunks
  <2>4. got \union {i} = got
    BY <1>3, <1>4, <1>19
  <2> QED BY <2>3, <2>4
<1>20. CASE i = k + 1
  <2>1. i > 1 /\ i - 1 = k
    BY <1>3, <1>20
  <2>2. c[1] = <<r, b>> /\ HeaderOf(c) = <<c[1]>>
    <3>1. e[i - 1] = b
      BY <1>12, <2>1
    <3> QED BY <1>7, <2>1, <3>1 DEF PieceMade
  <2>3. ~IsHead(u[1])
    <3> SUFFICES ASSUME NEW q \in Asked, HeaderOf(u[1].payload) = <<Header(q)>> PROVE FALSE
      BY DEF IsHead
    <3>1. q \in Replies /\ <<c[1]>> = <<Header(q)>>
      BY <1>6, <2>2, PartsAssumption
    <3>2. Header(q) = <<r, b>>
      BY <2>2, <3>1
    <3> QED BY <1>1, <1>13, <3>1, <3>2, UnitsApart
  <2>4. ~\E j \in DOMAIN t : <<t[j]>> = u
    <3> SUFFICES ASSUME NEW j \in 1 .. k, <<t[j]>> = u PROVE FALSE
      BY <1>3
    <3>1. t[j] = l /\ t[j] = Messages[r][j] /\ j \in 1 .. n
      <4>1. <<t[j]>> = <<l>>
        BY <1>5
      <4> QED BY <1>3, <4>1
    <3>2. PICK f : f = CutPiece(Encoded[r], e, j)
      OBVIOUS
    <3>3. PieceMade(r, n, e, j, Messages[r][j], f)
      BY <1>1, <1>3, <3>1, <3>2, PieceMadeOf
    <3>4. f = c
      <4>1. l = [label |-> NoLabel, payload |-> c] /\ l = [label |-> NoLabel, payload |-> f]
        BY <1>7, <3>1, <3>3 DEF PieceMade, Line
      <4> QED BY <4>1
    <3>5. CASE j = 1
      <4>1. c[1] = Header(r)
        BY <3>3, <3>4, <3>5 DEF PieceMade
      <4> QED BY <1>1, <1>13, <2>2, <4>1, UnitsApart
    <3>6. CASE j # 1
      <4>1. j > 1 /\ j - 1 \in 0 .. n /\ k \in 0 .. n /\ j - 1 < k
        BY <1>3, <3>6
      <4>2. e[j - 1] \in Nat /\ c[1] = <<r, e[j - 1]>>
        BY <3>3, <3>4, <4>1 DEF PieceMade
      <4>3. e[j - 1] = b
        BY <2>2, <4>2
      <4>4. Cut(s, e, n) /\ Len(s) \in Nat
        BY <1>3, <1>5, <1>11 DEF InPieces
      <4>5. e[j - 1] < e[k]
        BY <1>3, <4>1, <4>4, CutRises
      <4> QED BY <1>12, <1>13, <4>3, <4>5
    <3> QED BY <3>5, <3>6
  <2>5. v = t \o u
    BY <1>15, <1>16, <1>17, <1>18, <2>3, <2>4, Zenon DEF MergeChunks
  <2>6. v = [j \in 1 .. k + 1 |-> Messages[r][j]]
    <3>1. PICK f : f = Messages[r]
      OBVIOUS
    <3>2. t = [j \in 1 .. k |-> f[j]] /\ u = <<f[k + 1]>> /\ k \in Nat
      BY <1>3, <1>20, <3>1
    <3>3. Len(t) = k /\ Len(u) = 1 /\ u[1] = f[k + 1]
      BY <3>2
    <3>4. t \o u = [j \in 1 .. k + 1 |-> IF j <= k THEN t[j] ELSE u[j - k]]
      <4>1. t \in Seq({f[j] : j \in 1 .. k + 1}) /\ u \in Seq({f[j] : j \in 1 .. k + 1})
        BY <3>2
      <4> QED BY <3>3, <4>1
    <3>5. \A j \in 1 .. k + 1 : (IF j <= k THEN t[j] ELSE u[j - k]) = f[j]
      <4> SUFFICES ASSUME NEW j \in 1 .. k + 1 PROVE (IF j <= k THEN t[j] ELSE u[j - k]) = f[j]
        OBVIOUS
      <4>1. CASE j <= k
        BY <3>2, <4>1
      <4>2. CASE ~(j <= k)
        <5>1. j = k + 1 /\ j - k = 1
          BY <3>2, <4>2
        <5> QED BY <3>3, <4>2, <5>1
      <4> QED BY <4>1, <4>2
    <3> QED BY <2>5, <3>1, <3>4, <3>5
  <2>7. CASE k + 1 = n
    <3>1. n \in 1 .. n /\ v = [j \in 1 .. n |-> Messages[r][j]]
      <4>1. n \in 1 .. n
        BY <1>3
      <4> QED BY <2>6, <2>7, <4>1, Zenon
    <3>2. Text(v) /\ Labels(v) = {} /\ Join(v) = SubSeq(Encoded[r], 1, e[n])
      <4>1. JoinsTo(v, SubSeq(Encoded[r], 1, e[n]))
        BY <1>1, <1>3, <3>1, PiecesJoin
      <4> QED BY <4>1 DEF JoinsTo
    <3>3. Join(v) = Encoded[r]
      <4>1. e[n] = Len(s)
        BY <1>3, <1>5 DEF InPieces
      <4>2. SubSeq(s, 1, Len(s)) = s
        BY <1>11, SubSeqFull
      <4> QED BY <1>5, <3>2, <4>1, <4>2
    <3> QED BY <3>2, <3>3 DEF WholeIn
  <2>8. CASE k + 1 # n
    <3>1. k + 1 \in 1 .. n - 1 /\ got \union {i} = 1 .. k + 1
      BY <1>3, <1>20, <2>8
    <3>2. FirstPieces(r, v, got \union {i}, n, e, k + 1)
      BY <1>3, <2>6, <3>1 DEF FirstPieces
    <3> QED BY <3>2 DEF PiecesIn
  <2> QED BY <2>7, <2>8
<1>21. i <= k \/ i = k + 1
  BY <1>3, <1>4
<1> QED BY <1>19, <1>20, <1>21

-----------------------------------------------------------------------------
(* What the box has of the reply whose messages are being pasted. *)
HasOf(r, t, got) ==
  /\ Numbered(r) => HoldsOnly(t, r) \/ PartsIn(r, t, got)
  /\ ~Numbered(r) /\ r \in Asked => WholeIn(r, t) \/ PiecesIn(r, t, got)
StreakOK(t, k) == \A r \in Replies : k.reply = <<r>> => HasOf(r, t, k.got)
PartsInv == BoxOK(box) /\ StreakOK(box, streak)

LEMMA NoneOK ==
  ASSUME NEW t
  PROVE  StreakOK(t, NoStreak)
<1>1. ASSUME NEW r \in Replies PROVE NoStreak.reply # <<r>>
  <2>1. NoStreak.reply = << >>
    BY DEF NoStreak, Empty
  <2> QED BY <2>1
<1> QED BY <1>1 DEF StreakOK

LEMMA EmptyOK == BoxOK(Empty)
<1>1. Text(Empty)
  <2>1. << >> = [i \in 1 .. 0 |-> << >>[i]] /\ 0 \in Nat
    OBVIOUS
  <2> QED BY <2>1 DEF Text, Empty
<1>2. DOMAIN Empty = {}
  BY DEF Empty
<1>3. LabelsOK(Empty) /\ AllLoose(Empty)
  BY <1>2 DEF LabelsOK, AllLoose, Labels
<1> QED BY <1>1, <1>3 DEF BoxOK

(* The parts pasted of one reply. *)
LEMMA StreakGrows ==
  ASSUME NEW r \in Replies, NEW t, NEW got, NEW more, HasOf(r, t, more), NEW k, k = [reply |-> <<r>>, got |-> more]
  PROVE  StreakOK(t, k)
<1>1. k.reply = <<r>> /\ k.got = more
  OBVIOUS
<1>2. ASSUME NEW q \in Replies, k.reply = <<q>> PROVE HasOf(q, t, k.got)
  <2>1. q = r
    <3>1. <<q>> = <<r>>
      BY <1>1, <1>2
    <3> QED BY <3>1
  <2> QED BY <1>1, <2>1
<1> QED BY <1>2 DEF StreakOK

LEMMA LoadKeeps ==
  ASSUME PartsInv, NEW r \in Replies, Load(r)
  PROVE  PartsInv'
<1>1. r \in Asked /\ HoldsOnly(box', r) /\ streak' = [reply |-> <<r>>, got |-> DOMAIN Messages[r]]
  BY DEF Load, HoldsOnly
<1>2. PICK t : t = box'
  OBVIOUS
<1>3. HoldsOnly(t, r)
  BY <1>1, <1>2
<1>4. Text(t) /\ Labels(t) = {} /\ Join(t) = Encoded[r]
  BY <1>3, HoldsIs
<1>5. LabelsOK(t)
  BY <1>4 DEF LabelsOK
<1>6. BoxOK(t)
  BY <1>1, <1>3, <1>4, <1>5 DEF BoxOK
<1>7. HasOf(r, t, DOMAIN Messages[r])
  BY <1>3, <1>4 DEF HasOf, WholeIn
<1>8. PICK k : k = streak'
  OBVIOUS
<1>9. StreakOK(t, k)
  BY <1>1, <1>7, <1>8, StreakGrows
<1> QED BY <1>2, <1>6, <1>8, <1>9 DEF PartsInv

LEMMA PasteKeeps ==
  ASSUME PartsInv, NEW r \in Replies, NEW i \in DOMAIN Messages[r], PasteOne(r, i)
  PROVE  PartsInv'
<1>1. PICK t, k, v, kk, u : t = box /\ k = streak /\ v = box' /\ kk = streak' /\ u = <<Messages[r][i]>>
  OBVIOUS
<1>2. BoxOK(t) /\ StreakOK(t, k) /\ v = MergeParts(t, u)
  BY <1>1 DEF PartsInv, PasteOne
<1>3. BoxOK(v)
  <2>1. Pasted(u)
    BY <1>1, OnePasted
  <2> QED BY <1>2, <2>1, BoxStays
<1>4. PICK got : got = IF k.reply = <<r>> THEN k.got ELSE {}
  OBVIOUS
<1> DEFINE joins == IF r \in Labelled THEN TRUE
                    ELSE IF got = {} THEN i = 1 /\ Messages[r][1] \notin Range(t)
                    ELSE i \in got \union {Cardinality(got) + 1}
<1>5. r \notin Labelled /\ joins => IF got = {} THEN i = 1 /\ Messages[r][1] \notin Range(t)
                                   ELSE i \in got \union {Cardinality(got) + 1}
  OBVIOUS
<1>6. kk = IF joins THEN [reply |-> <<r>>, got |-> got \union {i}] ELSE NoStreak
  BY <1>1, <1>4, Zenon DEF PasteOne, Follow
<1> HIDE DEF joins
<1>7. CASE ~joins
  <2>1. StreakOK(v, kk)
    BY <1>6, <1>7, NoneOK
  <2> QED BY <1>1, <1>3, <2>1 DEF PartsInv
<1>8. CASE joins
  <2>1. got = {} \/ HasOf(r, t, got)
    BY <1>2, <1>4 DEF StreakOK
  <2>2. ASSUME Numbered(r) PROVE HoldsOnly(v, r) \/ PartsIn(r, v, got \union {i})
    <3>1. got = {} \/ HoldsOnly(t, r) \/ PartsIn(r, t, got)
      BY <2>1, <2>2 DEF HasOf
    <3> QED BY <1>1, <1>2, <2>2, <3>1, PasteNumbered
  <2>3. ASSUME ~Numbered(r), r \in Asked PROVE WholeIn(r, v) \/ PiecesIn(r, v, got \union {i})
    <3>1. CASE got # {} /\ WholeIn(r, t)
      <4>1. v = t
        BY <1>1, <1>2, <2>3, <3>1, PasteAgain
      <4> QED BY <3>1, <4>1
    <3>2. ASSUME i = 1, r \in Labelled \/ Messages[r][1] \notin Range(t), got = {}
          PROVE  WholeIn(r, v) \/ PiecesIn(r, v, got \union {i})
      <4>1. 1 \in DOMAIN Messages[r] /\ u = <<Messages[r][1]>>
        BY <1>1, <3>2
      <4>2. WholeIn(r, v) \/ PiecesIn(r, v, {1})
        BY <1>2, <2>3, <3>2, <4>1, PasteFirst
      <4>3. got \union {i} = {1}
        BY <3>2
      <4> QED BY <4>2, <4>3
    <3>3. PICK n, e : n \in Nat /\ InPieces(r, n, e)
      BY <2>3, PiecesOf
    <3>4. i \in 1 .. n /\ (n > 1 => r \notin Labelled)
      BY <3>3 DEF InPieces
    <3>5. CASE got = {}
      <4>1. i = 1 /\ (r \in Labelled \/ Messages[r][1] \notin Range(t))
        <5>1. CASE r \in Labelled
          <6>1. ~(n > 1)
            BY <3>4, <5>1
          <6> QED BY <3>3, <3>4, <5>1, <6>1
        <5>2. CASE r \notin Labelled
          BY <1>5, <1>8, <3>5, <5>2
        <5> QED BY <5>1, <5>2
      <4> QED BY <3>2, <3>5, <4>1
    <3>6. CASE got # {} /\ ~WholeIn(r, t)
      <4>1. PiecesIn(r, t, got)
        BY <2>1, <2>3, <3>6 DEF HasOf
      <4>2. r \notin Labelled
        <5>1. PICK m, f, j : FirstPieces(r, t, got, m, f, j)
          BY <4>1 DEF PiecesIn
        <5>2. m \in Nat /\ j \in 1 .. m - 1 /\ InPieces(r, m, f)
          BY <5>1 DEF FirstPieces
        <5>3. m > 1
          BY <5>2
        <5> QED BY <5>2, <5>3 DEF InPieces
      <4>3. i \in got \union {Cardinality(got) + 1}
        BY <1>5, <1>8, <3>6, <4>2
      <4> QED BY <1>1, <1>2, <2>3, <4>1, <4>3, PasteNext
    <3> QED BY <3>1, <3>5, <3>6
  <2>4. HasOf(r, v, got \union {i})
    BY <2>2, <2>3 DEF HasOf
  <2>5. StreakOK(v, kk)
    <3>1. PICK more : more = got \union {i}
      OBVIOUS
    <3>2. HasOf(r, v, more) /\ kk = [reply |-> <<r>>, got |-> more]
      BY <1>6, <1>8, <2>4, <3>1
    <3> QED BY <3>2, StreakGrows
  <2> QED BY <1>1, <1>3, <2>5 DEF PartsInv
<1> QED BY <1>7, <1>8

LEMMA PasteBothKeeps ==
  ASSUME PartsInv, NEW r \in Replies, NEW i \in DOMAIN Messages[r], NEW q \in Labelled, NEW j \in DOMAIN Messages[q],
         PasteBoth(r, i, q, j)
  PROVE  PartsInv'
<1>1. PICK t, v, u : t = box /\ v = box' /\ u = <<Messages[r][i], Messages[q][j]>>
  OBVIOUS
<1>2. BoxOK(t) /\ v = MergeParts(t, u) /\ streak' = NoStreak /\ q \in Replies
  BY <1>1, PartsAssumption DEF PartsInv, PasteBoth
<1>3. Pasted(u)
  BY <1>1, <1>2, TwoPasted
<1>4. BoxOK(v)
  BY <1>2, <1>3, BoxStays
<1>5. StreakOK(v, NoStreak)
  BY NoneOK
<1> QED BY <1>1, <1>2, <1>4, <1>5 DEF PartsInv

(* The box is always one of these, and has of the reply being pasted what was
   pasted of it. *)
THEOREM BoxHasTheReply == PartsSpec => []PartsInv
<1>1. PartsInit => PartsInv
  <2> SUFFICES ASSUME PartsInit PROVE PartsInv
    OBVIOUS
  <2>1. BoxOK(box) /\ StreakOK(box, streak)
    BY EmptyOK, NoneOK DEF PartsInit
  <2> QED BY <2>1 DEF PartsInv
<1>2. PartsInv /\ [PartsNext]_partsVars => PartsInv'
  <2> SUFFICES ASSUME PartsInv, [PartsNext]_partsVars PROVE PartsInv'
    OBVIOUS
  <2>1. CASE Clear
    <3>1. box' = Empty /\ streak' = NoStreak
      BY <2>1 DEF Clear
    <3>2. BoxOK(Empty) /\ StreakOK(Empty, NoStreak)
      BY EmptyOK, NoneOK
    <3> QED BY <3>1, <3>2 DEF PartsInv
  <2>2. ASSUME NEW r \in Replies, Load(r) PROVE PartsInv'
    BY <2>2, LoadKeeps
  <2>3. ASSUME NEW r \in Replies, NEW i \in DOMAIN Messages[r], PasteOne(r, i) PROVE PartsInv'
    BY <2>3, PasteKeeps
  <2>4. ASSUME NEW r \in Replies, NEW i \in DOMAIN Messages[r], NEW q \in Labelled, NEW j \in DOMAIN Messages[q],
               PasteBoth(r, i, q, j)
        PROVE  PartsInv'
    BY <2>4, PasteBothKeeps
  <2>5. CASE UNCHANGED partsVars
    BY <2>5 DEF PartsInv, partsVars
  <2> QED BY <2>1, <2>2, <2>3, <2>4, <2>5, Zenon DEF PartsNext
<1> QED BY <1>1, <1>2, PTL DEF PartsSpec

(* Whatever was in the box, the reader who pastes the messages of one reply,
   numbered ones in any order, the others as they came, has that reply. *)
THEOREM RepliesAreCollected == PartsSpec => []Collected
<1>1. PartsInv => Collected
  <2> SUFFICES ASSUME PartsInv, NEW r \in Replies, streak.reply = <<r>>, streak.got = DOMAIN Messages[r],
                      (r \in Labelled /\ Len(Messages[r]) > 1) \/ r \in Asked
               PROVE  Reassemble(box) = Encoded[r]
    BY DEF Collected
  <2>1. PICK t : t = box
    OBVIOUS
  <2>2. HasOf(r, t, DOMAIN Messages[r])
    BY <2>1 DEF PartsInv, StreakOK
  <2>3. CASE Numbered(r)
    <3>1. HoldsOnly(t, r) \/ PartsIn(r, t, DOMAIN Messages[r])
      BY <2>2, <2>3 DEF HasOf
    <3>2. Reassemble(t) = Encoded[r]
      BY <2>3, <3>1, HoldsIs, NumberedReads
    <3> QED BY <2>1, <3>2
  <2>4. CASE ~Numbered(r)
    <3>1. PICK n, e : n \in Nat /\ InPieces(r, n, e)
      BY <2>4, PiecesOf
    <3>2. DOMAIN Messages[r] = 1 .. n /\ Len(Messages[r]) = n /\ (n > 1 => r \notin Labelled)
      BY <3>1 DEF InPieces
    <3>3. r \in Asked
      BY <3>2
    <3>4. ~PiecesIn(r, t, DOMAIN Messages[r])
      <4> SUFFICES ASSUME NEW m, NEW f, NEW k, FirstPieces(r, t, DOMAIN Messages[r], m, f, k) PROVE FALSE
        BY DEF PiecesIn
      <4>1. m \in Nat /\ k \in 1 .. m - 1 /\ InPieces(r, m, f) /\ DOMAIN Messages[r] = 1 .. k
        BY DEF FirstPieces
      <4>2. DOMAIN Messages[r] = 1 .. m
        BY <4>1 DEF InPieces
      <4>3. m \in 1 .. m /\ m \notin 1 .. k
        BY <4>1
      <4> QED BY <4>1, <4>2, <4>3
    <3>5. WholeIn(r, t)
      BY <2>2, <2>4, <3>3, <3>4 DEF HasOf
    <3> QED BY <2>1, <3>5, WholeReads
  <2> QED BY <2>3, <2>4
<1> QED BY <1>1, BoxHasTheReply, PTL

=============================================================================
