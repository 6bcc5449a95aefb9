------------------------------ MODULE SlotRing ------------------------------
(***************************************************************************)
(* The app's request store (mobile/cache.ts): a ring of slots keyed by the *)
(* code a request carries and its reply echoes.  A reply says nothing else *)
(* of what was asked, so a slot that is lost, or given to another request  *)
(* too soon, makes a reply unreadable or readable as something it is not.  *)
(*                                                                         *)
(* Every operation reads the whole store from storage, waits, changes what *)
(* it read and writes it all back; operations of the screen overlap at     *)
(* that wait.  Storage answers in the order it was asked.                  *)
(***************************************************************************)
EXTENDS Integers, Sequences, FiniteSets

CONSTANTS
  CodeSpace,    \* codes of the ring (128)
  MaxRequests,  \* bound on the requests made
  Avalanche,    \* the requests that are for an avalanche bulletin
  Operations,   \* operations of the app that may be under way at once
  NoOp

ASSUME RingAssumption ==
  /\ CodeSpace \in Nat \ {0} /\ MaxRequests \in Nat
  /\ Avalanche \subseteq 1 .. MaxRequests
  /\ NoOp \notin {"alloc", "decode", "attach", "prune", "delete"}

Requests == 1 .. MaxRequests
Codes == 0 .. CodeSpace - 1
NoRequest == 0

EmptySlot == [req |-> NoRequest, reply |-> NoRequest]
EmptyStore == [nextCode |-> 0, slots |-> [c \in Codes |-> EmptySlot]]

VARIABLES
  storage,    \* the store as persisted
  memo,       \* its mirror in memory, from which replies are decoded
  op,         \* operation -> what it is about to do, and the store it has read
  sent,       \* the code each request went out with
  models,     \* the avalanche model has loaded
  retired,    \* requests whose reply this build of the app no longer decodes
  disturbed   \* a write has failed, or undone one it had not read
ringVars == <<storage, memo, op, sent, models, retired, disturbed>>

Idle == [do |-> NoOp, code |-> 0, reply |-> NoRequest, read |-> EmptyStore]

RingInit ==
  /\ storage = EmptyStore /\ memo = EmptyStore
  /\ op = [o \in Operations |-> Idle]
  /\ sent = <<>>
  /\ models = FALSE /\ retired = {} /\ disturbed = FALSE

Made == DOMAIN sent

-----------------------------------------------------------------------------
(* loadStore: a read that fails leaves what is in memory. *)
Begin(o, do, code, reply) ==
  /\ op[o] = Idle
  /\ \E read \in {storage, memo} :
       op' = [op EXCEPT ![o] = [do |-> do, code |-> code, reply |-> reply, read |-> read]]
  /\ UNCHANGED <<storage, memo, sent, models, retired, disturbed>>

End(o) == op' = [op EXCEPT ![o] = Idle]

(* persist: the mirror is replaced and the whole store written; a write that
   fails is ignored. *)
Persist(o, store) ==
  /\ memo' = store
  /\ \/ storage' = store /\ disturbed' = (disturbed \/ op[o].read # storage)
     \/ UNCHANGED storage /\ disturbed' = TRUE

ReadOnly(o) == memo' = op[o].read /\ UNCHANGED <<storage, disturbed>>

(* prepareMessage, allocCode: the next code, evicting the slot that has it. *)
AllocCode(o) ==
  LET store == op[o].read
      code  == store.nextCode % CodeSpace
      r     == Len(sent) + 1
  IN  /\ op[o].do = "alloc" /\ r <= MaxRequests
      /\ Persist(o, [nextCode |-> (code + 1) % CodeSpace,
                     slots |-> [store.slots EXCEPT ![code] = [req |-> r, reply |-> NoRequest]]])
      /\ sent' = Append(sent, code)
      /\ End(o) /\ UNCHANGED <<models, retired>>

(* Under another request's context a reply may decode too, as garbage. *)
MayDecode(slot, r) == slot.req # NoRequest /\ r \notin retired /\ (slot.req \in Avalanche => models)
MustDecode(slot, r) == MayDecode(slot, r) /\ slot.req = r

(* The decode effect of the screen: the reply is read under the context its
   code names now, and if it decodes it is attached, reading the store anew. *)
Decode(o) ==
  LET r    == op[o].reply
      slot == op[o].read.slots[sent[r]]
  IN  /\ op[o].do = "decode" /\ ReadOnly(o)
      /\ \/ /\ MayDecode(slot, r)
            /\ op' = [op EXCEPT ![o] = [do |-> "attach", code |-> sent[r], reply |-> r, read |-> storage]]
         \/ ~MustDecode(slot, r) /\ End(o)
      /\ UNCHANGED <<sent, models, retired>>

AttachResponse(o) ==
  LET store == op[o].read
      code  == op[o].code
  IN  /\ op[o].do = "attach"
      /\ IF store.slots[code] = EmptySlot THEN ReadOnly(o)
         ELSE Persist(o, [store EXCEPT !.slots[code].reply = op[o].reply])
      /\ End(o) /\ UNCHANGED <<sent, models, retired>>

BadUndecodable(slot) == slot.reply # NoRequest /\ ~MayDecode(slot, slot.reply)

(* A response that no longer decodes is dropped with its slot; an avalanche
   one is left alone until the model has loaded. *)
Undecodable(slot) ==
  /\ slot.reply # NoRequest
  /\ ~(slot.req \in Avalanche /\ ~models)
  /\ ~MayDecode(slot, slot.reply)

PrunePastForecasts(o) ==
  LET store == op[o].read
      gone  == {c \in Codes : Undecodable(store.slots[c])}
  IN  /\ op[o].do = "prune"
      /\ IF gone = {} THEN ReadOnly(o)
         ELSE Persist(o, [store EXCEPT !.slots = [c \in Codes |-> IF c \in gone THEN EmptySlot ELSE @[c]]])
      /\ End(o) /\ UNCHANGED <<sent, models, retired>>

(* Only the response goes: pasting the reply again has to decode. *)
DeleteResponses(o) ==
  LET store == op[o].read
  IN  /\ op[o].do = "delete"
      /\ Persist(o, [store EXCEPT !.slots[op[o].code].reply = NoRequest])
      /\ End(o) /\ UNCHANGED <<sent, models, retired>>

LoadModels == /\ ~models /\ models' = TRUE
              /\ UNCHANGED <<storage, memo, op, sent, retired, disturbed>>

(* The app is killed and started again, perhaps as a build that reads none
   of the replies there are. *)
Restart ==
  /\ op' = [o \in Operations |-> Idle] /\ memo' = storage /\ models' = FALSE
  /\ retired' \in {retired, Made}
  /\ UNCHANGED <<storage, sent, disturbed>>

RingNext ==
  \/ LoadModels \/ Restart
  \/ \E o \in Operations :
       \/ Len(sent) < MaxRequests /\ Begin(o, "alloc", 0, NoRequest)
       \/ \E r \in Made : Begin(o, "decode", 0, r)
       \/ Begin(o, "prune", 0, NoRequest)
       \/ \E c \in Codes : storage.slots[c].reply # NoRequest /\ Begin(o, "delete", c, NoRequest)
       \/ AllocCode(o) \/ Decode(o) \/ AttachResponse(o) \/ PrunePastForecasts(o) \/ DeleteResponses(o)

RingSpec == RingInit /\ [][RingNext]_ringVars

-----------------------------------------------------------------------------
(***************************************************************************)
(* A request's context is under its code until the ring has come round to  *)
(* it: while no write failed or crossed another, nothing the screen does   *)
(* (pastes of old replies, deletions, prunings while a model is still      *)
(* loading, restarts) takes it away, so that its reply can still be read,  *)
(* by a build that reads it at all.                                        *)
(***************************************************************************)
RequestKept ==
  ~disturbed => \A r \in Made \ retired :
    Len(sent) - r < CodeSpace => storage.slots[sent[r]].req = r

(***************************************************************************)
(* "Every send path goes through here so each outgoing request gets its    *)
(* own code" (HomeScreen.tsx), until the ring comes round.                 *)
(***************************************************************************)
OwnCode == \A r, s \in Made : r < s /\ s - r < CodeSpace => sent[r] # sent[s]

=============================================================================
