--------------------------- MODULE Subscriptions ---------------------------
(***************************************************************************)
(* Accounts and what they have paid for (subscriptions.ts, accounts.ts):   *)
(* RevenueCat's webhook, the entitlement sync the app asks for after a     *)
(* purchase, and the deletion of an account, over three tables: accounts,  *)
(* subscriptions and the links between them.                               *)
(*                                                                         *)
(* RevenueCat (external) delivers every event at least once: an event it   *)
(* has produced may arrive at any time, any number of times, in any order. *)
(* The gateway's transactions are read committed: a statement finds what is *)
(* committed when it begins, and no foreign key ties a link to its         *)
(* account.  So a webhook, the write of a sync and a deletion each look,   *)
(* then delete and insert links one by one, then commit, with any step of  *)
(* the others between.  A link deleted or inserted is locked until then:   *)
(* another transaction that deletes or inserts it waits.                   *)
(***************************************************************************)
EXTENDS Integers, FiniteSets

CONSTANTS
  Accounts,    \* tokens, each minted at most once
  Purchases,   \* original transaction ids
  Period,      \* how long a purchase or renewal lasts
  MaxNow,      \* the last instant of the model
  MaxUnderWay, \* how many webhooks, syncs and deletions are under way at once
  Nobody

ASSUME SubscriptionAssumption ==
  /\ Period \in Nat \ {0} /\ MaxNow \in Nat /\ MaxUnderWay \in Nat
  /\ Nobody \notin Accounts
  /\ \A a \in Accounts : <<"entitlement", a>> \notin Purchases

VARIABLES
  now,
  status,    \* account -> none, live or gone: the accounts table
  rows,      \* subscription id -> its row of subscriptions
  links,     \* account_subscriptions
  open,      \* the transactions under way, by what they do
  sync,      \* account -> the request that asked RevenueCat about it
  customer,  \* purchase -> who has it and until when, at RevenueCat
  events,    \* every event RevenueCat has produced
  recorded,  \* those the gateway has recorded at least once
  raced      \* links made by a transaction that overlapped their account's deletion
subscriptionsVars == <<now, status, rows, links, open, sync, customer, events, recorded, raced>>

-----------------------------------------------------------------------------
EntitlementId(a) == <<"entitlement", a>>
Ids == Purchases \union {EntitlementId(a) : a \in Accounts}

Instants == 0 .. MaxNow + Period
NoRow == [ends |-> -1, at |-> -1]
RowOf(ends, at) == [ends |-> ends, at |-> at]

NoEnd == -1
NoSync == [pc |-> "idle", ends |-> NoEnd]

SubscriptionEvent(s, named, ends, at) ==
  [type |-> "RENEWAL", id |-> s, named |-> named, ends |-> ends, at |-> at]
TransferEvent(from, to, at) == [type |-> "TRANSFER", from |-> from, to |-> to, at |-> at]

IsTransfer(e) == e.type = "TRANSFER"
EventsOf(s) == {e \in events : ~IsTransfer(e) /\ e.id = s}

Existing(tokens) == {a \in tokens : status[a] = "live"}

SubscriptionsInit ==
  /\ now = 0
  /\ status = [a \in Accounts |-> "none"]
  /\ rows = [i \in Ids |-> NoRow]
  /\ links = {}
  /\ open = <<>>
  /\ sync = [a \in Accounts |-> NoSync]
  /\ customer = [s \in Purchases |-> [owner |-> Nobody, ends |-> 0]]
  /\ events = {} /\ recorded = {} /\ raced = {}

database == <<status, rows, links, open, recorded, raced>>

-----------------------------------------------------------------------------
(* RevenueCat and the stores. *)

Tick == /\ now < MaxNow /\ now' = now + 1
        /\ UNCHANGED <<database, sync, customer, events>>

(* Every change at RevenueCat takes an instant of its own, the event's. *)
Produce(s, owner, ends, e) ==
  /\ now < MaxNow /\ now' = now + 1
  /\ customer' = [customer EXCEPT ![s] = [owner |-> owner, ends |-> ends]]
  /\ events' = events \union {e}
  /\ UNCHANGED <<database, sync>>

Buy(a, s) ==
  /\ status[a] = "live" /\ customer[s].owner \in {Nobody, a} /\ customer[s].ends <= now
  /\ LET ends == now + 1 + Period
     IN  Produce(s, a, ends, SubscriptionEvent(s, {a}, ends, now + 1))

Refund(s) ==
  LET a == customer[s].owner
  IN  /\ a # Nobody /\ customer[s].ends > now
      /\ Produce(s, a, now + 1, SubscriptionEvent(s, {a}, now + 1, now + 1))

(* Restore Purchases on another account: a transfer, or an event with both
   ids as aliases. *)
Restore(b, s) ==
  LET a == customer[s].owner
      ends == customer[s].ends
  IN  /\ status[b] = "live" /\ a \notin {Nobody, b} /\ ends > now
      /\ \/ Produce(s, b, ends, TransferEvent({a}, {b}, now + 1))
         \/ Produce(s, b, ends, SubscriptionEvent(s, {a, b}, ends, now + 1))

Entitled(a) == \E s \in Purchases : customer[s].owner = a /\ customer[s].ends > now

\* What fetchEntitlementEnd is told: the active entitlement's end, or none.
EntitlementEnds(a) ==
  IF Entitled(a)
  THEN CHOOSE end \in {customer[s].ends : s \in {p \in Purchases : customer[p].owner = a}} :
         \A s \in Purchases : customer[s].owner = a => customer[s].ends <= end
  ELSE NoEnd

-----------------------------------------------------------------------------
(* The gateway. *)

CreateAccount(a) ==
  /\ status[a] = "none" /\ status' = [status EXCEPT ![a] = "live"]
  /\ UNCHANGED <<now, rows, links, open, sync, customer, events, recorded, raced>>

(* Transactions.  One is told by what it does; it has links to delete and to
   insert, those it has deleted and inserted, uncommitted, the accounts a
   transfer inserts for, and those deleted while it was under way. *)
Recording(e) == <<"webhook", e>>
Syncing(a) == <<"sync", a>>
Deleting(a) == <<"delete", a>>
Doers == DOMAIN open
UnderWay == Doers \union {Syncing(a) : a \in {b \in Accounts : sync[b].pc # "idle"}}
Room(d) == Cardinality(UnderWay \union {d}) <= MaxUnderWay

Looked(takes, puts, to) ==
  [takes |-> takes, puts |-> puts, taken |-> {}, put |-> {}, to |-> to,
   beside |-> {a \in Accounts : Deleting(a) \in Doers}]

BeginTransaction(d, t) ==
  /\ d \notin Doers /\ Room(d)
  /\ open' = [c \in Doers \union {d} |-> IF c = d THEN t ELSE open[c]]

TakeLink(d, l) ==
  /\ l \in open[d].takes /\ \A c \in Doers \ {d} : l \notin open[c].taken
  /\ open' = [open EXCEPT ![d].takes = @ \ {l}, ![d].taken = @ \union {l},
                          ![d].puts = @ \union {<<a, l[2]>> : a \in open[d].to}]
  /\ UNCHANGED <<now, status, rows, links, sync, customer, events, recorded, raced>>

\* "On conflict do nothing": a link that is there is left, and not locked.
PutLink(d, l) ==
  /\ open[d].takes = {} /\ l \in open[d].puts
  /\ \A c \in Doers \ {d} : l \notin open[c].taken \union open[c].put
  /\ open' = [open EXCEPT ![d].puts = @ \ {l}, ![d].put = @ \union ({l} \ links)]
  /\ UNCHANGED <<now, status, rows, links, sync, customer, events, recorded, raced>>

\* What is committed is seen from here on; a link gone is nobody's to delete.
Commit(d) ==
  LET t == open[d]
  IN  /\ d \in Doers /\ t.takes = {} /\ t.puts = {}
      /\ links' = (links \ t.taken) \union t.put
      /\ raced' = (raced \ t.taken) \union {l \in t.put : l[1] \in t.beside}
      /\ open' = [c \in Doers \ {d} |-> [open[c] EXCEPT !.takes = @ \ t.taken]]

Rollback(d) == d \in Doers /\ open' = [c \in Doers \ {d} |-> open[c]]

(* The webhook.  A transfer takes every link of the accounts it names,
   whatever purchase the link is for; the event names none.  The upsert of
   another event locks its row first. *)
WebhookLooks(e) ==
  /\ \/ /\ IsTransfer(e)
        /\ BeginTransaction(Recording(e),
                 Looked({l \in links : l[1] \in Existing(e.from)}, {}, Existing(e.to)))
     \/ /\ ~IsTransfer(e) /\ \A f \in EventsOf(e.id) : Recording(f) \notin Doers
        /\ BeginTransaction(Recording(e), Looked({}, Existing(e.named) \X {e.id}, {}))
  /\ UNCHANGED <<now, status, rows, links, sync, customer, events, recorded, raced>>

BadUpsertSubscription(e) == rows' = [rows EXCEPT ![e.id] = RowOf(e.ends, e.at)]

UpsertSubscription(e) ==
  rows' = IF e.at >= rows[e.id].at THEN [rows EXCEPT ![e.id] = RowOf(e.ends, e.at)] ELSE rows

Webhook(e) ==
  /\ Commit(Recording(e))
  /\ IF IsTransfer(e) THEN UNCHANGED rows ELSE UpsertSubscription(e)
  /\ recorded' = recorded \union {e}
  /\ UNCHANGED <<now, status, sync, customer, events>>

WebhookFails(e) ==
  /\ Rollback(Recording(e))
  /\ UNCHANGED <<now, status, rows, links, sync, customer, events, recorded, raced>>

(* POST /account/subscription/sync: the account is looked up, RevenueCat is
   asked, and the answer is written when it comes, to the account if it is
   still found.  Either may fail.  now() is when the transaction began;
   no statement orders a sync's row by its event_at, which is left out. *)
SyncFetch(a) ==
  /\ status[a] = "live" /\ sync[a].pc = "idle" /\ Room(Syncing(a))
  /\ sync' = [sync EXCEPT ![a] = [pc |-> "fetched", ends |-> EntitlementEnds(a)]]
  /\ UNCHANGED <<now, database, customer, events>>

SyncWrites(a) ==
  /\ BeginTransaction(Syncing(a), Looked({}, {<<a, EntitlementId(a)>>}, {}))
  /\ sync' = [sync EXCEPT ![a] = [pc |-> "writing",
                                  ends |-> IF @.ends = NoEnd THEN now ELSE @.ends]]

BadRecordEntitlementSync(a) ==
  /\ sync[a].pc = "fetched" /\ SyncWrites(a)
  /\ UNCHANGED <<now, status, rows, links, customer, events, recorded, raced>>

RecordEntitlementSync(a) ==
  /\ sync[a].pc = "fetched"
  /\ \/ status[a] = "live" /\ SyncWrites(a)
     \/ status[a] # "live" /\ sync' = [sync EXCEPT ![a] = NoSync] /\ UNCHANGED open
  /\ UNCHANGED <<now, status, rows, links, customer, events, recorded, raced>>

BadUpsertEntitlement(a) ==
  LET id == EntitlementId(a)
  IN  rows' = IF rows[id] = NoRow THEN [rows EXCEPT ![id].ends = sync[a].ends] ELSE rows

UpsertEntitlement(a) == rows' = [rows EXCEPT ![EntitlementId(a)].ends = sync[a].ends]

SyncCommit(a) ==
  /\ sync[a].pc = "writing"
  /\ Commit(Syncing(a)) /\ UpsertEntitlement(a)
  /\ sync' = [sync EXCEPT ![a] = NoSync]
  /\ UNCHANGED <<now, status, customer, events, recorded>>

SyncFails(a) ==
  /\ \/ sync[a].pc = "fetched" /\ UNCHANGED open
     \/ sync[a].pc = "writing" /\ Rollback(Syncing(a))
  /\ sync' = [sync EXCEPT ![a] = NoSync]
  /\ UNCHANGED <<now, status, rows, links, customer, events, recorded, raced>>

(* Deletion of an account, one at a time of each. *)
BeginDelete(a, found) ==
  /\ status[a] = "live" /\ Deleting(a) \notin Doers /\ Room(Deleting(a))
  /\ open' = [c \in Doers \union {Deleting(a)} |->
                IF c = Deleting(a) THEN Looked(found, {}, {})
                ELSE [open[c] EXCEPT !.beside = @ \union {a}]]
  /\ UNCHANGED <<now, status, rows, links, sync, customer, events, recorded, raced>>

BadDeleteLinks(a) == BeginDelete(a, {l \in links : l[1] = a /\ rows[l[2]].ends > now})

DeleteLinks(a) == BeginDelete(a, {l \in links : l[1] = a})

DeleteCommit(a) ==
  /\ Commit(Deleting(a))
  /\ status' = [status EXCEPT ![a] = "gone"]
  /\ UNCHANGED <<now, rows, sync, customer, events, recorded>>

\* A deletion rolled back has deleted nothing for others to have overlapped.
DeleteRollback(a) ==
  /\ Deleting(a) \in Doers
  /\ open' = [c \in Doers \ {Deleting(a)} |-> [open[c] EXCEPT !.beside = @ \ {a}]]
  /\ raced' = {l \in raced : l[1] # a}
  /\ UNCHANGED <<now, status, rows, links, sync, customer, events, recorded>>

(* The migrations a starting instance runs sweep out links without an
   account. *)
SweepLinks ==
  LET swept == {l \in links : status[l[1]] # "live"}
  IN  /\ \A c \in Doers : open[c].taken \intersect swept = {}
      /\ links' = links \ swept /\ raced' = raced \ swept
      /\ open' = [c \in Doers |-> [open[c] EXCEPT !.takes = @ \ swept]]
      /\ UNCHANGED <<now, status, rows, sync, customer, events, recorded>>

SubscriptionsNext ==
  \/ Tick \/ SweepLinks
  \/ \E s \in Purchases : Refund(s) \/ \E a \in Accounts : Buy(a, s) \/ Restore(a, s)
  \/ \E e \in events : WebhookLooks(e) \/ Webhook(e) \/ WebhookFails(e)
  \/ \E d \in Doers : \E l \in open[d].takes \union open[d].puts : TakeLink(d, l) \/ PutLink(d, l)
  \/ \E a \in Accounts :
       \/ CreateAccount(a)
       \/ SyncFetch(a) \/ RecordEntitlementSync(a) \/ SyncCommit(a) \/ SyncFails(a)
       \/ DeleteLinks(a) \/ DeleteCommit(a) \/ DeleteRollback(a)

SubscriptionsSpec == SubscriptionsInit /\ [][SubscriptionsNext]_subscriptionsVars

-----------------------------------------------------------------------------
\* What the quota reads (quota.ts, quotaStatus).
Subscribed(a) ==
  status[a] = "live" /\ \E i \in Ids : <<a, i>> \in links /\ rows[i].ends > now

(***************************************************************************)
(* However RevenueCat's events about a purchase arrive, repeated, late or  *)
(* the wrong way round, once each has been recorded the row ends when the  *)
(* purchase does: no refund is undone by the purchase that came after it   *)
(* on the wire ("a delayed older event cannot overwrite a newer one").     *)
(***************************************************************************)
Converged ==
  \A s \in Purchases :
    EventsOf(s) # {} /\ EventsOf(s) \subseteq recorded => rows[s].ends = customer[s].ends

(***************************************************************************)
(* No account goes and leaves a link, but for one put in by a transaction  *)
(* that its deletion overlapped: a webhook or a sync that found the        *)
(* account before the deletion committed, and had not committed when the   *)
(* deletion looked for links.  Such a link may be made after the account   *)
(* is gone; no other is, however often events and syncs are repeated, and  *)
(* whatever deletions failed before.                                       *)
(***************************************************************************)
OrphanOnlyByRace == \A l \in links : status[l[1]] = "live" \/ l \in raced

(***************************************************************************)
(* A sync answers for the times no webhook will: committed while what it   *)
(* was told still holds, it leaves a paying account subscribed, whatever   *)
(* links events moved or took before it wrote and whatever an earlier sync *)
(* has written; unless the link was there when it wrote, so that it left   *)
(* it be, and a transfer has taken it since.                               *)
(***************************************************************************)
SyncServesTheEntitled ==
  [][\A a \in Accounts :
       (/\ SyncCommit(a) /\ status[a] = "live" /\ sync[a].ends = EntitlementEnds(a) /\ Entitled(a)
        /\ <<a, EntitlementId(a)>> \in links \union open[Syncing(a)].put)
         => Subscribed(a)']_subscriptionsVars

(***************************************************************************)
(* "Idempotent: the same event twice leaves the same rows"                 *)
(* (subscriptions.ts:68-69), here an event about a subscription, while     *)
(* nobody has deleted an account.                                          *)
(***************************************************************************)
RedeliveryChangesNothing ==
  [][\A e \in recorded :
       Webhook(e) /\ ~IsTransfer(e) /\ (\A a \in Accounts : status[a] # "gone")
         => UNCHANGED <<rows, links>>]_subscriptionsVars

=============================================================================
