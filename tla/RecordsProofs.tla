---------------------------- MODULE RecordsProofs ----------------------------
(***************************************************************************)
(* What holds of the records the gateway keeps beside the pipeline, for    *)
(* every number of accounts, purchases, events, deliveries and handlers:   *)
(* the subscriptions and their links, and the delivery receipts.           *)
(***************************************************************************)
EXTENDS Subscriptions, Receipts, WellFoundedInduction, TLAPS

(***************************************************************************)
(* A nonempty set of naturals has a least member; so one with a bound has  *)
(* a greatest.                                                             *)
(***************************************************************************)
LEMMA LeastNatural ==
  ASSUME NEW S \in SUBSET Nat, S # {}
  PROVE  \E n \in S : \A m \in S : n <= m
<1> DEFINE R == OpToRel(<, Nat)
<1>1. IsWellFoundedOn(R, Nat)
  BY NatLessThanWellFounded
<1>2. \A x, y \in Nat : <<y, x>> \in R <=> y < x
  BY DEF OpToRel
<1> HIDE DEF R
<1>3. PICK n \in S : \A m \in S : ~(<<m, n>> \in R)
  BY <1>1, WFMin
<1>4. ASSUME NEW m \in S PROVE n <= m
  <2>1. n \in Nat /\ m \in Nat
    OBVIOUS
  <2>2. ~(m < n)
    BY <1>2, <1>3, <2>1
  <2>3. QED
    BY <2>1, <2>2
<1>5. QED
  BY <1>4

LEMMA GreatestBelow ==
  ASSUME NEW bound \in Nat, NEW S \in SUBSET (0 .. bound), S # {}
  PROVE  \E n \in S : \A m \in S : m <= n
<1> DEFINE Gaps == {bound - m : m \in S}
<1>1. Gaps \in SUBSET Nat /\ Gaps # {}
  <2>1. \A m \in S : bound - m \in Nat
    OBVIOUS
  <2>2. QED
    BY <2>1
<1>2. PICK gap \in Gaps : \A g \in Gaps : gap <= g
  BY <1>1, LeastNatural
<1>3. PICK n \in S : gap = bound - n
  OBVIOUS
<1>4. ASSUME NEW m \in S PROVE m <= n
  <2>1. bound - n <= bound - m
    BY <1>2, <1>3
  <2>2. QED
    BY <2>1
<1>5. QED
  BY <1>4

----------------------------------------------------------------------------
(***************************************************************************)
(* Subscriptions.                                                          *)
(***************************************************************************)
SubscriptionEvents == [type : {"RENEWAL"}, id : Purchases, named : SUBSET Accounts,
                       ends : Instants, at : Nat]
TransferEvents == [type : {"TRANSFER"}, from : SUBSET Accounts, to : SUBSET Accounts, at : Nat]

AllLinks == Accounts \X Ids
Transactions == [takes : SUBSET AllLinks, puts : SUBSET AllLinks, taken : SUBSET AllLinks,
                 put : SUBSET AllLinks, to : SUBSET Accounts, beside : SUBSET Accounts]

SubscriptionsTypeOK ==
  /\ now \in 0 .. MaxNow
  /\ status \in [Accounts -> {"none", "live", "gone"}]
  /\ rows \in [Ids -> [ends : Int, at : Int]]
  /\ links \subseteq AllLinks
  /\ open \in [Doers -> Transactions]
  /\ sync \in [Accounts -> [pc : {"idle", "fetched", "writing"}, ends : Int]]
  /\ customer \in [Purchases -> [owner : Accounts \union {Nobody}, ends : Instants]]
  /\ events \subseteq SubscriptionEvents \union TransferEvents
  /\ recorded \subseteq events

(***************************************************************************)
(* The strengthening.  RevenueCat's latest event about a purchase says     *)
(* when it ends there, and carries the time the row is ordered by ...      *)
(***************************************************************************)
LatestTells ==
  \A s \in Purchases : \A e \in EventsOf(s) :
    /\ e.at \in 1 .. now
    /\ (\A f \in EventsOf(s) : f.at <= e.at) => e.ends = customer[s].ends

\* ... and the row is what the latest event recorded of it says.
RowIsLatestRecorded ==
  \A s \in Purchases :
    /\ \A e \in EventsOf(s) \intersect recorded : e.at <= rows[s].at
    /\ \/ rows[s] = NoRow
       \/ \E e \in EventsOf(s) \intersect recorded : rows[s] = RowOf(e.ends, e.at)

(***************************************************************************)
(* A sync deletes no link and a deletion inserts none.  Every transaction  *)
(* knows the deletions it has run beside, and the accounts it inserts      *)
(* links for, once live, are live still or among those.  A deletion has    *)
(* every link of its account, to delete or deleted, but for those made by  *)
(* a transaction it overlapped.                                            *)
(***************************************************************************)
KindsOfTransactions ==
  \A a \in Accounts :
    /\ Syncing(a) \in Doers => open[Syncing(a)].takes = {} /\ open[Syncing(a)].taken = {}
                               /\ open[Syncing(a)].to = {}
    /\ Deleting(a) \in Doers => open[Deleting(a)].puts = {} /\ open[Deleting(a)].put = {}
                                /\ open[Deleting(a)].to = {}

InsertsFor(t) == t.to \union {l[1] : l \in t.puts \union t.put}

FoundOrBeside ==
  \A d \in Doers :
    /\ \A a \in InsertsFor(open[d]) : status[a] = "live" \/ a \in open[d].beside
    /\ \A a \in Accounts : Deleting(a) \in Doers /\ d # Deleting(a) => a \in open[d].beside

DeletionHasLinks ==
  \A a \in Accounts : Deleting(a) \in Doers =>
    /\ status[a] = "live"
    /\ \A l \in links : l[1] = a =>
         l \in open[Deleting(a)].takes \union open[Deleting(a)].taken \union raced

LinksInv == /\ KindsOfTransactions /\ FoundOrBeside
            /\ DeletionHasLinks /\ OrphanOnlyByRace

SubscriptionsInv == /\ SubscriptionsTypeOK
                    /\ LatestTells /\ RowIsLatestRecorded
                    /\ LinksInv

LEMMA SubscriptionsInitInv == SubscriptionsInit => SubscriptionsInv
<1> SUFFICES ASSUME SubscriptionsInit PROVE SubscriptionsInv
  OBVIOUS
<1> USE DEF SubscriptionsInit
<1>1. SubscriptionsTypeOK
  BY SubscriptionAssumption DEF SubscriptionsTypeOK, NoRow, NoSync, NoEnd, Instants, Doers, AllLinks
<1>2. LatestTells /\ RowIsLatestRecorded
  BY DEF LatestTells, RowIsLatestRecorded, EventsOf, Ids
<1>3. LinksInv
  <2>1. Doers = {}
    BY DEF Doers
  <2>2. QED
    BY <2>1 DEF LinksInv, KindsOfTransactions, FoundOrBeside, DeletionHasLinks, OrphanOnlyByRace
<1>4. QED
  BY <1>1, <1>2, <1>3 DEF SubscriptionsInv

\* What an event says, by its kind.
LEMMA EventSays ==
  ASSUME SubscriptionsTypeOK, NEW e \in events
  PROVE  /\ IsTransfer(e) => e.from \subseteq Accounts /\ e.to \subseteq Accounts
         /\ ~IsTransfer(e) => /\ e.id \in Purchases /\ e.named \subseteq Accounts
                              /\ e.ends \in Instants /\ e.at \in Nat
  BY DEF SubscriptionsTypeOK, SubscriptionEvents, TransferEvents, IsTransfer

(***************************************************************************)
(* RevenueCat.  Whatever happens there, happens at an instant of its own   *)
(* and is told by an event: with the end it sets, unless it sets none.     *)
(***************************************************************************)
LEMMA ProducedIsTold ==
  ASSUME SubscriptionsInv, NEW s \in Purchases,
         Refund(s) \/ \E a \in Accounts : Buy(a, s) \/ Restore(a, s)
  PROVE  \E owner \in Accounts, ends \in Instants, e \in SubscriptionEvents \union TransferEvents :
            /\ Produce(s, owner, ends, e)
            /\ IsTransfer(e) => ends = customer[s].ends
            /\ ~IsTransfer(e) => e.id = s /\ e.ends = ends /\ e.at = now + 1
<1> USE DEF SubscriptionsInv, SubscriptionsTypeOK, SubscriptionEvents, TransferEvents, Instants,
            SubscriptionEvent, TransferEvent, IsTransfer
<1>1. MaxNow \in Nat /\ Period \in Nat
  BY SubscriptionAssumption
<1>2. now + 1 \in Nat
  BY <1>1
<1>3. CASE Refund(s)
  <2> DEFINE a == customer[s].owner
             e == SubscriptionEvent(s, {a}, now + 1, now + 1)
  <2>1. a \in Accounts /\ Produce(s, a, now + 1, e) /\ now < MaxNow
    BY <1>3 DEF Refund, Produce
  <2>2. now + 1 \in Instants
    BY <1>1, <2>1
  <2>3. e \in SubscriptionEvents /\ ~IsTransfer(e) /\ e.id = s /\ e.ends = now + 1 /\ e.at = now + 1
    BY <1>2, <2>1, <2>2
  <2>4. QED
    BY <2>1, <2>2, <2>3
<1>4. CASE \E a \in Accounts : Buy(a, s)
  <2> DEFINE ends == now + 1 + Period
  <2>1. PICK a \in Accounts : Buy(a, s)
    BY <1>4
  <2> DEFINE e == SubscriptionEvent(s, {a}, ends, now + 1)
  <2>2. Produce(s, a, ends, e) /\ now < MaxNow
    BY <2>1 DEF Buy, Produce
  <2>3. ends \in Instants
    BY <1>1, <2>2
  <2>4. e \in SubscriptionEvents /\ ~IsTransfer(e) /\ e.id = s /\ e.ends = ends /\ e.at = now + 1
    BY <1>2, <2>3
  <2>5. QED
    BY <2>2, <2>3, <2>4
<1>5. CASE \E b \in Accounts : Restore(b, s)
  <2>1. PICK b \in Accounts : Restore(b, s)
    BY <1>5
  <2> DEFINE a == customer[s].owner
             ends == customer[s].ends
             move == TransferEvent({a}, {b}, now + 1)
             e == SubscriptionEvent(s, {a, b}, ends, now + 1)
  <2>2. a \in Accounts /\ ends \in Instants
    BY <2>1 DEF Restore
  <2>3. Produce(s, b, ends, move) \/ Produce(s, b, ends, e)
    BY <2>1 DEF Restore
  <2>4. move \in TransferEvents /\ IsTransfer(move)
    BY <1>2, <2>2
  <2>5. e \in SubscriptionEvents /\ ~IsTransfer(e) /\ e.id = s /\ e.ends = ends /\ e.at = now + 1
    BY <1>2, <2>2
  <2>6. QED
    BY <2>2, <2>3, <2>4, <2>5
<1>6. QED
  BY <1>3, <1>4, <1>5

\* Links and accounts unchanged, or more accounts live.
LEMMA LinksAlone ==
  ASSUME LinksInv, UNCHANGED <<links, open, raced>>,
         \A a \in Accounts : status[a] = "live" => status'[a] = "live",
         SubscriptionsTypeOK
  PROVE  LinksInv'
<1>1. KindsOfTransactions'
  BY DEF LinksInv, KindsOfTransactions, Doers
<1>2. FoundOrBeside'
  <2>1. \A d \in Doers : InsertsFor(open[d]) \subseteq Accounts
    BY DEF SubscriptionsTypeOK, Transactions, AllLinks, InsertsFor
  <2>2. QED
    BY <2>1 DEF LinksInv, FoundOrBeside, Doers
<1>3. DeletionHasLinks' /\ OrphanOnlyByRace'
  BY DEF LinksInv, SubscriptionsTypeOK, AllLinks, DeletionHasLinks, OrphanOnlyByRace, Doers
<1>4. QED
  BY <1>1, <1>2, <1>3 DEF LinksInv

LEMMA RevenueCatInv ==
  ASSUME SubscriptionsInv, NEW s \in Purchases,
         Refund(s) \/ \E a \in Accounts : Buy(a, s) \/ Restore(a, s)
  PROVE  SubscriptionsInv'
<1>1. PICK owner \in Accounts, ends \in Instants, e \in SubscriptionEvents \union TransferEvents :
         /\ Produce(s, owner, ends, e)
         /\ IsTransfer(e) => ends = customer[s].ends
         /\ ~IsTransfer(e) => e.id = s /\ e.ends = ends /\ e.at = now + 1
  BY ProducedIsTold
<1>2. /\ now < MaxNow /\ now' = now + 1
      /\ customer' = [customer EXCEPT ![s] = [owner |-> owner, ends |-> ends]]
      /\ events' = events \union {e}
      /\ UNCHANGED <<status, rows, links, open, recorded, raced, sync>>
  BY <1>1 DEF Produce, database
<1>3. SubscriptionsTypeOK'
  BY <1>2, SubscriptionAssumption DEF SubscriptionsInv, SubscriptionsTypeOK, Doers
<1>4. ASSUME NEW t \in Purchases
      PROVE  EventsOf(t)' = EventsOf(t) \union (IF ~IsTransfer(e) /\ t = s THEN {e} ELSE {})
  BY <1>1, <1>2 DEF EventsOf
<1>5. LatestTells'
  <2> SUFFICES ASSUME NEW t \in Purchases, NEW d \in EventsOf(t)'
               PROVE  /\ d.at \in 1 .. now'
                      /\ (\A f \in EventsOf(t)' : f.at <= d.at) => d.ends = customer'[t].ends
    BY DEF LatestTells
  <2>1. now \in Nat /\ \A f \in EventsOf(t) : f.at \in 1 .. now
    BY DEF SubscriptionsInv, SubscriptionsTypeOK, LatestTells
  <2>2. customer'[t].ends = IF t = s THEN ends ELSE customer[t].ends
    BY <1>2 DEF SubscriptionsInv, SubscriptionsTypeOK
  <2>3. CASE ~IsTransfer(e) /\ t = s
    <3>1. EventsOf(t)' = EventsOf(t) \union {e} /\ e.at = now + 1 /\ e.ends = customer'[t].ends
      BY <1>1, <1>4, <2>2, <2>3
    <3>2. CASE d = e
      BY <1>2, <2>1, <3>1, <3>2
    <3>3. CASE d \in EventsOf(t)
      BY <1>2, <2>1, <3>1, <3>3
    <3>4. QED
      BY <3>1, <3>2, <3>3
  <2>4. CASE IsTransfer(e) \/ t # s
    <3>1. EventsOf(t)' = EventsOf(t) /\ customer'[t].ends = customer[t].ends
      BY <1>1, <1>4, <2>2, <2>4
    <3>2. QED
      BY <1>2, <2>1, <3>1 DEF SubscriptionsInv, LatestTells
  <2>5. QED
    BY <2>3, <2>4
<1>6. RowIsLatestRecorded'
  <2>1. CASE e \in events
    <3>1. \A t \in Purchases : EventsOf(t)' = EventsOf(t)
      BY <1>2, <2>1 DEF EventsOf
    <3>2. QED
      BY <1>2, <3>1 DEF SubscriptionsInv, RowIsLatestRecorded
  <2>2. CASE e \notin events
    <3>1. \A t \in Purchases : EventsOf(t)' \intersect recorded' = EventsOf(t) \intersect recorded
      BY <1>2, <1>4, <2>2 DEF SubscriptionsInv, SubscriptionsTypeOK
    <3>2. QED
      BY <1>2, <3>1 DEF SubscriptionsInv, RowIsLatestRecorded
  <2>3. QED
    BY <2>1, <2>2
<1>7. LinksInv'
  BY <1>2, LinksAlone DEF SubscriptionsInv
<1>8. QED
  BY <1>3, <1>5, <1>6, <1>7 DEF SubscriptionsInv

\* What RevenueCat says an account is entitled to: the last end of its purchases.
LEMMA EntitlementEndsType ==
  ASSUME SubscriptionsTypeOK, NEW a \in Accounts
  PROVE  /\ EntitlementEnds(a) \in Int
         /\ Entitled(a) => EntitlementEnds(a) > now
<1> DEFINE Ends == {customer[s].ends : s \in {p \in Purchases : customer[p].owner = a}}
<1>1. CASE ~Entitled(a)
  BY <1>1 DEF EntitlementEnds, NoEnd
<1>2. CASE Entitled(a)
  <2>1. PICK s \in Purchases : customer[s].owner = a /\ customer[s].ends > now
    BY <1>2 DEF Entitled
  <2>2. Ends \in SUBSET Instants /\ customer[s].ends \in Ends /\ now \in Nat
    BY <2>1 DEF SubscriptionsTypeOK
  <2>3. \E end \in Ends : \A m \in Ends : m <= end
    <3> HIDE DEF Ends
    <3>1. MaxNow + Period \in Nat
      BY SubscriptionAssumption
    <3>2. Ends \in SUBSET (0 .. MaxNow + Period) /\ Ends # {}
      BY <2>2 DEF Instants
    <3>3. QED
      BY <3>1, <3>2, GreatestBelow
  <2>4. EntitlementEnds(a) = CHOOSE end \in Ends :
                                \A p \in Purchases : customer[p].owner = a => customer[p].ends <= end
    BY <1>2 DEF EntitlementEnds
  <2>5. \E end \in Ends : \A p \in Purchases : customer[p].owner = a => customer[p].ends <= end
    BY <2>3
  <2>6. /\ EntitlementEnds(a) \in Ends
        /\ customer[s].ends <= EntitlementEnds(a)
    BY <2>1, <2>4, <2>5
  <2>7. EntitlementEnds(a) \in Int /\ customer[s].ends \in Int
    <3>1. EntitlementEnds(a) \in Instants /\ customer[s].ends \in Instants
      BY <2>2, <2>6
    <3>2. Instants \subseteq Int
      BY SubscriptionAssumption DEF Instants
    <3>3. QED
      BY <3>1, <3>2
  <2>8. QED
    BY <2>1, <2>2, <2>6, <2>7
<1>3. QED
  BY <1>1, <1>2

----------------------------------------------------------------------------
(***************************************************************************)
(* The gateway.  What it does to its tables changes nothing at RevenueCat. *)
(***************************************************************************)
\* A step that leaves the purchases' rows and what is recorded of them alone.
LEMMA RowsAlone ==
  ASSUME SubscriptionsInv, UNCHANGED <<now, customer, events, recorded>>,
         \A s \in Purchases : rows'[s] = rows[s]
  PROVE  LatestTells' /\ RowIsLatestRecorded'
  BY DEF SubscriptionsInv, LatestTells, RowIsLatestRecorded, EventsOf

\* A transaction is what it does, and does one thing.
LEMMA DoersApart ==
  /\ \A a, b \in Accounts : (Syncing(a) = Syncing(b) => a = b) /\ (Deleting(a) = Deleting(b) => a = b)
  /\ \A a, b \in Accounts : Syncing(a) # Deleting(b)
  /\ \A a \in Accounts, e \in events : Recording(e) # Syncing(a) /\ Recording(e) # Deleting(a)
  BY DEF Syncing, Deleting, Recording

\* A transaction that inserts links begins by finding the accounts they are for.
LEMMA BeginKeeps ==
  ASSUME SubscriptionsTypeOK, LinksInv,
         NEW d, NEW takes \in SUBSET AllLinks, NEW puts \in SUBSET AllLinks, NEW to \in SUBSET Accounts,
         BeginTransaction(d, Looked(takes, puts, to)), UNCHANGED <<status, links, raced>>,
         \A a \in Accounts : d # Deleting(a) /\ (d = Syncing(a) => takes = {} /\ to = {}),
         \A a \in to : status[a] = "live", \A l \in puts : status[l[1]] = "live"
  PROVE  open' \in [DOMAIN open' -> Transactions] /\ LinksInv'
<1> DEFINE t == Looked(takes, puts, to)
<1>1. /\ d \notin Doers
      /\ open' = [c \in Doers \union {d} |-> IF c = d THEN t ELSE open[c]]
  BY DEF BeginTransaction
<1>2. /\ t.takes = takes /\ t.puts = puts /\ t.to = to /\ t.taken = {} /\ t.put = {}
      /\ t.beside = {a \in Accounts : Deleting(a) \in Doers}
      /\ t \in Transactions
  BY DEF Looked, Transactions
<1> HIDE DEF t
<1>3. /\ Doers' = Doers \union {d} /\ open'[d] = t
      /\ \A c \in Doers : open'[c] = open[c] /\ c # d
  BY <1>1 DEF Doers
<1>4. open' \in [DOMAIN open' -> Transactions]
  BY <1>1, <1>2 DEF SubscriptionsTypeOK, Doers
<1>5. KindsOfTransactions'
  BY <1>2, <1>3 DEF LinksInv, KindsOfTransactions
<1>6. FoundOrBeside'
  <2>1. \A a \in InsertsFor(t) : status[a] = "live"
    BY <1>2 DEF InsertsFor
  <2>2. \A a \in Accounts : Deleting(a) \in Doers' => Deleting(a) \in Doers
    BY <1>3
  <2>3. QED
    BY <1>2, <1>3, <2>1, <2>2 DEF LinksInv, FoundOrBeside
<1>7. DeletionHasLinks'
  BY <1>3 DEF LinksInv, DeletionHasLinks
<1>8. OrphanOnlyByRace'
  BY DEF LinksInv, OrphanOnlyByRace
<1>9. QED
  BY <1>4, <1>5, <1>6, <1>7, <1>8 DEF LinksInv

\* A link deleted or inserted, uncommitted.
LEMMA LinkStepInv ==
  ASSUME SubscriptionsInv, NEW d \in Doers, NEW l \in open[d].takes \union open[d].puts,
         TakeLink(d, l) \/ PutLink(d, l)
  PROVE  SubscriptionsInv'
<1> USE DEF SubscriptionsInv
<1>1. UNCHANGED <<now, status, rows, links, sync, customer, events, recorded, raced>>
  BY DEF TakeLink, PutLink
<1>2. /\ open[d] \in Transactions /\ l \in AllLinks
      /\ {<<a, l[2]>> : a \in open[d].to} \subseteq AllLinks
  BY DEF SubscriptionsTypeOK, Transactions, AllLinks
<1>3. PICK t \in Transactions :
         /\ open' = [open EXCEPT ![d] = t]
         /\ t.to = open[d].to /\ t.beside = open[d].beside
         /\ InsertsFor(t) \subseteq InsertsFor(open[d])
         /\ t.takes \union t.taken = open[d].takes \union open[d].taken
         /\ t.puts \union t.put # {} => open[d].puts \union open[d].put \union open[d].to # {}
  <2> DEFINE t == open'[d]
  <2>1. CASE TakeLink(d, l)
    <3>1. /\ l \in open[d].takes
          /\ open' = [open EXCEPT ![d].takes = @ \ {l}, ![d].taken = @ \union {l},
                                  ![d].puts = @ \union {<<a, l[2]>> : a \in open[d].to}]
      BY <2>1 DEF TakeLink
    <3>2. /\ t.to = open[d].to /\ t.beside = open[d].beside /\ t.put = open[d].put
          /\ t.takes = open[d].takes \ {l} /\ t.taken = open[d].taken \union {l}
          /\ t.puts = open[d].puts \union {<<a, l[2]>> : a \in open[d].to}
          /\ t \in Transactions /\ open' = [open EXCEPT ![d] = t]
      BY <1>2, <3>1 DEF Transactions, SubscriptionsTypeOK
    <3> HIDE DEF t
    <3>3. InsertsFor(t) \subseteq InsertsFor(open[d])
      BY <3>2 DEF InsertsFor
    <3>4. t.puts \union t.put # {} => open[d].puts \union open[d].put \union open[d].to # {}
      BY <3>2
    <3>5. t.takes \union t.taken = open[d].takes \union open[d].taken
      BY <3>1, <3>2
    <3>6. QED
      BY <3>2, <3>3, <3>4, <3>5
  <2>2. CASE PutLink(d, l)
    <3>1. /\ l \in open[d].puts
          /\ open' = [open EXCEPT ![d].puts = @ \ {l}, ![d].put = @ \union ({l} \ links)]
      BY <2>2 DEF PutLink
    <3>2. /\ t.to = open[d].to /\ t.beside = open[d].beside
          /\ t.takes = open[d].takes /\ t.taken = open[d].taken
          /\ t.puts = open[d].puts \ {l} /\ t.put = open[d].put \union ({l} \ links)
          /\ t \in Transactions /\ open' = [open EXCEPT ![d] = t]
      BY <1>2, <3>1 DEF Transactions, SubscriptionsTypeOK
    <3> HIDE DEF t
    <3>3. InsertsFor(t) \subseteq InsertsFor(open[d])
      BY <3>1, <3>2 DEF InsertsFor
    <3>4. QED
      BY <3>1, <3>2, <3>3
  <2>3. QED
    BY <2>1, <2>2
<1>4. /\ Doers' = Doers /\ open'[d] = t
      /\ \A c \in Doers : c # d => open'[c] = open[c]
      /\ open' \in [DOMAIN open' -> Transactions]
  BY <1>3 DEF SubscriptionsTypeOK, Doers
<1>5. KindsOfTransactions'
  BY <1>3, <1>4 DEF LinksInv, KindsOfTransactions
<1>6. FoundOrBeside'
  BY <1>1, <1>3, <1>4 DEF LinksInv, FoundOrBeside
<1>7. DeletionHasLinks' /\ OrphanOnlyByRace'
  BY <1>1, <1>3, <1>4 DEF LinksInv, DeletionHasLinks, OrphanOnlyByRace
<1>8. LatestTells' /\ RowIsLatestRecorded'
  BY <1>1, RowsAlone
<1>9. SubscriptionsTypeOK'
  BY <1>1, <1>4 DEF SubscriptionsTypeOK, Doers
<1>10. QED
  BY <1>5, <1>6, <1>7, <1>8, <1>9 DEF LinksInv

(***************************************************************************)
(* A commit.  A deletion's takes its account with it; another's leaves the *)
(* accounts as they are.                                                   *)
(***************************************************************************)
LEMMA CommitKeeps ==
  ASSUME SubscriptionsTypeOK, LinksInv, NEW d, Commit(d),
         \/ UNCHANGED status /\ \A a \in Accounts : d # Deleting(a)
         \/ \E a \in Accounts : d = Deleting(a) /\ status' = [status EXCEPT ![a] = "gone"]
  PROVE  /\ links' \subseteq AllLinks /\ open' \in [DOMAIN open' -> Transactions]
         /\ LinksInv'
<1> DEFINE t == open[d]
<1>1. /\ d \in Doers /\ t.takes = {} /\ t.puts = {}
      /\ links' = (links \ t.taken) \union t.put
      /\ raced' = (raced \ t.taken) \union {l \in t.put : l[1] \in t.beside}
      /\ open' = [c \in Doers \ {d} |-> [open[c] EXCEPT !.takes = @ \ t.taken]]
  BY DEF Commit
<1>2. t \in Transactions /\ \A c \in Doers : open[c] \in Transactions
  BY <1>1 DEF SubscriptionsTypeOK
<1> HIDE DEF t
<1>3. links' \subseteq AllLinks
  BY <1>1, <1>2 DEF SubscriptionsTypeOK, Transactions
<1>4. Doers' = Doers \ {d}
  BY <1>1 DEF Doers
<1>5. \A c \in Doers' :
        /\ open'[c].takes = open[c].takes \ t.taken /\ open'[c].taken = open[c].taken
        /\ open'[c].puts = open[c].puts /\ open'[c].put = open[c].put
        /\ open'[c].to = open[c].to /\ open'[c].beside = open[c].beside
        /\ open'[c] \in Transactions
  BY <1>1, <1>2, <1>4 DEF Transactions
<1>6. open' \in [DOMAIN open' -> Transactions]
  BY <1>1, <1>5 DEF Doers
<1>7. KindsOfTransactions'
  BY <1>4, <1>5 DEF LinksInv, KindsOfTransactions
<1>8. \A l \in t.put : status[l[1]] = "live" \/ l[1] \in t.beside
  BY <1>1 DEF t, LinksInv, FoundOrBeside, InsertsFor
<1>9. \A a \in Accounts : d = Deleting(a) => t.put = {}
  BY <1>1 DEF t, LinksInv, KindsOfTransactions
<1>10. \A a \in Accounts : status'[a] = status[a] \/ d = Deleting(a)
  BY DEF SubscriptionsTypeOK
<1>11. FoundOrBeside'
  <2> SUFFICES ASSUME NEW c \in Doers'
               PROVE  /\ \A a \in InsertsFor(open'[c]) : status'[a] = "live" \/ a \in open'[c].beside
                      /\ \A a \in Accounts : Deleting(a) \in Doers' /\ c # Deleting(a)
                                               => a \in open'[c].beside
    BY DEF FoundOrBeside, InsertsFor
  <2>1. InsertsFor(open'[c]) = InsertsFor(open[c]) /\ InsertsFor(open[c]) \subseteq Accounts
    BY <1>2, <1>4, <1>5 DEF InsertsFor, Transactions, AllLinks
  <2>2. ASSUME NEW a \in InsertsFor(open[c]) PROVE status'[a] = "live" \/ a \in open'[c].beside
    <3>1. CASE d = Deleting(a)
      BY <1>1, <1>4, <1>5, <2>1, <3>1 DEF LinksInv, FoundOrBeside
    <3>2. CASE d # Deleting(a)
      BY <1>4, <1>5, <1>10, <2>1, <3>2 DEF LinksInv, FoundOrBeside
    <3>3. QED
      BY <3>1, <3>2
  <2>3. QED
    BY <1>4, <1>5, <2>1, <2>2 DEF LinksInv, FoundOrBeside
<1>12. DeletionHasLinks'
  <2> SUFFICES ASSUME NEW a \in Accounts, Deleting(a) \in Doers'
               PROVE  /\ status'[a] = "live"
                      /\ \A l \in links' : l[1] = a =>
                           l \in open'[Deleting(a)].takes \union open'[Deleting(a)].taken \union raced'
    BY DEF DeletionHasLinks
  <2>1. status'[a] = "live"
    BY <1>4, <1>10 DEF LinksInv, DeletionHasLinks
  <2>2. ASSUME NEW l \in t.put, l[1] = a PROVE l \in raced'
    <3>1. d # Deleting(a)
      BY <1>4
    <3>2. a \in t.beside
      BY <1>1, <1>4, <3>1 DEF t, LinksInv, FoundOrBeside
    <3>3. QED
      BY <1>1, <2>2, <3>2
  <2>3. ASSUME NEW l \in links \ t.taken, l[1] = a
        PROVE  l \in open'[Deleting(a)].takes \union open'[Deleting(a)].taken \union raced'
    <3>1. l \in open[Deleting(a)].takes \union open[Deleting(a)].taken \union raced
      BY <1>4, <2>3 DEF LinksInv, DeletionHasLinks
    <3>2. /\ open'[Deleting(a)].takes = open[Deleting(a)].takes \ t.taken
          /\ open'[Deleting(a)].taken = open[Deleting(a)].taken
      BY <1>5
    <3>3. raced \ t.taken \subseteq raced'
      BY <1>1
    <3>4. QED
      BY <2>3, <3>1, <3>2, <3>3
  <2>4. QED
    BY <1>1, <2>1, <2>2, <2>3
<1>13. OrphanOnlyByRace'
  <2> SUFFICES ASSUME NEW l \in links' PROVE status'[l[1]] = "live" \/ l \in raced'
    BY DEF OrphanOnlyByRace
  <2>1. l[1] \in Accounts
    BY <1>3 DEF AllLinks
  <2>2. CASE l \in t.put
    BY <1>1, <1>8, <1>9, <1>10, <2>1, <2>2
  <2>3. CASE l \in links \ t.taken /\ d # Deleting(l[1])
    BY <1>1, <1>10, <2>1, <2>3 DEF LinksInv, OrphanOnlyByRace
  <2>4. CASE l \in links \ t.taken /\ d = Deleting(l[1])
    BY <1>1, <2>1, <2>4 DEF t, LinksInv, DeletionHasLinks
  <2>5. QED
    BY <1>1, <2>2, <2>3, <2>4
<1>14. QED
  BY <1>3, <1>6, <1>7, <1>11, <1>12, <1>13 DEF LinksInv

LEMMA RollbackKeeps ==
  ASSUME SubscriptionsTypeOK, LinksInv, NEW d, Rollback(d), UNCHANGED <<status, links, raced>>
  PROVE  open' \in [DOMAIN open' -> Transactions] /\ LinksInv'
<1>1. open' = [c \in Doers \ {d} |-> open[c]]
  BY DEF Rollback
<1>2. Doers' = Doers \ {d} /\ \A c \in Doers' : open'[c] = open[c] /\ open[c] \in Transactions
  BY <1>1 DEF Doers, SubscriptionsTypeOK
<1>3. open' \in [DOMAIN open' -> Transactions]
  BY <1>1, <1>2 DEF Doers
<1>4. KindsOfTransactions' /\ FoundOrBeside'
  BY <1>2 DEF LinksInv, KindsOfTransactions, FoundOrBeside
<1>5. DeletionHasLinks' /\ OrphanOnlyByRace'
  BY <1>2 DEF LinksInv, DeletionHasLinks, OrphanOnlyByRace
<1>6. QED
  BY <1>3, <1>4, <1>5 DEF LinksInv

----------------------------------------------------------------------------
\* The rows' order: an older event leaves a newer row alone.
LEMMA UpsertKeepsLatest ==
  ASSUME SubscriptionsInv, NEW e \in events, ~IsTransfer(e), UpsertSubscription(e),
         recorded' = recorded \union {e}, UNCHANGED <<now, customer, events>>
  PROVE  RowIsLatestRecorded' /\ rows' \in [Ids -> [ends : Int, at : Int]]
<1>1. e.id \in Purchases /\ e.id \in Ids /\ e.ends \in Int /\ e.at \in Nat
  BY EventSays, SubscriptionAssumption DEF SubscriptionsInv, Ids, Instants
<1>2. rows' \in [Ids -> [ends : Int, at : Int]]
  BY <1>1 DEF UpsertSubscription, SubscriptionsInv, SubscriptionsTypeOK, RowOf
<1>3. ASSUME NEW s \in Purchases
      PROVE  /\ \A d \in EventsOf(s)' \intersect recorded' : d.at <= rows'[s].at
             /\ \/ rows'[s] = NoRow
                \/ \E d \in EventsOf(s)' \intersect recorded' : rows'[s] = RowOf(d.ends, d.at)
  <2>1. EventsOf(s)' = EventsOf(s) /\ \A d \in EventsOf(s) : d.at \in Nat
    BY DEF EventsOf, SubscriptionsInv, LatestTells
  <2>2. /\ \A d \in EventsOf(s) \intersect recorded : d.at <= rows[s].at
        /\ \/ rows[s] = NoRow
           \/ \E d \in EventsOf(s) \intersect recorded : rows[s] = RowOf(d.ends, d.at)
        /\ rows[s].at \in Int /\ s \in Ids
    BY DEF SubscriptionsInv, SubscriptionsTypeOK, RowIsLatestRecorded, Ids
  <2>3. CASE s # e.id
    <3>1. rows'[s] = rows[s]
      BY <1>1, <2>2, <2>3 DEF UpsertSubscription, SubscriptionsInv, SubscriptionsTypeOK
    <3>2. EventsOf(s) \intersect recorded' = EventsOf(s) \intersect recorded
      BY <2>3 DEF EventsOf
    <3>3. QED
      BY <2>1, <2>2, <3>1, <3>2
  <2>4. CASE s = e.id
    <3>1. EventsOf(s) \intersect recorded' = (EventsOf(s) \intersect recorded) \union {e}
      BY <2>4 DEF EventsOf
    <3>2. CASE e.at >= rows[s].at
      <4>1. rows'[s] = RowOf(e.ends, e.at) /\ rows'[s].at = e.at
        BY <2>2, <2>4, <3>2 DEF UpsertSubscription, SubscriptionsInv, SubscriptionsTypeOK, RowOf
      <4>2. QED
        BY <1>1, <2>1, <2>2, <3>1, <3>2, <4>1
    <3>3. CASE ~(e.at >= rows[s].at)
      <4>1. rows'[s] = rows[s]
        BY <2>4, <3>3 DEF UpsertSubscription
      <4>2. QED
        BY <1>1, <2>1, <2>2, <3>1, <3>3, <4>1
    <3>4. QED
      BY <3>2, <3>3
  <2>5. QED
    BY <2>3, <2>4
<1>4. QED
  BY <1>2, <1>3 DEF RowIsLatestRecorded

LEMMA WebhookInv ==
  ASSUME SubscriptionsInv, NEW e \in events, WebhookLooks(e) \/ Webhook(e) \/ WebhookFails(e)
  PROVE  SubscriptionsInv'
<1> USE DEF SubscriptionsInv
<1>1. /\ UNCHANGED <<now, status, sync, customer, events>>
      /\ WebhookLooks(e) \/ WebhookFails(e) => UNCHANGED <<rows, links, recorded, raced>>
  BY DEF WebhookLooks, Webhook, WebhookFails
<1>2. \A a \in Accounts : Recording(e) # Syncing(a) /\ Recording(e) # Deleting(a)
  BY DoersApart
<1>3. CASE WebhookLooks(e)
  <2>1. open' \in [DOMAIN open' -> Transactions] /\ LinksInv'
    <3>1. CASE IsTransfer(e)
      <4> DEFINE takes == {l \in links : l[1] \in Existing(e.from)}
      <4>1. BeginTransaction(Recording(e), Looked(takes, {}, Existing(e.to)))
        BY <1>3, <3>1 DEF WebhookLooks
      <4>2. takes \in SUBSET AllLinks /\ Existing(e.to) \in SUBSET Accounts
        BY <3>1, EventSays DEF SubscriptionsTypeOK, Existing
      <4>3. \A a \in Existing(e.to) : status[a] = "live"
        BY DEF Existing
      <4> HIDE DEF takes
      <4>4. {} \in SUBSET AllLinks /\ \A l \in {} : status[l[1]] = "live"
        OBVIOUS
      <4>5. UNCHANGED <<status, links, raced>>
        BY <1>1, <1>3
      <4>6. QED
        BY <1>2, <4>1, <4>2, <4>3, <4>4, <4>5, BeginKeeps
    <3>2. CASE ~IsTransfer(e)
      <4> DEFINE puts == Existing(e.named) \X {e.id}
      <4>1. BeginTransaction(Recording(e), Looked({}, puts, {}))
        BY <1>3, <3>2 DEF WebhookLooks
      <4>2. puts \in SUBSET AllLinks /\ \A l \in puts : status[l[1]] = "live"
        BY <3>2, EventSays DEF Existing, Ids, AllLinks
      <4> HIDE DEF puts
      <4>3. QED
        BY <1>1, <1>2, <1>3, <4>1, <4>2, BeginKeeps
    <3>3. QED
      BY <3>1, <3>2
  <2>2. LatestTells' /\ RowIsLatestRecorded'
    BY <1>1, <1>3, RowsAlone
  <2>3. QED
    BY <1>1, <1>3, <2>1, <2>2 DEF SubscriptionsTypeOK, Doers
<1>4. CASE WebhookFails(e)
  <2>1. open' \in [DOMAIN open' -> Transactions] /\ LinksInv'
    BY <1>1, <1>4, RollbackKeeps DEF WebhookFails
  <2>2. LatestTells' /\ RowIsLatestRecorded'
    BY <1>1, <1>4, RowsAlone
  <2>3. QED
    BY <1>1, <1>4, <2>1, <2>2 DEF SubscriptionsTypeOK, Doers
<1>5. CASE Webhook(e)
  <2>1. /\ recorded' = recorded \union {e} /\ Commit(Recording(e))
        /\ IsTransfer(e) => UNCHANGED rows
        /\ ~IsTransfer(e) => UpsertSubscription(e)
    BY <1>5 DEF Webhook
  <2>2. links' \subseteq AllLinks /\ open' \in [DOMAIN open' -> Transactions] /\ LinksInv'
    BY <1>1, <1>2, <2>1, CommitKeeps
  <2>3. LatestTells' /\ RowIsLatestRecorded' /\ rows' \in [Ids -> [ends : Int, at : Int]]
    <3>1. CASE IsTransfer(e)
      <4>1. \A s \in Purchases : EventsOf(s)' = EventsOf(s) /\ e \notin EventsOf(s)
        BY <1>1, <3>1 DEF EventsOf
      <4>2. QED
        BY <1>1, <2>1, <3>1, <4>1 DEF EventsOf, LatestTells, RowIsLatestRecorded, SubscriptionsTypeOK
    <3>2. CASE ~IsTransfer(e)
      <4>1. RowIsLatestRecorded' /\ rows' \in [Ids -> [ends : Int, at : Int]]
        BY <1>1, <2>1, <3>2, UpsertKeepsLatest
      <4>2. LatestTells'
        BY <1>1 DEF LatestTells, EventsOf
      <4>3. QED
        BY <4>1, <4>2
    <3>3. QED
      BY <3>1, <3>2
  <2>4. QED
    BY <1>1, <2>1, <2>2, <2>3 DEF SubscriptionsTypeOK, Doers
<1>6. QED
  BY <1>3, <1>4, <1>5

LEMMA EntitlementIdApart == \A a \in Accounts : EntitlementId(a) \in Ids \ Purchases
  BY SubscriptionAssumption DEF EntitlementId, Ids

LEMMA SyncInv ==
  ASSUME SubscriptionsInv, NEW a \in Accounts,
         SyncFetch(a) \/ RecordEntitlementSync(a) \/ SyncCommit(a) \/ SyncFails(a)
  PROVE  SubscriptionsInv'
<1> USE DEF SubscriptionsInv
<1> DEFINE id == EntitlementId(a)
           Syncs == [Accounts -> [pc : {"idle", "fetched", "writing"}, ends : Int]]
<1>1. /\ UNCHANGED <<now, status, customer, events, recorded>>
      /\ \/ UNCHANGED <<rows, links, open, raced>>
         \/ SyncWrites(a) /\ UNCHANGED <<rows, links, raced>> /\ status[a] = "live"
         \/ Commit(Syncing(a)) /\ UpsertEntitlement(a)
         \/ Rollback(Syncing(a)) /\ UNCHANGED <<rows, links, raced>>
  BY DEF SyncFetch, RecordEntitlementSync, SyncCommit, SyncFails, database
<1>2. id \in Ids /\ id \notin Purchases /\ now \in Int /\ EntitlementEnds(a) \in Int
  BY EntitlementIdApart, EntitlementEndsType DEF SubscriptionsTypeOK
<1>3. sync' \in Syncs
  <2>1. NoSync \in [pc : {"idle", "fetched", "writing"}, ends : Int] /\ sync \in Syncs /\ sync[a].ends \in Int
    BY DEF NoSync, NoEnd, SubscriptionsTypeOK
  <2>2. QED
    BY <1>2, <2>1 DEF SyncFetch, RecordEntitlementSync, SyncWrites, SyncCommit, SyncFails
<1>4. \A b \in Accounts : Syncing(a) # Deleting(b)
  BY DoersApart
<1>5. rows' \in [Ids -> [ends : Int, at : Int]] /\ \A s \in Purchases : rows'[s] = rows[s]
  <2>1. CASE UNCHANGED rows
    BY <2>1 DEF SubscriptionsTypeOK
  <2>2. CASE UpsertEntitlement(a)
    <3>1. rows' = [rows EXCEPT ![id].ends = sync[a].ends] /\ sync[a].ends \in Int
      BY <2>2 DEF UpsertEntitlement, SubscriptionsTypeOK
    <3> HIDE DEF id
    <3>2. rows \in [Ids -> [ends : Int, at : Int]] /\ Purchases \subseteq Ids
      BY DEF SubscriptionsTypeOK, Ids
    <3>3. QED
      BY <1>2, <3>1, <3>2
  <2>3. QED
    BY <1>1, <2>1, <2>2
<1>6. LatestTells' /\ RowIsLatestRecorded'
  BY <1>1, <1>5, RowsAlone
<1>7. links' \subseteq AllLinks /\ open' \in [DOMAIN open' -> Transactions] /\ LinksInv'
  <2>1. CASE UNCHANGED <<rows, links, open, raced>>
    BY <1>1, <2>1, LinksAlone DEF SubscriptionsTypeOK, Doers
  <2>2. CASE SyncWrites(a) /\ UNCHANGED <<rows, links, raced>> /\ status[a] = "live"
    <3> DEFINE puts == {<<a, id>>}
    <3>1. BeginTransaction(Syncing(a), Looked({}, puts, {}))
      BY <2>2 DEF SyncWrites
    <3>2. puts \in SUBSET AllLinks /\ \A l \in puts : status[l[1]] = "live"
      BY <1>2, <2>2 DEF AllLinks
    <3> HIDE DEF puts
    <3>3. /\ {} \in SUBSET AllLinks /\ {} \in SUBSET Accounts
          /\ \A b \in {} : status[b] = "live"
      OBVIOUS
    <3>4. UNCHANGED <<status, links, raced>>
      BY <1>1, <2>2
    <3>5. open' \in [DOMAIN open' -> Transactions] /\ LinksInv'
      BY <1>4, <3>1, <3>2, <3>3, <3>4, BeginKeeps
    <3>6. QED
      BY <1>1, <3>4, <3>5 DEF SubscriptionsTypeOK
  <2>3. CASE Commit(Syncing(a))
    BY <1>1, <1>4, <2>3, CommitKeeps
  <2>4. CASE Rollback(Syncing(a)) /\ UNCHANGED <<rows, links, raced>>
    BY <1>1, <2>4, RollbackKeeps DEF SubscriptionsTypeOK
  <2>5. QED
    BY <1>1, <2>1, <2>2, <2>3, <2>4
<1>8. SubscriptionsTypeOK'
  BY <1>1, <1>3, <1>5, <1>7 DEF SubscriptionsTypeOK, Doers
<1>9. QED
  BY <1>6, <1>7, <1>8

(***************************************************************************)
(* A deletion: it has what it finds; what it overlaps, knows it; committed *)
(* or rolled back, it is over.                                             *)
(***************************************************************************)
LEMMA DeletionInv ==
  ASSUME SubscriptionsInv, NEW a \in Accounts, DeleteLinks(a) \/ DeleteCommit(a) \/ DeleteRollback(a)
  PROVE  SubscriptionsInv'
<1> USE DEF SubscriptionsInv
<1> DEFINE d == Deleting(a)
<1>1. UNCHANGED <<now, rows, sync, customer, events, recorded>>
  BY DEF DeleteLinks, BeginDelete, DeleteCommit, DeleteRollback
<1>2. LatestTells' /\ RowIsLatestRecorded'
  BY <1>1, RowsAlone
<1>3. \A b \in Accounts : Deleting(b) = d => b = a
  BY DoersApart
<1>4. \A c \in Doers : open[c] \in Transactions
  BY DEF SubscriptionsTypeOK
<1>5. CASE DeleteLinks(a)
  <2> DEFINE t == Looked({l \in links : l[1] = a}, {}, {})
  <2>1. /\ status[a] = "live" /\ d \notin Doers
        /\ open' = [c \in Doers \union {d} |-> IF c = d THEN t ELSE [open[c] EXCEPT !.beside = @ \union {a}]]
        /\ UNCHANGED <<status, links, raced>>
    BY <1>5 DEF DeleteLinks, BeginDelete
  <2>2. /\ t.takes = {l \in links : l[1] = a} /\ t.puts = {} /\ t.put = {} /\ t.to = {}
        /\ t.beside = {b \in Accounts : Deleting(b) \in Doers} /\ t \in Transactions
    BY DEF Looked, Transactions, SubscriptionsTypeOK
  <2> HIDE DEF t, d
  <2>3. Doers' = Doers \union {d} /\ open'[d] = t
    BY <2>1 DEF Doers
  <2>4. \A c \in Doers :
          /\ c # d
          /\ open'[c].takes = open[c].takes /\ open'[c].taken = open[c].taken
          /\ open'[c].puts = open[c].puts /\ open'[c].put = open[c].put
          /\ open'[c].to = open[c].to /\ open'[c].beside = open[c].beside \union {a}
          /\ open'[c] \in Transactions
    BY <1>4, <2>1 DEF Transactions
  <2>5. open' \in [DOMAIN open' -> Transactions]
    BY <2>1, <2>2, <2>3, <2>4 DEF Doers
  <2>6. KindsOfTransactions'
    BY <1>3, <2>2, <2>3, <2>4, DoersApart DEF LinksInv, KindsOfTransactions, d
  <2>7. FoundOrBeside'
    <3>1. InsertsFor(t) = {} /\ \A c \in Doers : InsertsFor(open'[c]) = InsertsFor(open[c])
      BY <2>2, <2>4 DEF InsertsFor
    <3>2. \A b \in Accounts : Deleting(b) \in Doers' => Deleting(b) \in Doers \/ b = a
      BY <1>3, <2>3
    <3>3. QED
      BY <2>1, <2>2, <2>3, <2>4, <3>1, <3>2 DEF LinksInv, FoundOrBeside, d
  <2>8. DeletionHasLinks'
    <3>1. \A b \in Accounts : Deleting(b) \in Doers' => Deleting(b) \in Doers \/ b = a
      BY <1>3, <2>3
    <3>2. QED
      BY <2>1, <2>2, <2>3, <2>4, <3>1 DEF LinksInv, DeletionHasLinks, d
  <2>9. OrphanOnlyByRace'
    BY <2>1 DEF LinksInv, OrphanOnlyByRace
  <2>10. QED
    BY <1>1, <1>2, <2>1, <2>5, <2>6, <2>7, <2>8, <2>9 DEF LinksInv, SubscriptionsTypeOK, Doers
<1>6. CASE DeleteCommit(a)
  <2>1. Commit(d) /\ status' = [status EXCEPT ![a] = "gone"]
    BY <1>6 DEF DeleteCommit
  <2>2. links' \subseteq AllLinks /\ open' \in [DOMAIN open' -> Transactions] /\ LinksInv'
    BY <2>1, CommitKeeps
  <2>3. status' \in [Accounts -> {"none", "live", "gone"}]
    BY <2>1 DEF SubscriptionsTypeOK
  <2>4. QED
    BY <1>1, <1>2, <2>2, <2>3 DEF SubscriptionsTypeOK, Doers
<1>7. CASE DeleteRollback(a)
  <2>1. /\ d \in Doers
        /\ open' = [c \in Doers \ {d} |-> [open[c] EXCEPT !.beside = @ \ {a}]]
        /\ raced' = {l \in raced : l[1] # a} /\ UNCHANGED <<status, links>>
    BY <1>7 DEF DeleteRollback
  <2>2. status[a] = "live"
    BY <2>1 DEF LinksInv, DeletionHasLinks
  <2> HIDE DEF d
  <2>3. Doers' = Doers \ {d}
    BY <2>1 DEF Doers
  <2>4. \A c \in Doers' :
          /\ open'[c].takes = open[c].takes /\ open'[c].taken = open[c].taken
          /\ open'[c].puts = open[c].puts /\ open'[c].put = open[c].put
          /\ open'[c].to = open[c].to /\ open'[c].beside = open[c].beside \ {a}
          /\ open'[c] \in Transactions
    BY <1>4, <2>1, <2>3 DEF Transactions
  <2>5. open' \in [DOMAIN open' -> Transactions]
    BY <2>1, <2>3, <2>4 DEF Doers
  <2>6. KindsOfTransactions'
    BY <2>3, <2>4 DEF LinksInv, KindsOfTransactions
  <2>7. FoundOrBeside'
    <3>1. \A c \in Doers' : InsertsFor(open'[c]) = InsertsFor(open[c])
      BY <2>4 DEF InsertsFor
    <3>2. QED
      BY <2>1, <2>2, <2>3, <2>4, <3>1 DEF LinksInv, FoundOrBeside, d
  <2>8. DeletionHasLinks'
    BY <2>1, <2>3, <2>4 DEF LinksInv, DeletionHasLinks, d
  <2>9. OrphanOnlyByRace'
    BY <2>1, <2>2 DEF LinksInv, OrphanOnlyByRace
  <2>10. QED
    BY <1>1, <1>2, <2>1, <2>5, <2>6, <2>7, <2>8, <2>9 DEF LinksInv, SubscriptionsTypeOK, Doers
<1>8. QED
  BY <1>5, <1>6, <1>7

LEMMA SweepInv == ASSUME SubscriptionsInv, SweepLinks PROVE SubscriptionsInv'
<1> USE DEF SubscriptionsInv
<1> DEFINE swept == {l \in links : status[l[1]] # "live"}
<1>1. /\ links' = links \ swept /\ raced' = raced \ swept
      /\ open' = [c \in Doers |-> [open[c] EXCEPT !.takes = @ \ swept]]
      /\ UNCHANGED <<now, status, rows, sync, customer, events, recorded>>
  BY DEF SweepLinks
<1> HIDE DEF swept
<1>2. Doers' = Doers
  BY <1>1 DEF Doers
<1>3. \A c \in Doers :
        /\ open'[c].takes = open[c].takes \ swept /\ open'[c].taken = open[c].taken
        /\ open'[c].puts = open[c].puts /\ open'[c].put = open[c].put
        /\ open'[c].to = open[c].to /\ open'[c].beside = open[c].beside
        /\ open'[c] \in Transactions
  BY <1>1 DEF SubscriptionsTypeOK, Transactions
<1>4. open' \in [DOMAIN open' -> Transactions]
  BY <1>1, <1>2, <1>3 DEF Doers
<1>5. KindsOfTransactions'
  BY <1>2, <1>3 DEF LinksInv, KindsOfTransactions
<1>6. FoundOrBeside'
  <2>1. \A c \in Doers : InsertsFor(open'[c]) = InsertsFor(open[c])
    BY <1>3 DEF InsertsFor
  <2>2. QED
    BY <1>1, <1>2, <1>3, <2>1 DEF LinksInv, FoundOrBeside
<1>7. DeletionHasLinks' /\ OrphanOnlyByRace'
  BY <1>1, <1>2, <1>3 DEF LinksInv, DeletionHasLinks, OrphanOnlyByRace
<1>8. LatestTells' /\ RowIsLatestRecorded'
  BY <1>1, RowsAlone
<1>9. QED
  BY <1>1, <1>4, <1>5, <1>6, <1>7, <1>8 DEF LinksInv, SubscriptionsTypeOK, Doers

\* The steps that touch no row and no link.
LEMMA AsideInv ==
  ASSUME SubscriptionsInv,
         Tick \/ UNCHANGED subscriptionsVars \/ \E a \in Accounts : CreateAccount(a)
  PROVE  SubscriptionsInv'
<1> USE DEF SubscriptionsInv
<1>1. UNCHANGED <<rows, links, open, sync, customer, events, recorded, raced>>
  BY DEF Tick, CreateAccount, database, subscriptionsVars
<1>2. now' \in 0 .. MaxNow /\ now <= now'
  BY SubscriptionAssumption DEF Tick, CreateAccount, subscriptionsVars, SubscriptionsTypeOK
<1>3. /\ status' \in [Accounts -> {"none", "live", "gone"}]
      /\ \A a \in Accounts : status[a] = "live" => status'[a] = "live"
  BY DEF Tick, CreateAccount, database, subscriptionsVars, SubscriptionsTypeOK
<1>4. SubscriptionsTypeOK'
  BY <1>1, <1>2, <1>3 DEF SubscriptionsTypeOK, Doers
<1>5. LatestTells' /\ RowIsLatestRecorded'
  BY <1>1, <1>2 DEF SubscriptionsTypeOK, LatestTells, RowIsLatestRecorded, EventsOf
<1>6. LinksInv'
  BY <1>1, <1>3, LinksAlone
<1>7. QED
  BY <1>4, <1>5, <1>6

LEMMA SubscriptionsNextInv ==
  SubscriptionsInv /\ [SubscriptionsNext]_subscriptionsVars => SubscriptionsInv'
<1> SUFFICES ASSUME SubscriptionsInv, [SubscriptionsNext]_subscriptionsVars PROVE SubscriptionsInv'
  OBVIOUS
<1>1. CASE Tick \/ UNCHANGED subscriptionsVars \/ \E a \in Accounts : CreateAccount(a)
  BY <1>1, AsideInv
<1>2. CASE SweepLinks
  BY <1>2, SweepInv
<1>3. CASE \E s \in Purchases : Refund(s) \/ \E a \in Accounts : Buy(a, s) \/ Restore(a, s)
  BY <1>3, RevenueCatInv
<1>4. CASE \E e \in events : WebhookLooks(e) \/ Webhook(e) \/ WebhookFails(e)
  BY <1>4, WebhookInv
<1>5. CASE \E d \in Doers : \E l \in open[d].takes \union open[d].puts : TakeLink(d, l) \/ PutLink(d, l)
  BY <1>5, LinkStepInv
<1>6. CASE \E a \in Accounts : SyncFetch(a) \/ RecordEntitlementSync(a) \/ SyncCommit(a) \/ SyncFails(a)
  BY <1>6, SyncInv
<1>7. CASE \E a \in Accounts : DeleteLinks(a) \/ DeleteCommit(a) \/ DeleteRollback(a)
  BY <1>7, DeletionInv
<1>8. QED
  BY <1>1, <1>2, <1>3, <1>4, <1>5, <1>6, <1>7 DEF SubscriptionsNext

----------------------------------------------------------------------------
THEOREM SubscriptionsInvariant == SubscriptionsSpec => []SubscriptionsInv
  BY SubscriptionsInitInv, SubscriptionsNextInv, PTL DEF SubscriptionsSpec

(***************************************************************************)
(* However RevenueCat's events arrive, once every event about a purchase   *)
(* has been recorded its row ends when the purchase does (the upsert's     *)
(* guard on event_at).                                                     *)
(***************************************************************************)
THEOREM SubscriptionsConverge == SubscriptionsSpec => []Converged
<1>1. ASSUME SubscriptionsInv PROVE Converged
  <2> SUFFICES ASSUME NEW s \in Purchases, EventsOf(s) # {}, EventsOf(s) \subseteq recorded
               PROVE  rows[s].ends = customer[s].ends
    BY DEF Converged
  <2>1. rows[s] # NoRow
    BY <1>1 DEF SubscriptionsInv, LatestTells, RowIsLatestRecorded, NoRow
  <2>2. PICK e \in EventsOf(s) : rows[s] = RowOf(e.ends, e.at)
    BY <1>1, <2>1 DEF SubscriptionsInv, RowIsLatestRecorded
  <2>3. rows[s].ends = e.ends /\ rows[s].at = e.at
    BY <2>2 DEF RowOf
  <2>4. \A f \in EventsOf(s) : f.at <= e.at
    BY <1>1, <2>3 DEF SubscriptionsInv, RowIsLatestRecorded
  <2>5. QED
    BY <1>1, <2>3, <2>4 DEF SubscriptionsInv, LatestTells
<1>2. QED
  BY <1>1, SubscriptionsInvariant, PTL

(***************************************************************************)
(* Whatever lands between the statements of webhooks, syncs and deletions, *)
(* of any number at once, no account goes and leaves a link but one put in *)
(* by a transaction that the deletion overlapped (deleteAccount,           *)
(* recordSubscriptionEvent, recordEntitlementSync).                        *)
(***************************************************************************)
THEOREM OrphansAreRaced == SubscriptionsSpec => []OrphanOnlyByRace
<1>1. SubscriptionsInv => OrphanOnlyByRace
  BY DEF SubscriptionsInv, LinksInv
<1>2. QED
  BY <1>1, SubscriptionsInvariant, PTL

(***************************************************************************)
(* A sync that commits what RevenueCat still says leaves a paying account  *)
(* subscribed, unless the link it found has been taken since               *)
(* (recordEntitlementSync; quotaStatus's join).                            *)
(***************************************************************************)
THEOREM SyncServes == SubscriptionsSpec => SyncServesTheEntitled
<1> DEFINE Serves(a) ==
             (/\ SyncCommit(a) /\ status[a] = "live" /\ sync[a].ends = EntitlementEnds(a) /\ Entitled(a)
              /\ <<a, EntitlementId(a)>> \in links \union open[Syncing(a)].put) => Subscribed(a)'
<1>1. ASSUME SubscriptionsInv, NEW a \in Accounts PROVE Serves(a)
  <2> DEFINE id == EntitlementId(a)
             t  == open[Syncing(a)]
  <2> SUFFICES ASSUME SyncCommit(a), status[a] = "live", sync[a].ends = EntitlementEnds(a), Entitled(a),
                      <<a, id>> \in links \union t.put
               PROVE  Subscribed(a)'
    OBVIOUS
  <2>1. id \in Ids /\ EntitlementEnds(a) \in Int /\ EntitlementEnds(a) > now /\ now \in Nat
    BY <1>1, EntitlementIdApart, EntitlementEndsType DEF SubscriptionsInv, SubscriptionsTypeOK
  <2>2. /\ rows' = [rows EXCEPT ![id].ends = EntitlementEnds(a)]
        /\ links' = (links \ t.taken) \union t.put /\ Syncing(a) \in Doers
        /\ now' = now /\ status' = status
    BY DEF SyncCommit, UpsertEntitlement, Commit
  <2>3. <<a, id>> \in links'
    BY <1>1, <2>2 DEF SubscriptionsInv, LinksInv, KindsOfTransactions
  <2> HIDE DEF id
  <2>4. rows'[id].ends = EntitlementEnds(a)
    BY <1>1, <2>1, <2>2 DEF SubscriptionsInv, SubscriptionsTypeOK
  <2>5. QED
    BY <2>1, <2>2, <2>3, <2>4 DEF Subscribed
<1>2. SubscriptionsInv /\ [SubscriptionsNext]_subscriptionsVars
        => [\A a \in Accounts : Serves(a)]_subscriptionsVars
  BY <1>1
<1>3. QED
  BY <1>2, SubscriptionsInvariant, PTL DEF SubscriptionsSpec, SyncServesTheEntitled

----------------------------------------------------------------------------
(***************************************************************************)
(* Delivery receipts.                                                      *)
(***************************************************************************)
SinkType == {IdleSink} \union [delivery : Deliveries, pos : Nat \ {0}, worst : Statuses]

ReceiptsTypeOK ==
  /\ part \in [Sids -> [sid : BOOLEAN, at : [Outcomes -> Times \union {NoTime}]]]
  /\ owed \subseteq Deliveries
  /\ answered \subseteq Deliveries
  /\ sink \in [SinkHandlers -> SinkType]

\* The event is on its reply's row.
OnRow(e) == e.sid \in Sids /\ part[e.sid].at[e.outcome] # NoTime

(***************************************************************************)
(* The strengthening.  While the worst outcome of a delivery is a 200,     *)
(* every event its handler has been through is on its row.                 *)
(***************************************************************************)
DoneIsOnRow ==
  \A h \in SinkHandlers :
    sink[h].delivery # NoDelivery /\ sink[h].worst = 200 =>
      \A i \in DOMAIN sink[h].delivery : i < sink[h].pos => OnRow(sink[h].delivery[i])

ReceiptsInv == ReceiptsTypeOK /\ DoneIsOnRow /\ AnsweredMeansRecorded

LEMMA DeliveryEvents ==
  ASSUME NEW d \in Deliveries
  PROVE  /\ Len(d) \in Nat /\ DOMAIN d = 1 .. Len(d)
         /\ \A i \in DOMAIN d : d[i] \in Event
<1>1. PICK n \in 1 .. MaxBatch : d \in [1 .. n -> Event]
  BY DEF Deliveries
<1>2. d \in Seq(Event)
  BY <1>1
<1>3. QED
  BY <1>2

LEMMA ReceiptsInitInv == ReceiptsInit => ReceiptsInv
  BY DEF ReceiptsInit, ReceiptsInv, ReceiptsTypeOK, DoneIsOnRow, AnsweredMeansRecorded, NoReceipt,
         IdleSink, SinkType, Statuses

(***************************************************************************)
(* What is on a row stays there, so a step need only answer for what it    *)
(* answers, and for the handler that takes it.                             *)
(***************************************************************************)
RowsStay == \A s \in Sids, o \in Outcomes : part[s].at[o] # NoTime => part'[s].at[o] # NoTime

LEMMA StillOnRow == ASSUME RowsStay, NEW e \in Event, OnRow(e) PROVE OnRow(e)'
  BY DEF RowsStay, OnRow, Event

LEMMA RecordedStays ==
  ASSUME ReceiptsInv, RowsStay, UNCHANGED answered
  PROVE  AnsweredMeansRecorded'
<1> SUFFICES ASSUME NEW d \in answered, NEW i \in DOMAIN d PROVE OnRow(d[i])'
  BY DEF AnsweredMeansRecorded, OnRow
<1>1. d[i] \in Event
  BY DeliveryEvents DEF ReceiptsInv, ReceiptsTypeOK
<1>2. OnRow(d[i])
  BY DEF ReceiptsInv, AnsweredMeansRecorded, OnRow
<1>3. QED
  BY <1>1, <1>2, StillOnRow

LEMMA SinkStep ==
  ASSUME ReceiptsInv, RowsStay,
         part' \in [Sids -> [sid : BOOLEAN, at : [Outcomes -> Times \union {NoTime}]]],
         owed' \subseteq Deliveries, UNCHANGED answered,
         NEW h \in SinkHandlers, NEW next \in SinkType, sink' = [sink EXCEPT ![h] = next],
         next.delivery # NoDelivery /\ next.worst = 200 =>
           \A i \in DOMAIN next.delivery : i < next.pos => OnRow(next.delivery[i])'
  PROVE  ReceiptsInv'
<1>1. ReceiptsTypeOK'
  BY DEF ReceiptsInv, ReceiptsTypeOK
<1>2. sink'[h] = next /\ \A g \in SinkHandlers \ {h} : sink'[g] = sink[g]
  BY DEF ReceiptsInv, ReceiptsTypeOK
<1>3. DoneIsOnRow'
  <2> SUFFICES ASSUME NEW g \in SinkHandlers, sink'[g].delivery # NoDelivery, sink'[g].worst = 200,
                      NEW i \in DOMAIN sink'[g].delivery, i < sink'[g].pos
               PROVE  OnRow(sink[g].delivery[i])'
    BY DEF DoneIsOnRow
  <2>1. CASE g = h
    BY <1>2, <2>1 DEF OnRow
  <2>2. CASE g # h
    <3>1. sink'[g] = sink[g] /\ sink[g].delivery \in Deliveries
      BY <1>2, <2>2 DEF ReceiptsInv, ReceiptsTypeOK, SinkType, IdleSink
    <3>2. PICK e \in Event : e = sink[g].delivery[i]
      BY <3>1, DeliveryEvents
    <3>3. OnRow(e)
      BY <3>1, <3>2 DEF ReceiptsInv, DoneIsOnRow
    <3>4. OnRow(e)'
      BY <3>3, StillOnRow
    <3>5. QED
      BY <3>1, <3>2, <3>4 DEF OnRow
  <2>3. QED
    BY <2>1, <2>2
<1>4. AnsweredMeansRecorded'
  BY RecordedStays
<1>5. QED
  BY <1>1, <1>3, <1>4 DEF ReceiptsInv

\* A step of no handler.
LEMMA NoSinkStep ==
  ASSUME ReceiptsInv, RowsStay,
         part' \in [Sids -> [sid : BOOLEAN, at : [Outcomes -> Times \union {NoTime}]]],
         owed' \subseteq Deliveries, UNCHANGED <<answered, sink>>
  PROVE  ReceiptsInv'
<1>1. ReceiptsTypeOK'
  BY DEF ReceiptsInv, ReceiptsTypeOK
<1>2. DoneIsOnRow'
  <2> SUFFICES ASSUME NEW g \in SinkHandlers, sink[g].delivery # NoDelivery, sink[g].worst = 200,
                      NEW i \in DOMAIN sink[g].delivery, i < sink[g].pos
               PROVE  OnRow(sink[g].delivery[i])'
    BY DEF DoneIsOnRow
  <2>1. sink[g].delivery \in Deliveries
    BY DEF ReceiptsInv, ReceiptsTypeOK, SinkType, IdleSink
  <2>2. PICK e \in Event : e = sink[g].delivery[i]
    BY <2>1, DeliveryEvents
  <2>3. OnRow(e)'
    BY <2>2, StillOnRow DEF ReceiptsInv, DoneIsOnRow
  <2>4. QED
    BY <2>2, <2>3 DEF OnRow
<1>3. QED
  BY <1>1, <1>2, RecordedStays DEF ReceiptsInv

\* recordReplyDelivery writes a time at most once, and on the event's row.
LEMMA RecordsOnce ==
  ASSUME ReceiptsInv, NEW e \in Event, NEW t \in Times, RecordReplyDelivery(e, t)
  PROVE  /\ part' \in [Sids -> [sid : BOOLEAN, at : [Outcomes -> Times \union {NoTime}]]]
         /\ RowsStay
         /\ Found(e.sid) => OnRow(e)'
<1>1. part \in [Sids -> [sid : BOOLEAN, at : [Outcomes -> Times \union {NoTime}]]]
  BY DEF ReceiptsInv, ReceiptsTypeOK
<1>2. t # NoTime
  BY ReceiptsAssumption
<1>3. CASE ~Found(e.sid)
  BY <1>1, <1>3 DEF RecordReplyDelivery, RowsStay
<1>4. CASE Found(e.sid)
  <2>1. e.sid \in Sids /\ e.outcome \in Outcomes
    BY <1>4 DEF Found, Event
  <2>2. part' = [part EXCEPT ![e.sid].at[e.outcome] = Coalesce(@, t)]
    BY <1>4 DEF RecordReplyDelivery
  <2>3. part'[e.sid].at = [part[e.sid].at EXCEPT ![e.outcome] = Coalesce(@, t)]
    BY <1>1, <2>1, <2>2
  <2>4. \A s \in Sids : s # e.sid => part'[s] = part[s]
    BY <1>1, <2>2
  <2>5. part'[e.sid].at[e.outcome] # NoTime
    BY <1>1, <1>2, <2>1, <2>3 DEF Coalesce
  <2>6. RowsStay
    BY <1>1, <2>1, <2>3, <2>4, <2>5 DEF RowsStay
  <2>7. part' \in [Sids -> [sid : BOOLEAN, at : [Outcomes -> Times \union {NoTime}]]]
    BY <1>1, <2>1, <2>2 DEF Coalesce
  <2>8. QED
    BY <2>1, <2>5, <2>6, <2>7 DEF OnRow
<1>5. QED
  BY <1>3, <1>4

LEMMA HandleEventInv ==
  ASSUME ReceiptsInv, NEW h \in SinkHandlers, HandleEvent(h)
  PROVE  ReceiptsInv'
<1>1. PICK was \in [delivery : Deliveries, pos : Nat \ {0}, worst : Statuses] :
         was = sink[h] /\ was.delivery # NoDelivery /\ was.pos <= Len(was.delivery)
  BY DEF HandleEvent, AtEvent, ReceiptsInv, ReceiptsTypeOK, SinkType, IdleSink
<1> DEFINE d == was.delivery
           pos == was.pos
<1>2. /\ Len(d) \in Nat /\ DOMAIN d = 1 .. Len(d) /\ pos \in DOMAIN d
      /\ \A i \in DOMAIN d : d[i] \in Event
  BY <1>1, DeliveryEvents
<1>3. PICK e \in Event : e = d[pos]
  BY <1>2
<1>4. HandleDelivery(h) /\ UNCHANGED <<owed, answered>> /\ e = sink[h].delivery[sink[h].pos]
  BY <1>1, <1>3 DEF HandleEvent
<1>5. PICK code \in Statuses :
        /\ Advance(h, code)
        /\ \/ UNCHANGED part /\ code # 200
           \/ \E t \in Times : RecordReplyDelivery(e, t) /\ (code = 200 => Found(e.sid))
  <2>1. CASE UNCHANGED part /\ Advance(h, 503)
    BY <2>1 DEF Statuses
  <2>2. CASE (\E t \in Times : RecordReplyDelivery(e, t)) /\ Advance(h, IF Found(e.sid) THEN 200 ELSE 404)
    BY <2>2 DEF Statuses
  <2>3. QED
    BY <1>4, <2>1, <2>2 DEF HandleDelivery
<1> DEFINE next == [was EXCEPT !.pos = @ + 1, !.worst = Worst(@, code)]
<1>6. sink' = [sink EXCEPT ![h] = next]
  <2>1. sink' = [sink EXCEPT ![h] = [sink[h] EXCEPT !.pos = @ + 1, !.worst = Worst(@, code)]]
    BY <1>5 DEF Advance, ReceiptsInv, ReceiptsTypeOK
  <2>2. QED
    BY <1>1, <2>1
<1>7. /\ next \in SinkType /\ next.delivery = d /\ next.pos = pos + 1
      /\ next.worst = 200 => was.worst = 200 /\ code = 200
  <2> DEFINE worst == Worst(was.worst, code)
  <2>1. worst \in Statuses /\ (worst = 200 => was.worst = 200 /\ code = 200)
    BY DEF Statuses, Worst
  <2>2. next = [was EXCEPT !.pos = was.pos + 1, !.worst = worst] /\ was.pos + 1 \in Nat \ {0}
    OBVIOUS
  <2> HIDE DEF next, worst
  <2>3. next \in [delivery : Deliveries, pos : Nat \ {0}, worst : Statuses]
    BY <2>1, <2>2
  <2>4. next.delivery = d /\ next.pos = pos + 1 /\ next.worst = worst
    BY <2>2
  <2>5. QED
    BY <2>1, <2>3, <2>4 DEF SinkType
<1>8. /\ part' \in [Sids -> [sid : BOOLEAN, at : [Outcomes -> Times \union {NoTime}]]]
      /\ RowsStay
      /\ code = 200 => OnRow(e)'
  <2>1. CASE UNCHANGED part /\ code # 200
    BY <2>1 DEF RowsStay, ReceiptsInv, ReceiptsTypeOK
  <2>2. CASE \E t \in Times : RecordReplyDelivery(e, t) /\ (code = 200 => Found(e.sid))
    BY <2>2, RecordsOnce
  <2>3. QED
    BY <1>5, <2>1, <2>2
<1>9. ASSUME next.worst = 200, NEW i \in DOMAIN d, i < pos + 1
      PROVE  OnRow(d[i])'
  <2>1. CASE i = pos
    BY <1>3, <1>7, <1>8, <1>9, <2>1
  <2>2. CASE i # pos
    <3>1. i < pos
      BY <1>2, <1>9, <2>2
    <3>2. OnRow(d[i])
      BY <1>1, <1>7, <1>9, <3>1 DEF ReceiptsInv, DoneIsOnRow
    <3>3. QED
      BY <1>2, <1>8, <3>2, StillOnRow
  <2>3. QED
    BY <2>1, <2>2
<1>10. owed' \subseteq Deliveries
  BY <1>4 DEF ReceiptsInv, ReceiptsTypeOK
<1>11. QED
  <2>1. next.worst = 200 => \A i \in DOMAIN next.delivery : i < next.pos => OnRow(next.delivery[i])'
    <3> HIDE DEF next
    <3>1. QED
      BY <1>7, <1>9
  <2> HIDE DEF next
  <2>2. UNCHANGED answered /\ next \in SinkType
    BY <1>4, <1>7
  <2>3. QED
    BY <1>6, <1>8, <1>10, <2>1, <2>2, SinkStep

LEMMA AnswerDeliveryInv ==
  ASSUME ReceiptsInv, NEW h \in SinkHandlers, AnswerDelivery(h)
  PROVE  ReceiptsInv'
<1>1. PICK was \in [delivery : Deliveries, pos : Nat \ {0}, worst : Statuses] :
         was = sink[h] /\ was.delivery # NoDelivery /\ ~(was.pos <= Len(was.delivery))
  BY DEF AnswerDelivery, AtEvent, ReceiptsInv, ReceiptsTypeOK, SinkType, IdleSink
<1> DEFINE acked == {d \in owed : d = was.delivery /\ was.worst = 200}
<1>2. /\ owed' = owed \ acked /\ answered' = answered \union acked
      /\ sink' = [sink EXCEPT ![h] = IdleSink] /\ part' = part
  BY <1>1 DEF AnswerDelivery
<1>3. ReceiptsTypeOK'
  BY <1>2 DEF ReceiptsInv, ReceiptsTypeOK, SinkType
<1>4. DoneIsOnRow'
  BY <1>2 DEF ReceiptsInv, ReceiptsTypeOK, DoneIsOnRow, OnRow, IdleSink
<1>5. ASSUME NEW d \in acked, NEW i \in DOMAIN d PROVE OnRow(d[i])
  <2>1. i < was.pos
    BY <1>1, <1>5, DeliveryEvents
  <2>2. QED
    BY <1>1, <1>5, <2>1 DEF ReceiptsInv, DoneIsOnRow
<1>6. AnsweredMeansRecorded'
  BY <1>2, <1>5 DEF ReceiptsInv, AnsweredMeansRecorded, OnRow
<1>7. QED
  BY <1>3, <1>4, <1>6 DEF ReceiptsInv

\* A handler starts on a delivery, or dies.
LEMMA SinkTurnInv ==
  ASSUME ReceiptsInv, NEW h \in SinkHandlers,
         SinkCrash(h) \/ \E d \in owed : BeginDelivery(h, d)
  PROVE  ReceiptsInv'
<1>1. PICK next \in SinkType :
        /\ sink' = [sink EXCEPT ![h] = next]
        /\ next = IdleSink \/ (next.pos = 1 /\ next.delivery \in Deliveries)
  <2>1. CASE SinkCrash(h)
    BY <2>1 DEF SinkCrash, SinkType
  <2>2. CASE \E d \in owed : BeginDelivery(h, d)
    <3>1. PICK d \in Deliveries : sink' = [sink EXCEPT ![h] = [delivery |-> d, pos |-> 1, worst |-> 200]]
      BY <2>2 DEF BeginDelivery, ReceiptsInv, ReceiptsTypeOK
    <3>2. [delivery |-> d, pos |-> 1, worst |-> 200] \in SinkType
      BY DEF SinkType, Statuses
    <3> DEFINE start == [delivery |-> d, pos |-> 1, worst |-> 200]
    <3>3. start.pos = 1 /\ start.delivery \in Deliveries
      OBVIOUS
    <3> HIDE DEF start
    <3>4. QED
      BY <3>1, <3>2, <3>3 DEF start
  <2>3. QED
    BY <2>1, <2>2
<1>2. UNCHANGED <<part, owed, answered>>
  BY DEF SinkCrash, BeginDelivery
<1>3. next.delivery # NoDelivery =>
        \A i \in DOMAIN next.delivery : i < next.pos => OnRow(next.delivery[i])'
  BY <1>1, DeliveryEvents DEF IdleSink
<1>4. /\ RowsStay /\ owed' \subseteq Deliveries
      /\ part' \in [Sids -> [sid : BOOLEAN, at : [Outcomes -> Times \union {NoTime}]]]
  BY <1>2 DEF RowsStay, ReceiptsInv, ReceiptsTypeOK
<1>5. QED
  BY <1>1, <1>2, <1>3, <1>4, SinkStep

LEMMA ReceiptsNextInv == ReceiptsInv /\ [ReceiptsNext]_receiptsVars => ReceiptsInv'
<1> SUFFICES ASSUME ReceiptsInv, [ReceiptsNext]_receiptsVars PROVE ReceiptsInv'
  OBVIOUS
<1>1. CASE \E d \in Deliveries : SendDelivery(d)
  BY <1>1, NoSinkStep DEF SendDelivery, RowsStay, ReceiptsInv, ReceiptsTypeOK
<1>2. CASE \E s \in Sids : WriteSid(s)
  <2>1. PICK s \in Sids : part' = [part EXCEPT ![s].sid = TRUE] /\ UNCHANGED <<owed, answered, sink>>
    BY <1>2 DEF WriteSid
  <2>2. /\ part' \in [Sids -> [sid : BOOLEAN, at : [Outcomes -> Times \union {NoTime}]]]
        /\ RowsStay /\ owed' \subseteq Deliveries
    BY <2>1 DEF RowsStay, ReceiptsInv, ReceiptsTypeOK
  <2>3. QED
    BY <2>1, <2>2, NoSinkStep
<1>3. CASE UNCHANGED receiptsVars
  BY <1>3, NoSinkStep DEF receiptsVars, RowsStay, ReceiptsInv, ReceiptsTypeOK
<1>4. QED
  BY <1>1, <1>2, <1>3, HandleEventInv, AnswerDeliveryInv, SinkTurnInv DEF ReceiptsNext

THEOREM ReceiptsInvariant == ReceiptsSpec => []ReceiptsInv
  BY ReceiptsInitInv, ReceiptsNextInv, PTL DEF ReceiptsSpec

(***************************************************************************)
(* Twilio stops repeating a delivery only when every event in it is on its *)
(* reply's row, whatever order the deliveries, the SID writes, failed      *)
(* updates and dying handlers come in (handleSink's worst status).         *)
(***************************************************************************)
THEOREM AnsweredIsRecorded == ReceiptsSpec => []AnsweredMeansRecorded
<1>1. ReceiptsInv => AnsweredMeansRecorded
  BY DEF ReceiptsInv
<1>2. QED
  BY <1>1, ReceiptsInvariant, PTL

=============================================================================
