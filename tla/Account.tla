------------------------------ MODULE Account -------------------------------
(***************************************************************************)
(* The account as the phone holds it (mobile/App.tsx, account.ts, quota.ts,*)
(* settings.ts, SetupScreen.tsx): minted by the server at setup, kept in   *)
(* storage as a token that is the only handle on it, and erased there and  *)
(* here by a deletion of many awaits, while requests, pastes and answers   *)
(* about the quota go on and the app may be killed anywhere.               *)
(*                                                                         *)
(* Only the part of a store that says whose it is is kept: the requests of *)
(* the tokens that have any, and the quota with the account it is about.   *)
(***************************************************************************)
EXTENDS Integers, FiniteSets

CONSTANTS
  Tokens,      \* accounts the server may mint
  MaxAsks,     \* questions about the quota under way at once
  LastMonth,   \* months are counted from 0
  Starting,    \* the app has not read its storage yet
  NoToken, NoQuota

ASSUME AccountAssumption ==
  /\ LastMonth \in Nat /\ MaxAsks \in Nat
  /\ {Starting, NoToken} \intersect Tokens = {} /\ Starting # NoToken

VARIABLES
  accounts,  \* of the server: unminted, live, deleted
  spent,     \* <<account, month>> whose free forecasts are used up
  month,
  phone,     \* its storage: [token, requests, quota]
  app,       \* [token, quota], in memory
  setup,     \* [pc, token] of SetupScreen's Start
  erase,     \* the step a deletion is at
  asks,      \* questions about the quota under way, [by, of, answer]
  saving,    \* accounts an operation of the request store is under way for
  marred     \* ghost: what storage failed at, and what landed behind a deletion
accountVars == <<accounts, spent, month, phone, app, setup, erase, asks, saving, marred>>

Months == 0 .. LastMonth
(* A quota as stored: an `over` with the month it is stored for and, as ghosts,
   the month the server counted and how it was heard; one that is not over
   matters only in whose it is. *)
Free(t) == [of |-> t, over |-> FALSE]
OverIn(t, m, judged, by) == [of |-> t, over |-> TRUE, month |-> m, judged |-> judged, by |-> by]
IsSpent(t, m) == <<t, m>> \in spent
AtHome == app.token \in Tokens

AccountInit ==
  /\ accounts = [t \in Tokens |-> "unminted"] /\ spent = {} /\ month = 0
  /\ phone = [token |-> NoToken, requests |-> {}, quota |-> NoQuota]
  /\ app = [token |-> Starting, quota |-> NoQuota]
  /\ setup = [pc |-> "idle", token |-> NoToken] /\ erase = "no"
  /\ asks = {} /\ saving = {}
  /\ marred = [held |-> {}, failed |-> FALSE, late |-> {}]

-----------------------------------------------------------------------------
(* The launch.  A read that fails reads as nothing stored. *)
Launch(tokenRead, quotaRead) ==
  /\ app.token = Starting
  /\ app' = [token |-> IF tokenRead THEN phone.token ELSE NoToken,
             quota |-> IF quotaRead THEN phone.quota ELSE NoQuota]
  /\ marred' = [marred EXCEPT !.failed = @ \/ (~tokenRead /\ phone.token # NoToken)]
  /\ UNCHANGED <<accounts, spent, month, phone, setup, erase, asks, saving>>

-----------------------------------------------------------------------------
(* Setup: POST /account, then the token into storage. *)
Start ==
  /\ app.token = NoToken /\ setup.pc = "idle"
  /\ setup' = [setup EXCEPT !.pc = "asked"]
  /\ UNCHANGED <<accounts, spent, month, phone, app, erase, asks, saving, marred>>

\* A token nobody has had.
Mint ==
  /\ setup.pc = "asked" /\ \E t \in Tokens : accounts[t] = "unminted"
  /\ LET t == CHOOSE t \in Tokens : accounts[t] = "unminted"
     IN  /\ accounts' = [accounts EXCEPT ![t] = "live"]
         /\ setup' = [pc |-> "minted", token |-> t]
  /\ UNCHANGED <<spent, month, phone, app, erase, asks, saving, marred>>

\* No answer came, or storage refused the token; a minted one is forgotten.
SetupFails ==
  /\ setup.pc # "idle"
  /\ setup' = [pc |-> "idle", token |-> NoToken]
  /\ UNCHANGED <<accounts, spent, month, phone, app, erase, asks, saving, marred>>

SaveToken ==
  /\ setup.pc = "minted"
  /\ phone' = [phone EXCEPT !.token = setup.token]
  /\ app' = [app EXCEPT !.token = setup.token]
  /\ marred' = [marred EXCEPT !.held = @ \union {setup.token}]
  /\ setup' = [pc |-> "idle", token |-> NoToken]
  /\ UNCHANGED <<accounts, spent, month, erase, asks, saving>>

-----------------------------------------------------------------------------
(* handleDeleteAccount: the server first, the token last of what is stored. *)
EraseIn(steps) == erase \in steps
EraseAt(step) == erase' = step

DeleteAccount ==
  /\ AtHome /\ erase = "no" /\ EraseAt("asked")
  /\ UNCHANGED <<accounts, spent, month, phone, app, setup, asks, saving, marred>>

\* An account the server does not know counts as deleted.
ServerDeletes ==
  /\ erase = "asked" /\ EraseAt("answered")
  /\ accounts' = [accounts EXCEPT ![app.token] = "deleted"]
  /\ UNCHANGED <<spent, month, phone, app, setup, asks, saving, marred>>

\* The route could not, or no answer came of what it did, in time.
BadDeleteFails ==
  /\ erase \in {"asked", "answered"} /\ EraseAt("requests")
  /\ UNCHANGED <<accounts, spent, month, phone, app, setup, asks, saving, marred>>
DeleteFails ==
  /\ erase \in {"asked", "answered"} /\ EraseAt("no")
  /\ \/ UNCHANGED accounts
     \/ accounts' = [accounts EXCEPT ![app.token] = "deleted"]
  /\ UNCHANGED <<spent, month, phone, app, setup, asks, saving, marred>>

DeleteAnswered ==
  /\ erase = "answered" /\ EraseAt("requests")
  /\ UNCHANGED <<accounts, spent, month, phone, app, setup, asks, saving, marred>>

\* clearStore and clearSettings go on when storage refuses.
ClearStore(removed) ==
  /\ erase = "requests" /\ EraseAt("settings")
  /\ phone' = IF removed THEN [phone EXCEPT !.requests = @ \ {app.token}] ELSE phone
  /\ marred' = [marred EXCEPT !.failed = @ \/ ~removed]
  /\ UNCHANGED <<accounts, spent, month, app, setup, asks, saving>>

BadClearSettings(removed) ==
  /\ erase = "settings" /\ EraseAt("token")
  /\ marred' = [marred EXCEPT !.failed = @ \/ ~removed]
  /\ UNCHANGED <<accounts, spent, month, phone, app, setup, asks, saving>>
ClearSettings(removed) ==
  /\ erase = "settings" /\ EraseAt("token")
  /\ phone' = IF removed THEN [phone EXCEPT !.quota = NoQuota] ELSE phone
  /\ marred' = [marred EXCEPT !.failed = @ \/ ~removed]
  /\ UNCHANGED <<accounts, spent, month, app, setup, asks, saving>>

\* The packs go in between (PackStore has their removal).
ClearToken ==
  /\ erase = "token" /\ EraseAt("logout")
  /\ phone' = [phone EXCEPT !.token = NoToken]
  /\ UNCHANGED <<accounts, spent, month, app, setup, asks, saving, marred>>

\* A write of the packs' list or of the token that throws ends it there.
EraseThrows ==
  /\ erase = "token" /\ EraseAt("no")
  /\ UNCHANGED <<accounts, spent, month, phone, app, setup, asks, saving, marred>>

\* The screens of the account unmount: its poll is called off, a sync is not.
Forget ==
  /\ erase = "logout" /\ EraseAt("no")
  /\ app' = [token |-> NoToken, quota |-> NoQuota]
  /\ asks' = {q \in asks : q.by # "poll"}
  /\ UNCHANGED <<accounts, spent, month, phone, setup, saving, marred>>

-----------------------------------------------------------------------------
(* What goes on meanwhile.  heardQuota stores what it hears. *)
HearQuota(q, late) ==
  /\ app' = [app EXCEPT !.quota = q]
  /\ phone' = [phone EXCEPT !.quota = q]
  /\ marred' = [marred EXCEPT !.late = IF late THEN @ \union {q.of} ELSE @]

\* Coming to the foreground polls the quota anew; a purchase syncs it.
AskQuota(by) ==
  /\ AtHome
  /\ by = "sync" => \A q \in asks : q.by # "sync"
  /\ LET others == {q \in asks : q.by # by}
     IN  /\ Cardinality(others) < MaxAsks
         /\ asks' = others \union {[by |-> by, of |-> app.token, answer |-> NoQuota]}
  /\ UNCHANGED <<accounts, spent, month, phone, app, setup, erase, saving, marred>>

\* An account that is no more is a 404, which leaves the last state.
Answer(q) ==
  /\ q.answer = NoQuota
  /\ asks' = IF accounts[q.of] # "live" THEN asks \ {q}
             ELSE (asks \ {q}) \union
                    {[q EXCEPT !.answer = IF IsSpent(q.of, month) THEN OverIn(q.of, month, month, "answer")
                                           ELSE Free(q.of)]}
  /\ UNCHANGED <<accounts, spent, month, phone, app, setup, erase, saving, marred>>

AskFails(q) ==
  /\ asks' = asks \ {q}
  /\ UNCHANGED <<accounts, spent, month, phone, app, setup, erase, saving, marred>>

\* Stored for the month it is heard in.
Hear(q) ==
  /\ q.answer # NoQuota
  /\ asks' = asks \ {q}
  /\ HearQuota(IF q.answer.over THEN [q.answer EXCEPT !.month = month] ELSE q.answer,
               EraseIn({"token", "logout"}) \/ app.token # q.of)
  /\ UNCHANGED <<accounts, spent, month, setup, erase, saving>>

\* A reply's header, judged when it was encoded, is stored for the month of its request.
BadPaste(asked, judged, over) ==
  /\ AtHome /\ asked <= judged /\ judged <= month /\ (over => IsSpent(app.token, judged))
  /\ HearQuota(IF over THEN OverIn(app.token, month, judged, "header") ELSE Free(app.token),
               EraseIn({"token", "logout"}))
  /\ saving' = saving \union {app.token}
  /\ UNCHANGED <<accounts, spent, month, setup, erase, asks>>
Paste(asked, judged, over) ==
  /\ AtHome /\ asked <= judged /\ judged <= month /\ (over => IsSpent(app.token, judged))
  /\ HearQuota(IF over THEN OverIn(app.token, asked, judged, "header") ELSE Free(app.token),
               EraseIn({"token", "logout"}))
  /\ saving' = saving \union {app.token}
  /\ UNCHANGED <<accounts, spent, month, setup, erase, asks>>

\* allocCode, or the reply attached to its request.
Request ==
  /\ AtHome
  /\ saving' = saving \union {app.token}
  /\ UNCHANGED <<accounts, spent, month, phone, app, setup, erase, asks, marred>>

PersistRequests(t) ==
  /\ t \in saving /\ saving' = saving \ {t}
  /\ phone' = [phone EXCEPT !.requests = @ \union {t}]
  /\ marred' = [marred EXCEPT !.late =
                  IF app.token # t \/ EraseIn({"settings", "token", "logout"})
                  THEN @ \union {t} ELSE @]
  /\ UNCHANGED <<accounts, spent, month, app, setup, erase, asks>>

\* Only the phone that holds an account sends requests under it.
Spend(t) ==
  /\ accounts[t] = "live" /\ phone.token = t /\ spent' = spent \union {<<t, month>>}
  /\ UNCHANGED <<accounts, month, phone, app, setup, erase, asks, saving, marred>>

NextMonth ==
  /\ month < LastMonth /\ month' = month + 1
  /\ UNCHANGED <<accounts, spent, phone, app, setup, erase, asks, saving, marred>>

\* A request the server had may still be carried out.
KillApp ==
  /\ app' = [token |-> Starting, quota |-> NoQuota]
  /\ setup' = [pc |-> "idle", token |-> NoToken] /\ erase' = "no"
  /\ asks' = {} /\ saving' = {}
  /\ \/ UNCHANGED accounts
     \/ erase = "asked" /\ accounts' = [accounts EXCEPT ![app.token] = "deleted"]
  /\ UNCHANGED <<spent, month, phone, marred>>

AccountNext ==
  \/ \E tokenRead, quotaRead \in BOOLEAN : Launch(tokenRead, quotaRead)
  \/ Start \/ Mint \/ SetupFails \/ SaveToken
  \/ DeleteAccount \/ ServerDeletes \/ DeleteFails \/ DeleteAnswered
  \/ \E removed \in BOOLEAN : ClearStore(removed) \/ ClearSettings(removed)
  \/ ClearToken \/ EraseThrows \/ Forget
  \/ \E by \in {"poll", "sync"} : AskQuota(by)
  \/ \E q \in asks : Answer(q) \/ AskFails(q) \/ Hear(q)
  \/ \E asked, judged \in Months, over \in BOOLEAN : Paste(asked, judged, over)
  \/ Request \/ NextMonth \/ KillApp
  \/ \E t \in Tokens : PersistRequests(t) \/ Spend(t)

AccountSpec == AccountInit /\ [][AccountNext]_accountVars

-----------------------------------------------------------------------------
(***************************************************************************)
(* "The token is the only handle on it": a live account whose token the    *)
(* phone ever stored is one it still can delete, wherever a deletion timed *)
(* out, was refused, threw or was killed, unless the token could not be    *)
(* read at a launch and the app went on to set up another account.         *)
(***************************************************************************)
HeldUntilGone ==
  ~marred.failed => \A t \in marred.held : accounts[t] = "live" => phone.token = t

(***************************************************************************)
(* What the phone has stored of an account goes before the account's token *)
(* does: no crash leaves requests or a quota of an account that is not the *)
(* one held, save those storage refused to remove and those an operation   *)
(* already under way wrote behind the deletion.                            *)
(***************************************************************************)
StoredIsHeld ==
  ~marred.failed =>
    LET mine == {phone.token} \union marred.late
    IN  phone.requests \subseteq mine /\ (phone.quota = NoQuota \/ phone.quota.of \in mine)

(***************************************************************************)
(* A screen that says the month's forecasts are used up says it of this    *)
(* account and this month, however late a reply is pasted (an answer to    *)
(* the app's own question is as old as the month's ends it crosses: the    *)
(* question has no timeout).                                               *)
(***************************************************************************)
OverMeansOver ==
  LET q == app.quota
  IN  AtHome /\ q # NoQuota /\ q.over /\ q.month = month /\ q.of \notin marred.late
        /\ ~marred.failed
      => /\ IsSpent(app.token, q.judged)
         /\ q.judged = month \/ (q.by = "answer" /\ q.judged < month)
=============================================================================
