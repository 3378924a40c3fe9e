----------------------------- MODULE GuardedTool -----------------------------
(***************************************************************************)
(* The Python SDK (src/sdk/python/neuralops): a guarded tool asks for an   *)
(* authorization, consumes the lease, and then runs.  A thread serves one  *)
(* invocation at a time; an agent framework may invoke a tool again under  *)
(* the same idempotency key.  Requests can be lost, delayed past the       *)
(* client's timeout, or answered by a proxy; the client sends them again.  *)
(* The server's side is one step per request: Authorization has its steps. *)
(*                                                                         *)
(* A definition marked "Faulty variant" belongs to no specification.       *)
(***************************************************************************)
EXTENDS Naturals, FiniteSets, Server

CONSTANTS
  ToolKeys,      \* idempotency keys, each with the identity, action and arguments it binds
  Reviewed,      \* the keys whose action needs an approval
  MaxPosts       \* requests sent by all threads (a bound)

VARIABLES
  granted,       \* on the server, by key: the lease's status, None before it is issued
  approved,      \* on the server, by key: the approval's status, None before it is requested
  tool,          \* per thread: the invocation or call it is in
  posts,         \* requests sent, which numbers them
  wire,          \* requests sent and not yet served
  taken,         \* history variable, by key: consumptions the server committed
  ran            \* history variable, by key: runs of the wrapped function

guardVars == <<granted, approved, tool, posts, wire, taken, ran>>

-----------------------------------------------------------------------------
\* The calls of the client: a guard makes the first and the last of them.
Calls == {"authorize", "approval", "validate", "consume"}
LeaseStatus == {"active", "consumed", "void"}
\* unusable: a retryable status, no connection, or an answer that does not fit
\* the request.
Replies == {"ok", "review", "rejected", "unusable"}
NoTool == [at |-> "idle", call |-> None, key |-> None, guard |-> FALSE, n |-> 0, reply |-> None]
Message == [from : Threads, n : 1..MaxPosts, call : Calls, key : ToolKeys]

ASSUME GuardAssumption ==
  /\ Reviewed \subseteq ToolKeys /\ MaxPosts \in Nat
  /\ None \notin LeaseStatus \cup Replies \cup {"pending", "approved", "blocked"}

GuardInit ==
  /\ granted = [k \in ToolKeys |-> None]
  /\ approved = [k \in ToolKeys |-> None]
  /\ tool = [t \in Threads |-> NoTool]
  /\ posts = 0
  /\ wire = {}
  /\ taken = [k \in ToolKeys |-> 0]
  /\ ran = [k \in ToolKeys |-> 0]

ServerUnchanged == UNCHANGED <<granted, approved, taken>>
Deny(t) == tool' = [tool EXCEPT ![t] = NoTool] /\ UNCHANGED <<posts, wire>>

\* One request of _agent_control_post: the body and the key stay the same from
\* attempt to attempt.
Post(t, c) ==
  /\ posts < MaxPosts
  /\ posts' = posts + 1
  /\ wire' = wire \cup {[from |-> t, n |-> posts', call |-> c.call, key |-> c.key]}
  /\ tool' = [tool EXCEPT ![t] = [c EXCEPT !.at = "wait", !.n = posts', !.reply = None]]

-----------------------------------------------------------------------------
\* guarded: the arguments are hashed; for anything but a metadata read the
\* preview policy is read first; without it, or without the preview it asks
\* for, nothing is sent.
Invoke(t, k) ==
  /\ tool[t].at = "idle"
  /\ Post(t, [NoTool EXCEPT !.call = "authorize", !.key = k, !.guard = TRUE])
  /\ ServerUnchanged /\ UNCHANGED ran

\* A program may also make one call of the client itself; a lease it validates
\* is one the server issued.
CallClient(t, k, call) ==
  /\ tool[t].at = "idle"
  /\ call \in {"validate", "consume"} => granted[k] # None
  /\ Post(t, [NoTool EXCEPT !.call = call, !.key = k])
  /\ ServerUnchanged /\ UNCHANGED ran

\* A request that is not answered in time stays on its way.
Retry(t) ==
  \/ tool[t].call # "consume" /\ Post(t, tool[t])   \* _can_retry_agent_request
  \/ Deny(t)

TimeOut(t) ==
  /\ tool[t].at = "wait"
  /\ Retry(t)
  /\ ServerUnchanged /\ UNCHANGED ran

\* Faulty variant: a consumption whose outcome is unknown lets the tool run.
RunsOnUnknown(t) ==
  LET c == tool[t] IN
  /\ c.at = "wait" /\ c.reply # None
  /\ CASE c.reply = "ok" /\ c.call = "authorize" /\ c.guard -> Post(t, [c EXCEPT !.call = "consume"])
       [] c.reply # "rejected" /\ c.call = "consume" /\ c.guard ->
            tool' = [tool EXCEPT ![t].at = "run"] /\ UNCHANGED <<posts, wire>>
       [] c.reply = "unusable" /\ c.call # "consume" -> Retry(t)
       [] OTHER -> Deny(t)
  /\ ServerUnchanged /\ UNCHANGED ran

\* _agent_control_post takes the reply: retryable statuses and answers that do
\* not fit the request are tried again, except a consumption; a review is
\* raised to the caller with the approval.
TakeReply(t) ==
  LET c == tool[t] IN
  /\ c.at = "wait" /\ c.reply # None
  /\ CASE c.reply = "ok" /\ c.call = "authorize" /\ c.guard -> Post(t, [c EXCEPT !.call = "consume"])
       [] c.reply = "ok" /\ c.call = "consume" /\ c.guard ->
            tool' = [tool EXCEPT ![t].at = "run"] /\ UNCHANGED <<posts, wire>>
       [] c.reply = "unusable" -> Retry(t)
       [] OTHER -> Deny(t)
  /\ ServerUnchanged /\ UNCHANGED ran

RunTool(t) ==
  /\ tool[t].at = "run"
  /\ ran' = [ran EXCEPT ![tool[t].key] = @ + 1]
  /\ Deny(t)
  /\ ServerUnchanged

\* The agent's process stops, between consumption and run too.
StopAgent(t) ==
  /\ tool[t].at # "idle"
  /\ Deny(t)
  /\ ServerUnchanged /\ UNCHANGED ran

-----------------------------------------------------------------------------
Approved(k) == k \in Reviewed => approved[k] = "approved"

\* What the server answers: a lease issued before is replayed while it is
\* active; an approval is answered as stored, and the client accepts a pending one.
ServerReply(m) ==
  LET k == m.key IN
  CASE m.call \in {"consume", "validate"} -> IF granted[k] = "active" THEN "ok" ELSE "rejected"
    [] m.call = "approval" -> IF approved[k] \in {None, "pending"} THEN "ok" ELSE "unusable"
    [] m.call = "authorize" -> IF granted[k] = "active" \/ (granted[k] = None /\ Approved(k)) THEN "ok"
                               ELSE IF granted[k] = None /\ approved[k] \in {None, "pending"} THEN "review"
                               ELSE "rejected"

\* Faulty variant: a lease that was revoked or has expired is issued again.
ProcessReissues(m) ==
  LET k == m.key IN
  /\ granted' = IF m.call = "consume" /\ granted[k] = "active" THEN [granted EXCEPT ![k] = "consumed"]
                ELSE IF m.call = "authorize" /\ granted[k] \in {None, "void"} /\ Approved(k)
                  THEN [granted EXCEPT ![k] = "active"]
                ELSE granted
  /\ approved' = IF m.call \in {"authorize", "approval"} /\ k \in Reviewed /\ approved[k] = None
                   THEN [approved EXCEPT ![k] = "pending"] ELSE approved
  /\ taken' = IF granted'[k] = "consumed" /\ granted[k] # "consumed" THEN [taken EXCEPT ![k] = @ + 1] ELSE taken

\* And what it changes: Issue, Create and Consume of Authorization.
Process(m) ==
  LET k == m.key IN
  /\ granted' = IF m.call = "consume" /\ granted[k] = "active" THEN [granted EXCEPT ![k] = "consumed"]
                ELSE IF m.call = "authorize" /\ granted[k] = None /\ Approved(k) THEN [granted EXCEPT ![k] = "active"]
                ELSE granted
  /\ approved' = IF m.call \in {"authorize", "approval"} /\ k \in Reviewed /\ approved[k] = None
                   THEN [approved EXCEPT ![k] = "pending"] ELSE approved
  /\ taken' = IF granted'[k] = "consumed" /\ granted[k] # "consumed" THEN [taken EXCEPT ![k] = @ + 1] ELSE taken

\* The reply reaches the client if it still waits for this request.
Respond(m, reply) ==
  /\ wire' = wire \ {m}
  /\ tool' = IF tool[m.from].at = "wait" /\ tool[m.from].reply = None /\ tool[m.from].n = m.n
               THEN [tool EXCEPT ![m.from].reply = reply] ELSE tool
  /\ UNCHANGED <<posts, ran>>

\* The server's answer, or what a proxy or a broken connection makes of it.
Serve(m, heard) ==
  /\ m \in wire
  /\ Process(m)
  /\ \/ heard = ServerReply(m)
     \/ heard = "unusable"
  /\ Respond(m, heard)

\* A request that does not reach the server is answered 502, 503 or 504.
Bounce(m) ==
  /\ m \in wire
  /\ Respond(m, "unusable")
  /\ ServerUnchanged

\* A reviewer decides, or revokes an approval; a lease expires, is revoked, or is found expired by a
\* validation that read it before it was consumed.
Review(k, decision) ==
  /\ \/ approved[k] = "pending"
     \/ approved[k] = "approved" /\ granted[k] = None /\ decision = "blocked"
  /\ approved' = [approved EXCEPT ![k] = decision]
  /\ UNCHANGED <<granted, tool, posts, wire, taken, ran>>

VoidLease(k) ==
  /\ granted[k] \in {"active", "consumed"}
  /\ granted' = [granted EXCEPT ![k] = "void"]
  /\ UNCHANGED <<approved, tool, posts, wire, taken, ran>>

GuardNext ==
  \/ \E t \in Threads, k \in ToolKeys : Invoke(t, k) \/ \E call \in Calls : CallClient(t, k, call)
  \/ \E t \in Threads : TimeOut(t) \/ TakeReply(t) \/ RunTool(t) \/ StopAgent(t)
  \/ \E m \in wire : Bounce(m) \/ \E heard \in Replies : Serve(m, heard)
  \/ \E k \in ToolKeys : VoidLease(k) \/ \E decision \in {"approved", "blocked"} : Review(k, decision)

GuardSpec == GuardInit /\ [][GuardNext]_guardVars

-----------------------------------------------------------------------------
GuardTypeOK ==
  /\ granted \in [ToolKeys -> LeaseStatus \cup {None}]
  /\ approved \in [ToolKeys -> {None, "pending", "approved", "blocked"}]
  /\ \A t \in Threads : tool[t].reply \in Replies \cup {None}
  /\ posts \in 0..MaxPosts
  /\ wire \subseteq Message
  /\ ran \in [ToolKeys -> Nat]

(* The wrapped function runs only for a consumption of the lease its key    *)
(* was issued, at most once for a key, and for a reviewed action only after *)
(* an approval: whatever is lost, delayed, sent twice or invoked again.     *)
ToolRunsOnce ==
  \A k \in ToolKeys :
    /\ ran[k] <= taken[k] /\ taken[k] <= 1
    /\ ran[k] > 0 /\ k \in Reviewed => approved[k] = "approved"

-----------------------------------------------------------------------------
(* The lease of a key as the abstract specification sees it.               *)

\* Thread t learned that its consumption was committed, and has not run yet.
Ticket(t, k) ==
  /\ tool[t].key = k
  /\ tool[t].at = "run" \/ (tool[t].at = "wait" /\ tool[t].call = "consume" /\ tool[t].reply = "ok")

ToolGrant(k) ==
  CASE ran[k] > 1 -> "overused"
    [] ran[k] = 1 -> "used"
    [] ran[k] = 0 /\ granted[k] = None -> "unissued"
    [] ran[k] = 0 /\ granted[k] = "active" -> "live"
    [] ran[k] = 0 /\ granted[k] \notin {None, "active"} ->
         IF \E t \in Threads : Ticket(t, k) THEN "taken" ELSE "void"

LG == INSTANCE LeaseGrant WITH Leases <- ToolKeys, grant <- [k \in ToolKeys |-> ToolGrant(k)]

(* From end to end the SDK, a network that loses, delays and repeats, and   *)
(* the server keep what a lease promises (LeaseGrant): a run is licensed by *)
(* one consumption that was answered, a consumption whose answer is lost    *)
(* licenses none, and nothing brings an ended lease back.                   *)
ToolAsGranted == LG!GrantSpec
===============================================================================
