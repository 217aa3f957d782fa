---------------------------- MODULE EdgeServiceBus ----------------------------
(***************************************************************************)
(* ServiceBus of an edge node (edge/pkg/servicebus): the HTTP server that  *)
(* passes calls of local applications to the cloud.  It serves the URLs    *)
(* for which the cloud has a rule; the table of URLs is in the database,   *)
(* the server runs while the table is not empty.                           *)
(*                                                                         *)
(* Every message is handled by a goroutine of its own.  The one that       *)
(* empties the table sends to the channel c, which only the goroutine that *)
(* shuts the server down receives from.                                    *)
(***************************************************************************)
EXTENDS Naturals, Sequences, FiniteSets

CONSTANTS
    Urls, Calls,
    UrlOf,          \* the URL a local application calls
    MaxMessages,    \* bound: messages from the cloud
    MaxCrashes      \* bound: restarts of EdgeCore

VARIABLES
    allowed,        \* history: the URLs the messages of the cloud leave
    urls,           \* the table target_urls
    server,         \* "off" (inited is 0), "serving" or "stopping"
    jobs,           \* goroutines of processMessage
    call,           \* where a call of a local application is
    disordered,     \* history: messages were lost or handled out of order
    missed,         \* history: a start found a server that was stopping or no URL
                    \* left, or a stop reached a server that has URLs again
    messages, crashes

vars == <<allowed, urls, server, jobs, call, disordered, missed, messages, crashes>>

\* Start of the loop: a goroutine handles the message "start" or "stop" of a URL.
Start(u, op) ==
    /\ messages < MaxMessages
    /\ messages' = messages + 1
    /\ allowed' = IF op = "start" THEN allowed \cup {u} ELSE allowed \ {u}
    /\ jobs' = jobs \cup {[n |-> messages, url |-> u, op |-> op, at |-> "table"]}
    /\ UNCHANGED <<urls, server, call, disordered, missed, crashes>>

\* The URL stays in the table.
TableKept(j) == urls \cup {j.url}

\* InsertUrls or DeleteUrlsByKey.
Table(j) == IF j.op = "start" THEN urls \cup {j.url} ELSE urls \ {j.url}

\* processMessage, first step: the table.
processTable(j) ==
    /\ j.at = "table"
    /\ urls' = Table(j)
    /\ jobs' = (jobs \ {j}) \cup {[j EXCEPT !.at = "server"]}
    /\ disordered' = (disordered \/ \E k \in jobs : k.n < j.n /\ k.url = j.url /\ k.at = "table")
    /\ UNCHANGED <<allowed, server, call, missed, messages, crashes>>

\* inited goes from 0 to 1.
Swaps == server = "off"

\* Second step of "start": the server is started if inited could be swapped.
processStart(j) ==
    /\ j.at = "server" /\ j.op = "start"
    /\ server' = IF Swaps THEN "serving" ELSE server
    /\ missed' = (missed \/ server = "stopping" \/ urls = {})
    /\ jobs' = jobs \ {j}
    /\ UNCHANGED <<allowed, urls, call, disordered, messages, crashes>>

\* Second step of "stop": is the table empty?
processStop(j) ==
    /\ j.at = "server" /\ j.op = "stop"
    /\ jobs' = IF urls = {} THEN (jobs \ {j}) \cup {[j EXCEPT !.at = "send"]} ELSE jobs \ {j}
    /\ UNCHANGED <<allowed, urls, server, call, disordered, missed, messages, crashes>>

\* The goroutine of the server receives from c ...
sendStop(j) ==
    /\ j.at = "send" /\ server = "serving"
    /\ server' = "stopping"
    /\ missed' = (missed \/ urls # {})
    /\ jobs' = jobs \ {j}
    /\ UNCHANGED <<allowed, urls, call, disordered, messages, crashes>>

\* ... and resets inited when Shutdown has returned.
Shutdown ==
    /\ server = "stopping"
    /\ server' = "off"
    /\ UNCHANGED <<allowed, urls, jobs, call, disordered, missed, messages, crashes>>

\* EdgeCore restarts: the server starts if the table is not empty.
Restart ==
    /\ crashes < MaxCrashes /\ crashes' = crashes + 1
    /\ server' = IF urls # {} THEN "serving" ELSE "off"
    /\ disordered' = (disordered \/ \E j \in jobs : j.at = "table")
    /\ jobs' = {} /\ missed' = FALSE
    /\ call' = [a \in Calls |-> IF call[a] = "waiting" THEN "failed" ELSE call[a]]
    /\ UNCHANGED <<allowed, urls, messages>>

\* buildBasicHandler: a call is refused unless its URL is in the table.
Accepts(a) == UrlOf[a] \in urls

buildBasicHandler(a) ==
    /\ call[a] = "new" /\ server = "serving"
    /\ call' = [call EXCEPT ![a] = IF Accepts(a) THEN "waiting" ELSE "refused"]
    /\ UNCHANGED <<allowed, urls, server, jobs, disordered, missed, messages, crashes>>

\* SendSync has the answer of the cloud, or no answer in time.
SendSync(a) ==
    /\ call[a] = "waiting"
    /\ call' \in {[call EXCEPT ![a] = r] : r \in {"answered", "failed"}}
    /\ UNCHANGED <<allowed, urls, server, jobs, disordered, missed, messages, crashes>>

Init ==
    /\ allowed = {} /\ urls = {} /\ server = "off" /\ jobs = {}
    /\ call = [a \in Calls |-> "new"]
    /\ disordered = FALSE /\ missed = FALSE /\ messages = 0 /\ crashes = 0

Next ==
    \/ \E u \in Urls, op \in {"start", "stop"} : Start(u, op)
    \/ \E j \in jobs : processTable(j) \/ processStart(j) \/ processStop(j) \/ sendStop(j)
    \/ Shutdown \/ Restart
    \/ \E a \in Calls : buildBasicHandler(a) \/ SendSync(a)

Spec == Init /\ [][Next]_vars

-----------------------------------------------------------------------------
\* The variables have their types.
TypeOK ==
    /\ allowed \in SUBSET Urls /\ urls \in SUBSET Urls
    /\ server \in {"off", "serving", "stopping"}
    /\ call \in [Calls -> {"new", "waiting", "refused", "answered", "failed"}]

\* When the messages are handled the server runs if and only if some URL has
\* a rule, and the table holds just those URLs, unless messages were lost or
\* handled out of order, or one went on with the server after another had
\* changed the table.
QuietServes ==
    /\ jobs = {} /\ ~disordered => urls = allowed
    /\ jobs = {} /\ ~missed => (server = "serving") = (urls # {})
=============================================================================
