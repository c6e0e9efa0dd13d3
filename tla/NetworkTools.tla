---------------------------- MODULE NetworkTools ----------------------------
(***************************************************************************)
(* The network diagnostics of app/routers/debug.py: a scan of four checks, *)
(* and the requests for one.  ping and traceroute are subprocesses, awaited *)
(* for a while; lookups are awaited in a thread, HTTP on the loop; a TCP   *)
(* connection, the lookup it begins with and that of the SSRF guard block. *)
(***************************************************************************)
EXTENDS RequestPipeline

CONSTANTS LookupTime,  \* when the resolver of the operating system gives up
          ConnectTime, \* the timeout of the socket
          ScanPingTime, ToolTime  \* the timeouts of wait_for

ASSUME NetworkAssumption == /\ LookupTime \in Nat /\ ConnectTime \in Nat
                            /\ ScanPingTime \in Nat /\ ToolTime \in Nat

VARIABLES kind,   \* kind[r]: what is asked for
          step,   \* step[r]: what the request is doing
          now,    \* now[r]: the check it is at
          tool,   \* tool[r][c]: the subprocess of a check
          report  \* report[r][c]: what the check came to

scanning == <<kind, step, now, tool, report>>

Tools == {"ping", "trace"}
Checks == Tools \union {"dns", "http", "tcp"}
ScanKinds == {"scan", "scan port"}
Kinds == ScanKinds \union (Checks \ {"trace"})

NetworkInit == /\ kind = [r \in Scans |-> "none"]
               /\ step = [r \in Scans |-> "idle"]
               /\ now = [r \in Scans |-> "end"]
               /\ tool = [r \in Scans |-> [c \in Tools |-> "none"]]
               /\ report = [r \in Scans |-> [c \in Checks |-> "none"]]

First(k) == IF k \in ScanKinds THEN "ping" ELSE k

(* Mutant of After: the lookup or the connection ends a scan.               *)
AfterHasty(k, c) == IF k \notin ScanKinds \/ c \in {"dns", "tcp"} THEN "end"
                    ELSE IF c = "ping" THEN "dns" ELSE "end"

(* The order of the checks.                                                *)
After(k, c) == IF k \notin ScanKinds \/ c = "trace" THEN "end"
               ELSE IF c = "ping" THEN "dns"
               ELSE IF c = "dns" /\ k = "scan port" THEN "tcp" ELSE "trace"

Limit(k, c) == IF k \in ScanKinds /\ c = "ping" THEN ScanPingTime ELSE ToolTime

(* The request goes on to a check, or to its answer; a subprocess may be   *)
(* missing.                                                                *)
Begin(r, k, c) ==
  /\ now' = [now EXCEPT ![r] = c]
  /\ Gate(r, IF c = "end" THEN "answered" ELSE "handled")
  /\ \/ /\ c \in Tools
        /\ \E s \in {"runs", "missing"} : tool' = [tool EXCEPT ![r][c] = s]
        /\ Timer(r, Limit(k, c)) /\ GiveWay
        /\ step' = [step EXCEPT ![r] = "await"]
     \/ /\ c \in {"dns", "http"}
        /\ GiveWay
        /\ step' = [step EXCEPT ![r] = "await"]
        /\ UNCHANGED <<timer, tool>>
     \/ /\ c = "tcp"
        /\ Timer(r, LookupTime) /\ Hold(r)
        /\ step' = [step EXCEPT ![r] = "resolve"]
        /\ UNCHANGED tool
     \/ /\ c = "end"
        /\ GiveWay
        /\ step' = [step EXCEPT ![r] = "done"]
        /\ UNCHANGED <<timer, tool>>

GoOn(r) == Begin(r, kind[r], After(kind[r], now[r])) /\ UNCHANGED kind
Reports(r, v) == report' = [report EXCEPT ![r][now[r]] = v]

(* Mutant of Ask: the first check begins while the guard looks.            *)
AskAhead(r) ==
  /\ Enters(r)
  /\ \E k \in Kinds : /\ kind' = [kind EXCEPT ![r] = k]
                      /\ Gate(r, "handled") /\ Timer(r, LookupTime) /\ Hold(r)
                      /\ step' = [step EXCEPT ![r] = "guard"]
                      /\ tool' = [tool EXCEPT ![r]["ping"] = IF First(k) = "ping" THEN "runs" ELSE @]
  /\ UNCHANGED <<now, report>>

(* With and without ssrf_protection_enabled.                               *)
Ask(r) ==
  /\ Enters(r)
  /\ \E k \in Kinds : /\ kind' = [kind EXCEPT ![r] = k]
                      /\ \/ Begin(r, k, First(k))
                         \/ /\ Gate(r, "handled") /\ Timer(r, LookupTime) /\ Hold(r)
                            /\ step' = [step EXCEPT ![r] = "guard"]
                            /\ UNCHANGED <<now, tool>>
  /\ UNCHANGED report

(* _guard_ssrf has looked the host up; it refuses it, raises on something  *)
(* it does not expect, or lets it pass.                                    *)
GuardPasses(r) == /\ step[r] = "guard"
                  /\ Begin(r, kind[r], First(kind[r]))
                  /\ UNCHANGED <<kind, report>>

GuardRefuses(r) == /\ step[r] = "guard"
                   /\ step' = [step EXCEPT ![r] = "done"]
                   /\ Gate(r, "refused") /\ GiveWay
                   /\ UNCHANGED <<timer, kind, now, tool, report>>

Awaits(r, cs) == Free /\ step[r] = "await" /\ now[r] \in cs

ToolAnswers(r) == /\ Awaits(r, Tools) /\ tool[r][now[r]] = "ended"
                  /\ Reports(r, "output") /\ GoOn(r)

(* Mutant of ToolFails: wait_for has no timeout.                           *)
ToolFailsMissing(r) == /\ Awaits(r, Tools) /\ tool[r][now[r]] = "missing"
                       /\ Reports(r, "error") /\ GoOn(r)

(* It cannot be started, or wait_for runs out, even if it ended by now; a  *)
(* subprocess that has not is left to itself.                              *)
ToolFails(r) == /\ Awaits(r, Tools)
                /\ tool[r][now[r]] = "missing" \/ timer[r] = 0
                /\ Reports(r, "error") /\ GoOn(r)

LookupEnds(r) == /\ Awaits(r, {"dns"})
                 /\ \E v \in {"output", "error"} : Reports(r, v)
                 /\ GoOn(r)

(* Mutant of LookupRaises: the scan is answered with what it has.          *)
LookupRaisesHalf(r) == /\ Awaits(r, {"dns"})
                       /\ step' = [step EXCEPT ![r] = "done"]
                       /\ Gate(r, "answered") /\ GiveWay
                       /\ UNCHANGED <<timer, kind, now, tool, report>>

(* Only gaierror is caught: whatever else the lookup raises (OSError,      *)
(* UnicodeError) ends the request as an internal error of the middleware's. *)
LookupRaises(r) == /\ Awaits(r, {"dns"})
                   /\ step' = [step EXCEPT ![r] = "done"]
                   /\ Gate(r, "broken") /\ GiveWay
                   /\ UNCHANGED <<timer, kind, now, tool, report>>

(* The whole answer is here, or an operation on the connection failed; the *)
(* timeout is of each operation, so that a server may keep this from       *)
(* happening.                                                              *)
CurlEnds(r) == /\ Awaits(r, {"http"})
               /\ \E v \in {"output", "error"} : Reports(r, v)
               /\ GoOn(r)

(* connect() has the address, or fails to; it connects, is refused or      *)
(* times out.                                                              *)
Resolved(r) == /\ step[r] = "resolve"
               /\ step' = [step EXCEPT ![r] = "connect"]
               /\ Timer(r, ConnectTime)
               /\ UNCHANGED <<gate, loop, held, kind, now, tool, report>>

TcpEnds(r) == /\ step[r] \in {"resolve", "connect"}
              /\ \E v \in {"output", "error"} : /\ step[r] = "resolve" => v = "error"
                                                /\ Reports(r, v)
              /\ GoOn(r)

Answering(r) == \/ GuardPasses(r) \/ GuardRefuses(r)
                \/ ToolAnswers(r) \/ ToolFails(r) \/ LookupEnds(r) \/ LookupRaises(r)
                \/ Resolved(r) \/ TcpEnds(r)

(* A subprocess ends, awaited or not.                                      *)
ToolEnds(r, c) == /\ tool[r][c] = "runs"
                  /\ tool' = [tool EXCEPT ![r][c] = "ended"]
                  /\ UNCHANGED <<pipeline, kind, step, now, report>>
=============================================================================
