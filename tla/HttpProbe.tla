----------------------------- MODULE HttpProbe ------------------------------
(***************************************************************************)
(* One probe (src/probe.rs) against a server that may answer, stall, close *)
(* or be reset: connect, TLS handshake, request, first byte, read loop,    *)
(* and the verdict. Each wait has a timer of its own, a cancellation may   *)
(* end most of them, and the caller (worker.rs, or probe() for the         *)
(* baseline) has an outer timer over the whole. With --backend curl, a     *)
(* reference mode of check, it is one wait for a child process.            *)
(*                                                                         *)
(* A response is a number of bytes: its header block, then its body.       *)
(***************************************************************************)
EXTENDS Naturals, FiniteSets

CONSTANTS MaxBytes,    \* bound: bytes a server sends
          ChunkSize,   \* the read buffer, 4096 bytes in the code
          Requests     \* the requests considered, a subset of RequestType

RequestType ==
  [backend : {"native", "curl"}, baseline : BOOLEAN, https : BOOLEAN,
   method : {"GET", "HEAD"}, mode : {"headers", "body", "full"},
   minBody : Nat, maxRead : Nat, verify : Nat, dpi : Nat]

(* Config::validate refuses minBody > maxRead; curl probes no strategies      *)
ASSUME ProbeAssumption ==
  /\ MaxBytes \in Nat /\ ChunkSize \in Nat \ {0}
  /\ Requests \subseteq RequestType
  /\ \A r \in Requests : /\ r.minBody <= r.maxRead
                         /\ r.backend = "curl" => r.baseline

VARIABLES
  request,    \* what is asked for
  server,     \* the response it would send: header bytes, kind of status
  sent,       \* bytes it has sent
  ending,     \* what it did then; "cut" is a TLS stream without close_notify
  phase,      \* where the probe is
  buf,        \* length of buf
  clock,      \* whether the deadlines of the total time have passed
  cancelled,  \* the cancellation token
  result      \* the ProbeResult

net  == <<server, sent, ending>>
vars == <<request, net, phase, buf, clock, cancelled, result>>

Waits  == {"connect", "tls", "write", "firstByte", "read", "curl"}
Phases == {"start", "loop", "done"} \cup Waits

Statuses  == {"success", "block", "other", "none"}
Outcomes  == {"Success", "Timeout", "TcpReset", "TlsAlert", "HttpBlockPage", "EmptyResponse",
              "Refused", "Cancelled", "InternalError", "BodyTooSmall"}
Classes   == {"None", "BindFailed", "ConnectFailed", "ConnectTimeout", "TlsFailed",
              "TlsTimeout", "FirstByteTimeout", "ReadTimeout", "ReadFailed", "CurlFailed",
              "InvalidHttpResponse", "BodyTooSmall", "Cancelled"}
Kinds     == {"None", "Strategy", "Target", "Infrastructure", "Cancelled"}
Levels    == {"None", "Connected", "TlsHandshake", "Headers", "Body", "Verified"}
Verdict   == [outcome : Outcomes, class : Classes, kind : Kinds, level : Levels,
              dpi : BOOLEAN, total : 0 .. MaxBytes, body : 0 .. MaxBytes]
NoVerdict == [outcome |-> "none"]

TypeOK ==
  /\ request \in Requests
  /\ server \in [headers : 1 .. MaxBytes + 1, status : Statuses]
  /\ sent \in 0 .. MaxBytes
  /\ ending \in {"open", "closed", "cut", "reset"}
  /\ phase \in Phases
  /\ buf \in 0 .. sent
  \* the deadlines pass in this order: the outer one is armed first, and an
  \* inner read deadline is rounded up to a whole millisecond
  /\ clock \in {"running", "outer", "both"}
  /\ cancelled \in BOOLEAN
  /\ IF phase = "done" THEN result \in Verdict ELSE result = NoVerdict

Init ==
  /\ request \in Requests
  /\ server \in [headers : 1 .. MaxBytes + 1, status : Statuses]
  /\ sent = 0 /\ ending = "open"
  /\ phase = "start" /\ buf = 0 /\ result = NoVerdict
  /\ clock = "running" /\ cancelled \in BOOLEAN

-----------------------------------------------------------------------------
(***************************************************************************)
(* What the bytes read so far amount to (HttpResponseRead) and what is     *)
(* concluded from them.                                                    *)
(***************************************************************************)
MaxRead == IF request.maxRead = 0 THEN 1 ELSE request.maxRead

Parsed(n) ==
  LET complete == n >= server.headers
  IN  [complete |-> complete,
       status   |-> IF complete THEN server.status ELSE "none",
       body     |-> IF complete THEN n - server.headers ELSE 0,
       total    |-> n]

NothingRead == [complete |-> FALSE, status |-> "none", body |-> 0, total |-> 0]

HeadersOnly == request.method = "HEAD" \/ request.mode = "headers"

\* mutant of Enough: the body criterion is applied to full reads as well
EnoughEarly(read) ==
  /\ read.complete
  /\ \/ HeadersOnly
     \/ read.status \in {"block", "other"}
     \/ read.body >= request.minBody

\* http_read_criteria_met
Enough(read) ==
  /\ read.complete
  /\ \/ HeadersOnly
     \/ read.status \in {"block", "other"}
     \/ request.mode = "body" /\ read.body >= request.minBody

TimeoutCanSucceed(read) ==
  \/ Enough(read)
  \/ /\ request.mode = "full"
     /\ read.complete
     /\ read.status = "success"
     /\ read.body >= request.minBody

TransferLevel(connected, handshaken, read) ==
  IF ~connected THEN "None"
  ELSE IF read.body >= request.verify THEN "Verified"
  ELSE IF read.body > 0 THEN "Body"
  ELSE IF read.complete THEN "Headers"
  ELSE IF handshaken THEN "TlsHandshake" ELSE "Connected"

\* mutant of BodySuffices: the header bytes count towards the body asked for
BodySufficesByTotal(read) == HeadersOnly \/ read.total >= request.minBody

BodySuffices(read) == HeadersOnly \/ read.body >= request.minBody

\* classify_http_response
Classify(read) ==
  IF ~read.complete \/ read.status \in {"none", "other"}
  THEN [outcome |-> "EmptyResponse", class |-> "InvalidHttpResponse"]
  ELSE IF read.status = "block"
  THEN [outcome |-> "HttpBlockPage", class |-> "InvalidHttpResponse"]
  ELSE IF BodySuffices(read)
  THEN [outcome |-> "Success", class |-> "None"]
  ELSE [outcome |-> "BodyTooSmall", class |-> "BodyTooSmall"]

Connected  == phase \notin {"start", "connect", "curl"}
Handshaken == request.https /\ phase \in {"write", "firstByte", "loop", "read"}

\* probe_failure_kind
Blamed == IF request.baseline THEN "Target" ELSE "Strategy"

Report(outcome, class, kind, level, suspicious, read) ==
  /\ phase' = "done"
  /\ result' = [outcome |-> outcome, class |-> class, kind |-> kind, level |-> level,
                dpi |-> suspicious, total |-> read.total, body |-> read.body]
  /\ UNCHANGED <<request, net, buf, clock, cancelled>>

Suspicious(started, read, outcome) ==
  started /\ read.total < request.dpi /\ outcome # "Success"

\* failure: bytes were read in the read loop only
Fail(outcome, class, kind, read) ==
  Report(outcome, class, kind, TransferLevel(Connected, Handshaken, read),
         Suspicious(read.total > 0, read, outcome), read)

\* build_http_probe_result: a failed response is blamed, a success on nobody
Conclude(read) ==
  LET c == Classify(read)
  IN  Report(c.outcome, c.class, IF c.outcome = "Success" THEN "None" ELSE Blamed,
             TransferLevel(Connected, Handshaken, read),
             Suspicious(TRUE, read, c.outcome), read)

\* the results that know nothing of what was reached: cancelled_result and those
\* of the outer timer
Blank(outcome, class, kind) == Report(outcome, class, kind, "None", FALSE, NothingRead)

BlankCancelled == Blank("Cancelled", "Cancelled", "Cancelled")

GoTo(p) ==
  /\ phase' = p
  /\ UNCHANGED <<request, net, buf, clock, cancelled, result>>

-----------------------------------------------------------------------------
(***************************************************************************)
(* The server and the network.                                             *)
(***************************************************************************)
ServerSends ==
  /\ phase \in {"firstByte", "loop", "read", "curl"}
  /\ ending = "open" /\ sent < MaxBytes
  /\ sent' = sent + 1
  /\ UNCHANGED <<request, server, ending, phase, buf, clock, cancelled, result>>

ServerEnds ==
  /\ phase \notin {"start", "connect", "done"} /\ ending = "open"
  /\ ending' \in {"closed", "reset"} \cup (IF request.https THEN {"cut"} ELSE {})
  /\ UNCHANGED <<request, server, sent, phase, buf, clock, cancelled, result>>

TimePasses ==
  /\ phase \notin {"start", "done"}
  /\ \/ clock = "running" /\ clock' = "outer"
     \/ clock = "outer" /\ clock' = "both"
  /\ UNCHANGED <<request, net, phase, buf, cancelled, result>>

Cancel ==
  /\ phase # "done" /\ ~cancelled
  /\ cancelled' = TRUE
  /\ UNCHANGED <<request, net, phase, buf, clock, result>>

-----------------------------------------------------------------------------
(***************************************************************************)
(* The probe.                                                              *)
(***************************************************************************)
\* the baseline prepares its own socket; a strategy's is the worker's
PrepareFails ==
  /\ phase = "start" /\ request.baseline /\ request.backend = "native"
  /\ Blank("InternalError", "BindFailed", "Infrastructure")

StartCancelled ==
  /\ phase = "start" /\ request.backend = "native" /\ cancelled
  /\ BlankCancelled

Start ==
  /\ phase = "start"
  /\ \/ request.backend = "native" /\ ~cancelled /\ GoTo("connect")
     \/ request.backend = "curl" /\ GoTo("curl")

Connect ==
  /\ phase = "connect"
  /\ GoTo(IF request.https THEN "tls" ELSE "write")

ConnectFails ==
  /\ phase = "connect"
  /\ Fail("Refused", "ConnectFailed", Blamed, NothingRead)

Handshake ==
  /\ phase = "tls" /\ ending = "open"
  /\ GoTo("write")

\* no root certificates, or a host that is no server name: checked before the
\* handshake begins
TlsUnusable ==
  /\ phase = "tls"
  /\ \/ Fail("InternalError", "TlsFailed", "Infrastructure", NothingRead)
     \/ Fail("TlsAlert", "TlsFailed", "Infrastructure", NothingRead)

HandshakeFails ==
  /\ phase = "tls"
  /\ Fail("TlsAlert", "TlsFailed", Blamed, NothingRead)

WriteRequest ==
  /\ phase = "write"
  /\ GoTo("firstByte")

WriteFails ==
  /\ phase = "write" /\ ending # "open"
  /\ Fail("EmptyResponse", "ReadFailed", Blamed, NothingRead)

\* rustls reports a stream that ends without close_notify as an error
ConnectionLost == ending = "reset" \/ (ending = "cut" /\ buf = sent)

AtMost(n) == {k \in 1 .. n : k <= ChunkSize}

\* the first read takes a whole chunk and keeps what fits
FirstBytes ==
  /\ phase = "firstByte"
  /\ \E n \in AtMost(sent) : buf' = IF n <= MaxRead THEN n ELSE MaxRead
  /\ phase' = "loop"
  /\ UNCHANGED <<request, net, clock, cancelled, result>>

NoFirstByte ==
  /\ phase = "firstByte"
  /\ \/ ending = "closed" /\ sent = 0 /\ Fail("EmptyResponse", "ReadFailed", Blamed, NothingRead)
     \/ ConnectionLost /\ Fail("TcpReset", "ReadFailed", Blamed, NothingRead)

ReadOn == ~Enough(Parsed(buf)) /\ buf < MaxRead

LoopEnds ==
  /\ phase = "loop" /\ ~ReadOn
  /\ Conclude(Parsed(buf))

LoopCancelled ==
  /\ phase = "loop" /\ ReadOn /\ cancelled
  /\ BlankCancelled

\* mutant of TimeIsUp: a timeout is classified like the end of the response
TimeIsUpAsEnd == Conclude(Parsed(buf))

\* what an elapsed total time means inside the probe
TimeIsUp ==
  IF TimeoutCanSucceed(Parsed(buf)) THEN Conclude(Parsed(buf))
  ELSE Fail("Timeout", "ReadTimeout", Blamed, Parsed(buf))

LoopLate ==
  /\ phase = "loop" /\ ReadOn /\ ~cancelled /\ clock # "running"
  /\ TimeIsUp

AwaitBytes ==
  /\ phase = "loop" /\ ReadOn /\ ~cancelled /\ clock # "both"
  /\ GoTo("read")

\* mutant of ReadBytes: the whole buffer is appended, not the n bytes read
ReadBuffer ==
  /\ phase = "read" /\ sent > buf
  /\ buf' = buf + ChunkSize
  /\ phase' = "loop"
  /\ UNCHANGED <<request, net, clock, cancelled, result>>

ReadBytes ==
  /\ phase = "read"
  /\ \E n \in AtMost(sent - buf) : buf + n <= MaxRead /\ buf' = buf + n
  /\ phase' = "loop"
  /\ UNCHANGED <<request, net, clock, cancelled, result>>

ReadEnd ==
  /\ phase = "read" /\ ending = "closed" /\ buf = sent
  /\ Conclude(Parsed(buf))

\* mutant of ReadFails: the failure does not carry the bytes read
ReadFailsBare ==
  /\ phase = "read" /\ ConnectionLost
  /\ Fail("TcpReset", "ReadFailed", Blamed, NothingRead)

\* a wait means that the criteria are not met, so bytes read do not help here
ReadFails ==
  /\ phase = "read" /\ ConnectionLost
  /\ Fail("TcpReset", "ReadFailed", Blamed, Parsed(buf))

ReadTimeout ==
  /\ phase = "read" /\ clock = "both"
  /\ TimeIsUp

StageTimeout ==
  \/ phase = "connect" /\ Fail("Timeout", "ConnectTimeout", Blamed, NothingRead)
  \/ phase = "tls" /\ Fail("Timeout", "TlsTimeout", Blamed, NothingRead)
  \/ phase = "firstByte" /\ Fail("Timeout", "FirstByteTimeout", Blamed, NothingRead)

\* cancellable_timeout; for the baseline the outer wait is cancellable as well
CancelSeen ==
  /\ cancelled
  /\ \/ phase \in {"connect", "tls", "firstByte", "read"}
     \/ phase = "write" /\ request.baseline
  /\ BlankCancelled

\* mutant of OuterTimeout: only the waits that have a timer of their own
OuterTimeoutPartial ==
  /\ clock # "running" /\ phase \in {"connect", "tls", "firstByte"}
  /\ Blank("Timeout", "ReadTimeout", Blamed)

\* the probe is polled first: it has its own say when its read deadline has
\* passed too, or when it can see the cancellation
OuterTimeout ==
  /\ clock # "running" /\ phase \in {"connect", "tls", "write", "firstByte", "read"}
  /\ ~(phase = "read" /\ clock = "both")
  /\ cancelled => phase = "write"
  /\ Blank("Timeout", "ReadTimeout", Blamed)

-----------------------------------------------------------------------------
(***************************************************************************)
(* --backend curl. It follows no cancellation, reads all there is, takes a *)
(* status for the whole header block, and counts every non-zero exit as a  *)
(* local failure.                                                          *)
(***************************************************************************)
CurlAnswers ==
  /\ phase = "curl" /\ ending = "closed" /\ Parsed(sent).complete
  /\ LET whole == Parsed(IF request.method = "HEAD" THEN server.headers ELSE sent)
         read  == [whole EXCEPT !.complete = whole.status # "none"]
         c     == Classify(read)
     IN  Report(c.outcome, c.class, IF c.outcome = "Success" THEN "None" ELSE Blamed,
                "None", Suspicious(read.complete, read, c.outcome), read)

CurlFails ==
  /\ phase = "curl"
  /\ \E n \in 0 .. sent :
       Report("InternalError", "CurlFailed", "Infrastructure", "None", FALSE,
              Parsed(n))

CurlTimeout ==
  /\ phase = "curl" /\ clock # "running"
  /\ Fail("Timeout", "ReadTimeout", Blamed, NothingRead)

Network == ServerSends \/ ServerEnds \/ Connect \/ ConnectFails \/ Handshake \/ HandshakeFails
           \/ WriteRequest \/ WriteFails \/ FirstBytes \/ NoFirstByte
           \/ ReadBytes \/ ReadEnd \/ ReadFails \/ CurlAnswers \/ CurlFails

\* steps that wait for nothing but time
Timers == Start \/ StartCancelled \/ LoopEnds \/ LoopCancelled \/ LoopLate \/ AwaitBytes
          \/ ReadTimeout \/ StageTimeout \/ CancelSeen \/ OuterTimeout \/ CurlTimeout

Local == PrepareFails \/ TlsUnusable \/ Timers

Ended == phase = "done" /\ UNCHANGED vars

Next == Network \/ Local \/ TimePasses \/ Cancel \/ Ended

Spec == Init /\ [][Next]_vars

(* Time passes and the probe is polled; nothing is assumed of the network.   *)
FairSpec == Spec /\ WF_vars(TimePasses) /\ WF_vars(Timers)

-----------------------------------------------------------------------------
(***************************************************************************)
(* Properties.                                                             *)
(***************************************************************************)
Done == phase = "done"

\* A success rests on what the server really sent, whatever the chunks and the
\* timers: complete headers with a 2xx or 3xx status, and the body asked for.
\* The posteriors count it.
SuccessHasEvidence ==
  Done /\ result.outcome = "Success" =>
    /\ server.status = "success" /\ server.headers <= sent
    /\ HeadersOnly \/ request.minBody <= sent - server.headers

\* A verdict on the response is the server's own doing: it is never blamed for
\* bytes that were still to come. Only a maxRead that headers and body do not
\* fit in cuts it short.
FailureIsTheServers ==
  LET fits(n) == n <= MaxRead
  IN  Done =>
        /\ result.outcome = "HttpBlockPage" =>
             server.status = "block" /\ server.headers <= sent
        /\ result.outcome = "TcpReset" => ending \in {"reset", "cut"}
        /\ result.outcome = "BodyTooSmall" /\ fits(server.headers + request.minBody) =>
             ending = "closed" /\ sent < server.headers + request.minBody
        /\ result.class = "InvalidHttpResponse" /\ fits(server.headers) =>
             \/ server.status # "success" /\ server.headers <= sent
             \/ ending = "closed" /\ sent < server.headers

\* read_mode full means all of the response: its end, the cap, or the deadline.
FullMeansWhole ==
  Done /\ result.outcome = "Success" /\ request.mode = "full" /\ ~HeadersOnly =>
    \/ ending = "closed" /\ result.total = sent
    \/ result.total = MaxRead
    \/ clock # "running"

\* A response that began and then failed below dpi_detection_bytes is reported as
\* suspicious with the bytes that were read, unless the outer timer or a
\* cancellation made the report: those know nothing of what was read.
SuspicionKept ==
  Done /\ buf > 0 /\ buf < request.dpi /\ result.outcome # "Success" =>
    \/ result.dpi /\ result.total = buf
    \/ result.level = "None" /\ (cancelled \/ clock = "outer")

\* Every probe comes back, whatever the server does: also out of the write, which
\* has no timer and follows no cancellation of its own.
ProbeEnds == <>Done
=============================================================================
