-------------------------- MODULE HttpProbeProofs ---------------------------
(***************************************************************************)
(* Theorems about HttpProbe for every request, chunk size and response.    *)
(***************************************************************************)
EXTENDS HttpProbe, TLAPS

\* The three properties of verdicts that are proved together.
Justified == SuccessHasEvidence /\ FailureIsTheServers /\ FullMeansWhole

\* Why they hold: the probe waits for more bytes only while the response does not
\* settle the matter and there is room left, so a verdict drawn from a part of the
\* response is never that something is missing from it.
ProbeInv ==
  /\ TypeOK
  /\ buf <= MaxRead
  /\ phase = "read" => ReadOn
  /\ Justified

Read == [complete : BOOLEAN, status : Statuses, body : 0 .. MaxBytes, total : 0 .. MaxBytes]

LEMMA RequestIsTyped ==
  ASSUME TypeOK
  PROVE  /\ request \in RequestType /\ request.minBody \in Nat /\ request.maxRead \in Nat
         /\ request.verify \in Nat /\ request.dpi \in Nat
         /\ request.mode \in {"headers", "body", "full"}
         /\ MaxRead \in Nat \ {0} /\ MaxBytes \in Nat
  <1>1. request \in RequestType /\ MaxBytes \in Nat
    BY ProbeAssumption DEF TypeOK
  <1> QED
    BY <1>1 DEF RequestType, MaxRead

\* What the bytes say depends on their number and the response alone.
LEMMA ParsedRead ==
  ASSUME TypeOK, NEW n \in 0 .. MaxBytes
  PROVE  /\ Parsed(n) \in Read
         /\ Parsed(n).total = n
         /\ Parsed(n).complete <=> n >= server.headers
         /\ n >= server.headers => /\ Parsed(n).status = server.status
                                   /\ Parsed(n).body = n - server.headers
  <1>1. server.headers \in 1 .. MaxBytes + 1 /\ server.status \in Statuses /\ MaxBytes \in Nat
    BY ProbeAssumption DEF TypeOK
  <1>2. "none" \in Statuses
    BY DEF Statuses
  <1>3. n - server.headers \in 0 .. MaxBytes \/ n < server.headers
    BY <1>1
  <1>4. (n >= server.headers) \in BOOLEAN
    OBVIOUS
  <1>5. /\ Parsed(n).total = n
        /\ Parsed(n).complete = (n >= server.headers)
        /\ n >= server.headers => /\ Parsed(n).status = server.status
                                  /\ Parsed(n).body = n - server.headers
    BY DEF Parsed
  <1>6. Parsed(n) \in Read
    BY <1>1, <1>2, <1>3, <1>4 DEF Parsed, Read
  <1> QED
    BY <1>4, <1>5, <1>6

\* The verdict classes are disjoint, and each names its ground.
LEMMA Classified ==
  ASSUME NEW read \in Read, TypeOK
  PROVE  LET c == Classify(read)
         IN  /\ c.outcome \in Outcomes /\ c.class \in Classes
             /\ c.outcome \in {"EmptyResponse", "HttpBlockPage", "Success", "BodyTooSmall"}
             /\ c.class = "InvalidHttpResponse" => ~read.complete \/ read.status # "success"
             /\ c.outcome = "HttpBlockPage" => read.complete /\ read.status = "block"
             /\ c.outcome = "Success" =>
                  read.complete /\ read.status = "success" /\ BodySuffices(read)
             /\ c.outcome = "BodyTooSmall" =>
                  read.complete /\ read.status = "success" /\ ~BodySuffices(read)
  BY DEF Classify, Read, Statuses, Outcomes, Classes

LEMMA LevelTyped ==
  ASSUME NEW c \in BOOLEAN, NEW h \in BOOLEAN, NEW read \in Read
  PROVE  TransferLevel(c, h, read) \in Levels
  BY DEF TransferLevel, Levels

\* Every report has the type of a verdict and ends the probe.
LEMMA ReportTyped ==
  ASSUME TypeOK, NEW o \in Outcomes, NEW c \in Classes, NEW k \in Kinds, NEW l \in Levels,
         NEW s \in BOOLEAN, NEW read \in Read, Report(o, c, k, l, s, read)
  PROVE  /\ TypeOK'
         /\ phase' = "done" /\ UNCHANGED <<request, server, sent, ending, buf, clock, cancelled>>
         /\ result'.outcome = o /\ result'.class = c /\ result'.total = read.total
  <1>1. result' = [outcome |-> o, class |-> c, kind |-> k, level |-> l,
                   dpi |-> s, total |-> read.total, body |-> read.body]
    BY DEF Report
  <1>2. phase' = "done" /\ UNCHANGED <<request, server, sent, ending, buf, clock, cancelled>>
    BY DEF Report, net
  <1>3. result' \in Verdict
    BY <1>1 DEF Verdict, Read
  <1> QED
    BY <1>1, <1>2, <1>3 DEF TypeOK, Phases

-----------------------------------------------------------------------------
(***************************************************************************)
(* The three ways in which a probe ends.                                   *)
(***************************************************************************)

\* A result that knows nothing of the response accuses nobody of it.
LEMMA BlankJustified ==
  ASSUME TypeOK, NEW o \in {"Cancelled", "Timeout", "InternalError"},
         NEW c \in Classes \ {"InvalidHttpResponse"}, NEW k \in Kinds, Blank(o, c, k)
  PROVE  TypeOK' /\ Justified' /\ phase' = "done"
                 /\ UNCHANGED <<request, server, sent, ending, buf>>
  <1>1. NothingRead \in Read
    BY RequestIsTyped DEF NothingRead, Read, Statuses
  <1>2. Report(o, c, k, "None", FALSE, NothingRead)
    BY DEF Blank
  <1>3. /\ TypeOK'
        /\ phase' = "done" /\ UNCHANGED <<request, server, sent, ending, buf>>
        /\ result'.outcome = o /\ result'.class = c
    <2>1. o \in Outcomes /\ c \in Classes /\ "None" \in Levels /\ FALSE \in BOOLEAN
      BY DEF Outcomes, Levels
    <2> QED
      BY <1>1, <1>2, <2>1, ReportTyped
  <1>4. Justified'
    BY <1>3 DEF Justified, SuccessHasEvidence, FailureIsTheServers, FullMeansWhole
  <1> QED
    BY <1>3, <1>4

\* A failure of the transport is no verdict on the response; a reset was one.
LEMMA FailJustified ==
  ASSUME TypeOK, NEW o \in Outcomes \ {"Success", "HttpBlockPage", "BodyTooSmall"},
         NEW c \in Classes \ {"InvalidHttpResponse"}, NEW k \in Kinds, NEW read \in Read,
         o = "TcpReset" => ending \in {"reset", "cut"},
         Fail(o, c, k, read)
  PROVE  TypeOK' /\ Justified' /\ phase' = "done"
                 /\ UNCHANGED <<request, server, sent, ending, buf>>
  <1>1. TransferLevel(Connected, Handshaken, read) \in Levels
    BY LevelTyped, RequestIsTyped DEF Connected, Handshaken, RequestType
  <1>2. Suspicious(read.total > 0, read, o) \in BOOLEAN
    BY RequestIsTyped DEF Suspicious, Read
  <1>3. /\ TypeOK'
        /\ phase' = "done" /\ UNCHANGED <<request, server, sent, ending, buf>>
        /\ result'.outcome = o /\ result'.class = c
    BY <1>1, <1>2, ReportTyped DEF Fail
  <1>4. Justified'
    BY <1>3 DEF Justified, SuccessHasEvidence, FailureIsTheServers, FullMeansWhole
  <1> QED
    BY <1>3, <1>4

\* When the bytes are judged nothing that could still come would change the
\* verdict: the criteria are met, there is no room left, the response has ended,
\* or the time is up and what there is suffices.
Settled ==
  \/ ~ReadOn
  \/ ending = "closed" /\ buf = sent
  \/ TimeoutCanSucceed(Parsed(buf)) /\ clock # "running"

LEMMA ConcludeJustified ==
  ASSUME TypeOK, buf <= MaxRead, Settled, Conclude(Parsed(buf))
  PROVE  TypeOK' /\ Justified' /\ phase' = "done"
                 /\ UNCHANGED <<request, server, sent, ending, buf>>
  <1> DEFINE read == Parsed(buf)
             c == Classify(read)
             k == IF c.outcome = "Success" THEN "None" ELSE Blamed
             l == TransferLevel(Connected, Handshaken, read)
             s == Suspicious(TRUE, read, c.outcome)
  <1>1. /\ buf \in 0 .. MaxBytes /\ buf \in Nat /\ sent \in Nat /\ buf <= sent
        /\ server.headers \in Nat
    BY RequestIsTyped DEF TypeOK
  <1>2. /\ read \in Read /\ read.total = buf /\ (read.complete <=> buf >= server.headers)
        /\ buf >= server.headers =>
             read.status = server.status /\ read.body = buf - server.headers
    BY <1>1, ParsedRead
  <1>3. /\ c.outcome \in Outcomes /\ c.class \in Classes
        /\ c.outcome \in {"EmptyResponse", "HttpBlockPage", "Success", "BodyTooSmall"}
        /\ c.class = "InvalidHttpResponse" => ~read.complete \/ read.status # "success"
        /\ c.outcome = "HttpBlockPage" => read.complete /\ read.status = "block"
        /\ c.outcome = "Success" => read.complete /\ read.status = "success" /\ BodySuffices(read)
        /\ c.outcome = "BodyTooSmall" =>
             read.complete /\ read.status = "success" /\ ~BodySuffices(read)
    BY <1>2, Classified
  <1>4. k \in Kinds
    BY DEF Blamed, Kinds
  <1>5. l \in Levels
    BY <1>2, LevelTyped, RequestIsTyped DEF Connected, Handshaken, RequestType
  <1>6. s \in BOOLEAN
    BY DEF Suspicious
  <1>7. Report(c.outcome, c.class, k, l, s, read)
    BY DEF Conclude
  <1> HIDE DEF read, c, k, l, s
  <1>8. /\ TypeOK'
        /\ phase' = "done" /\ UNCHANGED <<request, server, sent, ending, buf, clock>>
        /\ result'.outcome = c.outcome /\ result'.class = c.class /\ result'.total = buf
    BY <1>2, <1>3, <1>4, <1>5, <1>6, <1>7, ReportTyped
  <1>9. /\ \/ Enough(read) \/ buf >= MaxRead
           \/ ending = "closed" /\ buf = sent
           \/ TimeoutCanSucceed(read) /\ clock # "running"
        /\ MaxRead \in Nat /\ request.minBody \in Nat
        /\ UNCHANGED <<MaxRead, HeadersOnly>>
    BY <1>1, <1>8, RequestIsTyped DEF Settled, ReadOn, read, MaxRead, HeadersOnly
  <1>10. SuccessHasEvidence'
    <2>1. c.outcome = "Success" =>
            /\ server.status = "success" /\ server.headers <= sent
            /\ HeadersOnly \/ request.minBody <= sent - server.headers
      BY <1>1, <1>2, <1>3, <1>9 DEF BodySuffices
    <2> QED
      BY <1>8, <1>9, <2>1 DEF SuccessHasEvidence
  <1>11. FailureIsTheServers'
    <2>1. c.outcome = "HttpBlockPage" => server.status = "block" /\ server.headers <= sent
      BY <1>1, <1>2, <1>3
    <2>2. c.outcome = "BodyTooSmall" /\ server.headers + request.minBody <= MaxRead =>
            ending = "closed" /\ sent < server.headers + request.minBody
      <3> SUFFICES ASSUME c.outcome = "BodyTooSmall",
                          server.headers + request.minBody <= MaxRead
                   PROVE  ending = "closed" /\ sent < server.headers + request.minBody
        OBVIOUS
      <3>1. /\ read.complete /\ read.status = "success" /\ ~HeadersOnly
            /\ ~(read.body >= request.minBody)
            /\ read.body = buf - server.headers
        BY <1>2, <1>3 DEF BodySuffices
      <3>2. ~Enough(read) /\ ~TimeoutCanSucceed(read)
        BY <3>1 DEF Enough, TimeoutCanSucceed
      <3>3. buf < server.headers + request.minBody
        BY <1>1, <1>9, <3>1
      <3> QED
        BY <1>1, <1>9, <3>2, <3>3
    <2>3. c.class = "InvalidHttpResponse" /\ server.headers <= MaxRead =>
            \/ server.status # "success" /\ server.headers <= sent
            \/ ending = "closed" /\ sent < server.headers
      <3>1. buf >= server.headers =>
              (c.class = "InvalidHttpResponse" => server.status # "success")
        BY <1>1, <1>2, <1>3
      <3>2. buf < server.headers => ~Enough(read) /\ ~TimeoutCanSucceed(read)
        BY <1>1, <1>2 DEF Enough, TimeoutCanSucceed
      <3> QED
        BY <1>1, <1>9, <3>1, <3>2
    <2> QED
      BY <1>3, <1>8, <1>9, <2>1, <2>2, <2>3 DEF FailureIsTheServers
  <1>12. FullMeansWhole'
    BY <1>1, <1>2, <1>3, <1>8, <1>9 DEF FullMeansWhole, Enough, HeadersOnly
  <1> QED
    BY <1>8, <1>10, <1>11, <1>12 DEF Justified

\* curl reports nothing before it has all there is.
LEMMA CurlJustified ==
  ASSUME TypeOK, CurlAnswers
  PROVE  TypeOK' /\ Justified' /\ phase' = "done" /\ UNCHANGED <<request, buf>>
  <1> DEFINE n == IF request.method = "HEAD" THEN server.headers ELSE sent
             whole == Parsed(n)
             read == [whole EXCEPT !.complete = whole.status # "none"]
             c == Classify(read)
             k == IF c.outcome = "Success" THEN "None" ELSE Blamed
             s == Suspicious(read.complete, read, c.outcome)
  <1>1. /\ sent \in 0 .. MaxBytes /\ sent \in Nat /\ server.headers \in Nat
        /\ request.minBody \in Nat /\ MaxBytes \in Nat
    BY RequestIsTyped DEF TypeOK
  <1>2. Parsed(sent).complete /\ ending = "closed"
    BY DEF CurlAnswers
  <1>3. sent >= server.headers
    BY <1>1, <1>2, ParsedRead
  <1>4. n \in 0 .. MaxBytes /\ n >= server.headers /\ n <= sent
        /\ (request.method = "HEAD" \/ n = sent)
    BY <1>1, <1>3
  <1>5. /\ read \in Read /\ read.total = n
        /\ read.complete <=> server.status # "none"
        /\ read.status = server.status /\ read.body = n - server.headers
    <2>1. /\ whole \in Read /\ whole.total = n
          /\ whole.status = server.status /\ whole.body = n - server.headers
      BY <1>4, ParsedRead
    <2> HIDE DEF whole
    <2> QED
      BY <2>1 DEF Read
  <1>6. /\ c.outcome \in Outcomes /\ c.class \in Classes
        /\ c.outcome \in {"EmptyResponse", "HttpBlockPage", "Success", "BodyTooSmall"}
        /\ c.class = "InvalidHttpResponse" => ~read.complete \/ read.status # "success"
        /\ c.outcome = "HttpBlockPage" => read.complete /\ read.status = "block"
        /\ c.outcome = "Success" => read.complete /\ read.status = "success" /\ BodySuffices(read)
        /\ c.outcome = "BodyTooSmall" =>
             read.complete /\ read.status = "success" /\ ~BodySuffices(read)
    BY <1>5, Classified
  <1>7. k \in Kinds /\ "None" \in Levels /\ s \in BOOLEAN
    BY DEF Blamed, Kinds, Levels, Suspicious
  <1>8. Report(c.outcome, c.class, k, "None", s, read)
    BY DEF CurlAnswers
  <1> HIDE DEF read, c, k, s
  <1>9. /\ TypeOK'
        /\ phase' = "done" /\ UNCHANGED <<request, server, sent, ending, buf>>
        /\ result'.outcome = c.outcome /\ result'.class = c.class /\ result'.total = n
    BY <1>5, <1>6, <1>7, <1>8, ReportTyped
  <1>10. UNCHANGED <<MaxRead, HeadersOnly>>
    BY <1>9 DEF MaxRead, HeadersOnly
  <1>11. HeadersOnly \/ n = sent
    BY <1>4 DEF HeadersOnly
  <1> HIDE DEF n
  <1>12. c.outcome = "Success" =>
           server.status = "success" /\ (HeadersOnly \/ request.minBody <= sent - server.headers)
    BY <1>5, <1>6, <1>11 DEF BodySuffices
  <1>13. c.outcome = "BodyTooSmall" => sent < server.headers + request.minBody
    BY <1>1, <1>5, <1>6, <1>11 DEF BodySuffices
  <1>14. c.class = "InvalidHttpResponse" => server.status # "success"
    BY <1>5, <1>6
  <1>15. c.outcome = "HttpBlockPage" => server.status = "block"
    BY <1>5, <1>6
  <1>16. SuccessHasEvidence'
    BY <1>3, <1>9, <1>10, <1>12 DEF SuccessHasEvidence
  <1>17. FailureIsTheServers'
    BY <1>2, <1>3, <1>6, <1>9, <1>10, <1>13, <1>14, <1>15 DEF FailureIsTheServers
  <1>18. FullMeansWhole'
    BY <1>2, <1>9, <1>10, <1>11 DEF FullMeansWhole
  <1> QED
    BY <1>9, <1>16, <1>17, <1>18 DEF Justified

-----------------------------------------------------------------------------
(***************************************************************************)
(* The inductive invariant.                                                *)
(***************************************************************************)

LEMMA ProbeInit == Init => ProbeInv
  <1> SUFFICES ASSUME Init PROVE ProbeInv
    OBVIOUS
  <1>1. TypeOK
    BY ProbeAssumption DEF Init, TypeOK, Phases
  <1>2. buf <= MaxRead
    BY <1>1, RequestIsTyped DEF Init
  <1> QED
    BY <1>1, <1>2 DEF Init, ProbeInv, Justified, SuccessHasEvidence, FailureIsTheServers,
                      FullMeansWhole, Done

\* A report ends the probe, so nothing is said about further reads.
LEMMA ReportedKeeps ==
  ASSUME ProbeInv, TypeOK', Justified', phase' = "done", UNCHANGED <<request, buf>>
  PROVE  ProbeInv'
  BY DEF ProbeInv, MaxRead

\* A step between two waits changes nothing but the phase.
LEMMA GoToKeeps ==
  ASSUME ProbeInv, phase # "done", NEW p \in Phases \ {"done"}, p = "read" => ReadOn, GoTo(p)
  PROVE  ProbeInv'
  <1>1. phase' = p /\ UNCHANGED <<request, server, sent, ending, buf, clock, cancelled, result>>
    BY DEF GoTo, net
  <1>2. TypeOK'
    BY <1>1 DEF ProbeInv, TypeOK
  <1>3. UNCHANGED <<MaxRead, ReadOn>>
    BY <1>1 DEF MaxRead, ReadOn, Enough, Parsed, HeadersOnly
  <1>4. Justified'
    BY <1>1 DEF Justified, SuccessHasEvidence, FailureIsTheServers, FullMeansWhole, Done
  <1> QED
    BY <1>1, <1>2, <1>3, <1>4 DEF ProbeInv

\* So does the world around it: what was read stays what it was.
LEMMA WorldKeeps ==
  ASSUME ProbeInv, ServerSends \/ ServerEnds \/ TimePasses \/ Cancel
  PROVE  ProbeInv'
  <1>1. /\ phase # "done" /\ phase' = phase /\ UNCHANGED <<request, server, buf, result>>
    BY DEF ServerSends, ServerEnds, TimePasses, Cancel, net
  <1>2. TypeOK'
    <2> USE DEF ProbeInv, TypeOK
    <2>1. CASE ServerSends
      BY <2>1, RequestIsTyped DEF ServerSends
    <2>2. CASE ServerEnds
      BY <2>2 DEF ServerEnds
    <2>3. CASE TimePasses
      BY <2>3 DEF TimePasses, net
    <2>4. CASE Cancel
      BY <2>4 DEF Cancel, net
    <2> QED
      BY <2>1, <2>2, <2>3, <2>4
  <1>3. UNCHANGED <<MaxRead, ReadOn>>
    BY <1>1 DEF MaxRead, ReadOn, Enough, Parsed, HeadersOnly
  <1>4. Justified'
    BY <1>1 DEF Justified, SuccessHasEvidence, FailureIsTheServers, FullMeansWhole, Done
  <1> QED
    BY <1>1, <1>2, <1>3, <1>4 DEF ProbeInv

\* A read never takes more than the server sent, nor more than there is room for.
LEMMA ReadKeeps ==
  ASSUME ProbeInv, FirstBytes \/ ReadBytes
  PROVE  ProbeInv'
  <1>1. phase' = "loop" /\ UNCHANGED <<request, server, sent, ending, clock, cancelled, result>>
    BY DEF FirstBytes, ReadBytes, net
  <1>2. MaxRead' = MaxRead /\ MaxRead \in Nat \ {0} /\ sent \in Nat /\ buf \in Nat
    BY <1>1, RequestIsTyped DEF MaxRead, ProbeInv, TypeOK
  <1>3. buf' \in 0 .. sent /\ buf' <= MaxRead
    <2>1. CASE FirstBytes
      <3>1. PICK n \in AtMost(sent) : buf' = IF n <= MaxRead THEN n ELSE MaxRead
        BY <2>1 DEF FirstBytes
      <3> QED
        BY <1>2, <3>1 DEF AtMost
    <2>2. CASE ReadBytes
      <3>1. PICK n \in AtMost(sent - buf) : buf + n <= MaxRead /\ buf' = buf + n
        BY <2>2 DEF ReadBytes
      <3> QED
        BY <1>2, <3>1 DEF AtMost
    <2> QED
      BY <2>1, <2>2
  <1>4. phase # "done" /\ result = NoVerdict
    BY DEF FirstBytes, ReadBytes, ProbeInv, TypeOK
  <1>5. TypeOK'
    BY <1>1, <1>3, <1>4 DEF ProbeInv, TypeOK, Phases
  <1>6. Justified'
    BY <1>1 DEF Justified, SuccessHasEvidence, FailureIsTheServers, FullMeansWhole, Done
  <1> QED
    BY <1>1, <1>2, <1>3, <1>5, <1>6 DEF ProbeInv

\* A failure before the first byte, and one in the read loop.
LEMMA FailKeeps ==
  ASSUME ProbeInv, NEW o \in Outcomes \ {"Success", "HttpBlockPage", "BodyTooSmall"},
         NEW c \in Classes \ {"InvalidHttpResponse"}, NEW k \in Kinds,
         o = "TcpReset" => ending \in {"reset", "cut"},
         Fail(o, c, k, NothingRead) \/ Fail(o, c, k, Parsed(buf))
  PROVE  ProbeInv'
  <1>1. TypeOK /\ buf \in 0 .. MaxBytes
    BY RequestIsTyped DEF ProbeInv, TypeOK
  <1>2. NothingRead \in Read /\ Parsed(buf) \in Read
    BY <1>1, RequestIsTyped, ParsedRead DEF NothingRead, Read, Statuses
  <1>3. TypeOK' /\ Justified' /\ phase' = "done" /\ UNCHANGED <<request, buf>>
    BY <1>1, <1>2, FailJustified
  <1> QED
    BY <1>3, ReportedKeeps

LEMMA BlankKeeps ==
  ASSUME ProbeInv, NEW o \in {"Cancelled", "Timeout", "InternalError"},
         NEW c \in Classes \ {"InvalidHttpResponse"}, NEW k \in Kinds, Blank(o, c, k)
  PROVE  ProbeInv'
  <1>1. TypeOK' /\ Justified' /\ phase' = "done" /\ UNCHANGED <<request, buf>>
    BY BlankJustified DEF ProbeInv
  <1> QED
    BY <1>1, ReportedKeeps

LEMMA ConcludeKeeps ==
  ASSUME ProbeInv, Settled, Conclude(Parsed(buf))
  PROVE  ProbeInv'
  <1>1. TypeOK' /\ Justified' /\ phase' = "done" /\ UNCHANGED <<request, buf>>
    BY ConcludeJustified DEF ProbeInv
  <1> QED
    BY <1>1, ReportedKeeps

LEMMA TimeIsUpKeeps ==
  ASSUME ProbeInv, TimeIsUp, clock # "running"
  PROVE  ProbeInv'
  <1>1. CASE TimeoutCanSucceed(Parsed(buf))
    BY <1>1, ConcludeKeeps DEF TimeIsUp, Settled
  <1>2. CASE ~TimeoutCanSucceed(Parsed(buf))
    <2>1. Fail("Timeout", "ReadTimeout", Blamed, Parsed(buf)) /\ Blamed \in Kinds
      BY <1>2 DEF TimeIsUp, Blamed, Kinds
    <2> QED
      BY <2>1, FailKeeps DEF Outcomes, Classes
  <1> QED
    BY <1>1, <1>2

LEMMA NetworkKeeps ==
  ASSUME ProbeInv, Network
  PROVE  ProbeInv'
  <1>0. Blamed \in Kinds /\ "Infrastructure" \in Kinds
    BY DEF Blamed, Kinds
  <1>1. CASE ServerSends \/ ServerEnds
    BY <1>1, WorldKeeps
  <1>2. CASE Connect
    <2>1. GoTo("tls") \/ GoTo("write")
      BY <1>2 DEF Connect
    <2> QED
      BY <1>2, <2>1, GoToKeeps DEF Connect, Phases, Waits
  <1>3. CASE ConnectFails
    BY <1>0, <1>3, FailKeeps DEF ConnectFails, Outcomes, Classes
  <1>4. CASE Handshake \/ WriteRequest
    BY <1>4, GoToKeeps DEF Handshake, WriteRequest, Phases, Waits
  <1>5. CASE HandshakeFails
    BY <1>0, <1>5, FailKeeps DEF HandshakeFails, Outcomes, Classes
  <1>6. CASE WriteFails
    BY <1>0, <1>6, FailKeeps DEF WriteFails, Outcomes, Classes
  <1>7. CASE FirstBytes \/ ReadBytes
    BY <1>7, ReadKeeps
  <1>8. CASE NoFirstByte
    BY <1>0, <1>8, FailKeeps DEF NoFirstByte, ConnectionLost, Outcomes, Classes
  <1>9. CASE ReadEnd
    BY <1>9, ConcludeKeeps DEF ReadEnd, Settled
  <1>10. CASE ReadFails
    BY <1>0, <1>10, FailKeeps DEF ReadFails, ConnectionLost, Outcomes, Classes
  <1>11. CASE CurlAnswers
    BY <1>11, CurlJustified, ReportedKeeps DEF ProbeInv
  <1>12. CASE CurlFails
    <2>1. PICK n \in 0 .. sent :
            Report("InternalError", "CurlFailed", "Infrastructure", "None", FALSE, Parsed(n))
      BY <1>12 DEF CurlFails
    <2>2. TypeOK /\ n \in 0 .. MaxBytes
      BY RequestIsTyped DEF ProbeInv, TypeOK
    <2>3. /\ TypeOK' /\ phase' = "done" /\ UNCHANGED <<request, buf>>
          /\ result'.outcome = "InternalError" /\ result'.class = "CurlFailed"
      <3>1. /\ Parsed(n) \in Read /\ "InternalError" \in Outcomes /\ "CurlFailed" \in Classes
            /\ "None" \in Levels /\ FALSE \in BOOLEAN
        BY <2>2, ParsedRead DEF Outcomes, Classes, Levels
      <3> QED
        BY <1>0, <2>1, <2>2, <3>1, ReportTyped
    <2>4. Justified'
      BY <2>3 DEF Justified, SuccessHasEvidence, FailureIsTheServers, FullMeansWhole
    <2> QED
      BY <2>3, <2>4, ReportedKeeps
  <1> QED
    BY <1>1, <1>2, <1>3, <1>4, <1>5, <1>6, <1>7, <1>8, <1>9, <1>10, <1>11, <1>12 DEF Network

LEMMA LocalKeeps ==
  ASSUME ProbeInv, Local
  PROVE  ProbeInv'
  <1>0. /\ Blamed \in Kinds /\ "Infrastructure" \in Kinds /\ "Cancelled" \in Kinds
        /\ "Cancelled" \in Classes /\ "ReadTimeout" \in Classes /\ "BindFailed" \in Classes
    BY DEF Blamed, Kinds, Classes
  <1>1. CASE PrepareFails
    BY <1>0, <1>1, BlankKeeps DEF PrepareFails
  <1>2. CASE StartCancelled \/ LoopCancelled \/ CancelSeen
    BY <1>0, <1>2, BlankKeeps DEF StartCancelled, LoopCancelled, CancelSeen, BlankCancelled
  <1>3. CASE Start
    BY <1>3, GoToKeeps DEF Start, Phases, Waits
  <1>4. CASE TlsUnusable
    BY <1>0, <1>4, FailKeeps DEF TlsUnusable, Outcomes, Classes
  <1>5. CASE LoopEnds
    BY <1>5, ConcludeKeeps DEF LoopEnds, Settled
  <1>6. CASE LoopLate \/ ReadTimeout
    BY <1>6, TimeIsUpKeeps DEF LoopLate, ReadTimeout
  <1>7. CASE AwaitBytes
    BY <1>7, GoToKeeps DEF AwaitBytes, Phases, Waits
  <1>8. CASE StageTimeout
    BY <1>0, <1>8, FailKeeps DEF StageTimeout, Outcomes, Classes
  <1>9. CASE OuterTimeout
    BY <1>0, <1>9, BlankKeeps DEF OuterTimeout
  <1>10. CASE CurlTimeout
    BY <1>0, <1>10, FailKeeps DEF CurlTimeout, Outcomes, Classes
  <1> QED
    BY <1>1, <1>2, <1>3, <1>4, <1>5, <1>6, <1>7, <1>8, <1>9, <1>10 DEF Local, Timers

LEMMA ProbeStep == ProbeInv /\ [Next]_vars => ProbeInv'
  <1> SUFFICES ASSUME ProbeInv, [Next]_vars PROVE ProbeInv'
    OBVIOUS
  <1>1. CASE Network
    BY <1>1, NetworkKeeps
  <1>2. CASE Local
    BY <1>2, LocalKeeps
  <1>3. CASE TimePasses \/ Cancel
    BY <1>3, WorldKeeps
  <1>4. CASE UNCHANGED vars
    BY <1>4 DEF vars, net, ProbeInv, TypeOK, MaxRead, ReadOn, Enough, Parsed, HeadersOnly,
                Justified, SuccessHasEvidence, FailureIsTheServers, FullMeansWhole, Done
  <1> QED
    BY <1>1, <1>2, <1>3, <1>4 DEF Next, Ended

LEMMA ProbeInvariant == Spec => []ProbeInv
  BY ProbeInit, ProbeStep, PTL DEF Spec

-----------------------------------------------------------------------------
\* The probe never keeps more than was sent, and has a result exactly at its end.
THEOREM ProbeTypeCorrect == Spec => []TypeOK
  <1>1. ProbeInv => TypeOK
    BY DEF ProbeInv
  <1> QED
    BY <1>1, ProbeInvariant, PTL

\* What is scored as a success rests on the response itself, for every request,
\* chunking and order of timers.
THEOREM ProbeSuccessHasEvidence == Spec => []SuccessHasEvidence
  <1>1. ProbeInv => SuccessHasEvidence
    BY DEF ProbeInv, Justified
  <1> QED
    BY <1>1, ProbeInvariant, PTL

\* No verdict on the response is drawn from a part of it, unless maxRead leaves no
\* room for the rest.
THEOREM ProbeFailureIsTheServers == Spec => []FailureIsTheServers
  <1>1. ProbeInv => FailureIsTheServers
    BY DEF ProbeInv, Justified
  <1> QED
    BY <1>1, ProbeInvariant, PTL

\* A successful full read has read to the end, to the cap or to the deadline.
THEOREM ProbeFullMeansWhole == Spec => []FullMeansWhole
  <1>1. ProbeInv => FullMeansWhole
    BY DEF ProbeInv, Justified
  <1> QED
    BY <1>1, ProbeInvariant, PTL

-----------------------------------------------------------------------------
(***************************************************************************)
(* Suspicion.  Before the read loop nothing has been read, in it every     *)
(* report but those of the outer timer and a cancellation carries what     *)
(* was.                                                                    *)
(***************************************************************************)
SuspicionInv ==
  /\ phase \in {"start", "connect", "tls", "write", "firstByte", "curl"} => buf = 0
  /\ SuspicionKept

\* a report made while nothing had been read accuses nobody wrongly
LEMMA UnreadReport ==
  ASSUME buf = 0, NEW o, NEW c, NEW k, NEW l, NEW s, NEW read, Report(o, c, k, l, s, read)
  PROVE  SuspicionInv'
  BY DEF Report, SuspicionInv, SuspicionKept

LEMMA FailReport ==
  ASSUME TypeOK, NEW o, NEW c, NEW k, Fail(o, c, k, Parsed(buf))
  PROVE  SuspicionInv'
  <1>1. /\ phase' = "done" /\ UNCHANGED <<request, buf>> /\ result'.outcome = o
        /\ result'.dpi = Suspicious(Parsed(buf).total > 0, Parsed(buf), o)
        /\ result'.total = Parsed(buf).total
    BY DEF Fail, Report
  <1>2. Parsed(buf).total = buf
    BY DEF Parsed
  <1> QED
    BY <1>1, <1>2 DEF Suspicious, SuspicionInv, SuspicionKept

LEMMA ConcludeReport ==
  ASSUME TypeOK, Conclude(Parsed(buf))
  PROVE  SuspicionInv'
  <1> DEFINE o == Classify(Parsed(buf)).outcome
  <1>1. /\ phase' = "done" /\ UNCHANGED <<request, buf>> /\ result'.outcome = o
        /\ result'.dpi = Suspicious(TRUE, Parsed(buf), o)
        /\ result'.total = Parsed(buf).total
    BY DEF Conclude, Report
  <1>2. Parsed(buf).total = buf
    BY DEF Parsed
  <1> HIDE DEF o
  <1> QED
    BY <1>1, <1>2 DEF Suspicious, SuspicionInv, SuspicionKept

LEMMA BlankReport ==
  ASSUME NEW o, NEW c, NEW k, Blank(o, c, k), cancelled \/ clock = "outer"
  PROVE  SuspicionInv'
  BY DEF Blank, Report, SuspicionInv, SuspicionKept

LEMMA SuspicionStep == TypeOK /\ SuspicionInv /\ [Next]_vars => SuspicionInv'
  <1> SUFFICES ASSUME TypeOK, SuspicionInv, [Next]_vars PROVE SuspicionInv'
    OBVIOUS
  <1>1. CASE ServerSends \/ ServerEnds \/ TimePasses \/ Cancel
    <2>1. phase # "done" /\ UNCHANGED <<phase, buf>>
      BY <1>1 DEF ServerSends, ServerEnds, TimePasses, Cancel, net
    <2> QED
      BY <2>1 DEF SuspicionInv, SuspicionKept, Done
  <1>2. CASE Start \/ Connect \/ Handshake \/ WriteRequest \/ AwaitBytes
    <2>1. buf' = buf /\ phase' # "done" /\ (phase = "loop" => phase' = "read")
          /\ phase # "done" /\ (phase = "read" => FALSE)
      BY <1>2 DEF Start, Connect, Handshake, WriteRequest, AwaitBytes, GoTo
    <2>2. phase \in Phases /\ phase' \in {"connect", "curl", "tls", "write", "firstByte", "read"}
      BY <1>2 DEF Start, Connect, Handshake, WriteRequest, AwaitBytes, GoTo, TypeOK
    <2> QED
      BY <2>1, <2>2 DEF Phases, Waits, SuspicionInv, SuspicionKept, Done
  <1>3. CASE FirstBytes \/ ReadBytes
    BY <1>3 DEF FirstBytes, ReadBytes, SuspicionInv, SuspicionKept, Done
  <1>4. CASE PrepareFails \/ StartCancelled \/ ConnectFails \/ TlsUnusable \/ HandshakeFails
             \/ WriteFails \/ NoFirstByte \/ StageTimeout \/ CurlAnswers \/ CurlFails
             \/ CurlTimeout
    <2>1. buf = 0
      BY <1>4 DEF PrepareFails, StartCancelled, ConnectFails, TlsUnusable, HandshakeFails,
                  WriteFails, NoFirstByte, StageTimeout, CurlAnswers, CurlFails, CurlTimeout,
                  SuspicionInv
    <2>2. \E o, c, k, l, s, read : Report(o, c, k, l, s, read)
      BY <1>4 DEF PrepareFails, StartCancelled, ConnectFails, TlsUnusable, HandshakeFails,
                  WriteFails, NoFirstByte, StageTimeout, CurlAnswers, CurlFails, CurlTimeout,
                  Blank, BlankCancelled, Fail
    <2> QED
      BY <2>1, <2>2, UnreadReport
  <1>5. CASE LoopEnds \/ ReadEnd
    BY <1>5, ConcludeReport DEF LoopEnds, ReadEnd
  <1>6. CASE LoopLate \/ ReadTimeout
    BY <1>6, ConcludeReport, FailReport DEF LoopLate, ReadTimeout, TimeIsUp
  <1>7. CASE ReadFails
    BY <1>7, FailReport DEF ReadFails
  <1>8. CASE LoopCancelled \/ CancelSeen
    BY <1>8, BlankReport DEF LoopCancelled, CancelSeen, BlankCancelled
  <1>9. CASE OuterTimeout
    <2>1. CASE phase = "read"
      <3>1. clock = "outer"
        BY <1>9, <2>1 DEF OuterTimeout, TypeOK
      <3> QED
        BY <1>9, <3>1, BlankReport DEF OuterTimeout
    <2>2. CASE phase # "read"
      <3>1. buf = 0
        BY <1>9, <2>2 DEF OuterTimeout, SuspicionInv
      <3> QED
        BY <1>9, <3>1, UnreadReport DEF OuterTimeout, Blank
    <2> QED
      BY <2>1, <2>2
  <1>10. CASE UNCHANGED vars
    BY <1>10 DEF vars, SuspicionInv, SuspicionKept, Done
  <1> QED
    BY <1>1, <1>2, <1>3, <1>4, <1>5, <1>6, <1>7, <1>8, <1>9, <1>10
       DEF Next, Network, Local, Timers, Ended

\* What was read of a response that then failed is never lost on the way to the report,
\* for every request, chunking and order of timers.
THEOREM ProbeSuspicionKept == Spec => []SuspicionKept
  <1>1. Init => SuspicionInv
    BY DEF Init, SuspicionInv, SuspicionKept, Done
  <1>2. SuspicionInv => SuspicionKept
    BY DEF SuspicionInv
  <1> QED
    BY <1>1, <1>2, SuspicionStep, ProbeTypeCorrect, PTL DEF Spec
=============================================================================
