------------------------ MODULE UpdateProcessesProofs ------------------------
(***************************************************************************)
(* Proofs about UpdateProcesses, for every size of a pipe, limit of the    *)
(* buffer, amount of output and number of requests.  The inductive         *)
(* invariant IInv has three parts: what is true of the streams whoever     *)
(* uses them, what is true of the client alone, and how what the client    *)
(* has seen relates to the streams, which the thread changes meanwhile.    *)
(* InputInv adds the way to the child, which IInv does not need.           *)
(***************************************************************************)
EXTENDS UpdateProcesses, SequenceTheorems, TLAPS

(* The streams. *)

Data ==
    /\ limit \in [Kinds -> Nat]
    /\ pipe \in [Pipes -> Seq(Nat)]
    /\ buffer \in [Kinds -> Seq(Nat)]
    /\ received \in [Kinds -> Seq(Nat)]
    /\ inBuffer \in Seq(Nat)
    /\ writing \in Seq(Nat)
    /\ written \in [Kinds -> Nat]

Flags ==
    /\ control \in SUBSET Bits /\ response \in SUBSET Bits
    /\ seen \in SUBSET Bits /\ wants \in SUBSET Pipes
    /\ childRuns \in BOOLEAN /\ eof \in [Kinds -> BOOLEAN]
    /\ threadAt \in {"none", "wait", "take", "select", "transfer", "stopping",
                     "stopped", "cancelled"}

\* Before the start, and after one that failed.
NotStarted ==
    threadAt = "none" =>
        /\ \A k \in Kinds : buffer[k] = <<>>
        /\ inBuffer = <<>> /\ response = {} /\ seen = {}
        /\ ~ childRuns /\ ~ error
        /\ \A k \in Kinds : ~ eof[k]

\* The thread only reads what there is room for and only writes what fits.
Room ==
    /\ Len(writing) <= 1
    /\ \A p \in Pipes : Len(pipe[p]) <= PipeSize
    /\ \A k \in Kinds :
        /\ limit[k] # 0 => Len(buffer[k]) <= limit[k]
        /\ threadAt = "take" /\ k \in seen => ~ Full(k, buffer[k])
        /\ threadAt \in {"select", "transfer"} /\ k \in wants => ~ Full(k, buffer[k])
    /\ threadAt = "transfer" /\ "in" \in wants /\ childRuns => Len(pipe["in"]) < PipeSize

\* The end of a stream is known only when the child is gone and its pipe is
\* empty; the thread stops without an error only then or when it is told, and
\* that it has stopped is the last thing it says.
Closed ==
    /\ \A k \in Kinds :
        /\ eof[k] => ~ childRuns /\ pipe[k] = <<>>
        /\ threadAt = "transfer" /\ k \in wants /\ pipe[k] = <<>> => ~ childRuns
        /\ EofBit(k) \in response => eof[k]
        /\ threadAt \in {"stopping", "stopped"} /\ ~ error /\ "child" \notin control => eof[k]
    /\ "child" \in seen => "child" \in control
    /\ "child" \in response => threadAt = "stopped"

\* Every unit that was written is where it should be.
Arrives == \A k \in Kinds : received[k] \o buffer[k] \o pipe[k] = Units(written[k])

StreamInv == Data /\ Flags /\ NotStarted /\ Room /\ Closed /\ BitsFollowBuffers /\ Arrives

(* The client. *)

CallType == [op : {"none", "get", "put"}, kind : Pipes, at : {"wait", "act"},
             seen : SUBSET Bits]

\* A call belongs to a client that is in the right place for it.
ClientInv ==
    /\ call \in CallType
    /\ outcome \in {"none", "data", "sent", "eof", "error", "nothing"}
    /\ at \in {"new", "reading", "forwarding", "ready", "answer", "closing",
               "stopping", "joining", "done"}
    /\ sawEof \in BOOLEAN
    /\ asked \in 0 .. Requests
    /\ texts \in Seq({"whole", "cut", "garbage"}) /\ Len(texts) <= asked
    /\ call.op = "get" => call.kind \in Kinds /\ at \in {"reading", "forwarding", "answer"}
    /\ call.op = "get" /\ at \in {"reading", "answer"} => call.kind = "out"
    /\ call.op = "put" => at = "ready" /\ Len(texts) < asked
    /\ outcome = "sent" => at = "ready" /\ Len(texts) < asked
    /\ at = "answer" => Len(texts) < asked

(* Both. *)

\* There is no call before there is a thread, and it is told to stop at the
\* very end.
InOrder ==
    /\ threadAt = "none" => call = NoCall /\ outcome = "none" /\ ~ sawEof
    /\ threadAt = "none" => at \in {"new", "closing", "stopping", "joining", "done"}
    /\ "child" \in control => at \in {"joining", "done"}

\* What a call has seen still holds when it acts, or there is data.
Seen ==
    call.at = "act" =>
        /\ "child" \in call.seen => "child" \in response
        /\ call.op = "get" =>
            /\ EofBit(call.kind) \in call.seen => EofBit(call.kind) \in response
            /\ "child" \notin call.seen =>
                EofBit(call.kind) \in call.seen \/ buffer[call.kind] # <<>>

\* Main takes the output for finished only when it has all of it.
Ends ==
    /\ NeverEmptyHanded
    /\ outcome = "eof" /\ at \in {"reading", "answer"} => buffer["out"] = <<>> /\ eof["out"]
    /\ sawEof => buffer["out"] = <<>> /\ eof["out"]

IInv == StreamInv /\ ClientInv /\ InOrder /\ Seen /\ Ends

(* The way to the child. *)

\* The input is closed before the thread is told to stop; what the thread
\* takes for the end of the input is the end, and a thread that stops without
\* an error has written all of it.
Closing ==
    /\ client \in {"dumpBackup", "fetchText"}
    /\ at \in {"ready", "answer"} => client = "fetchText"
    /\ threadAt # "none" /\ at # "done" => parentEnds = Pipes
    /\ "in_eof" \in control => at \in {"stopping", "joining", "done"}
    /\ "child" \in control \/ at = "stopping" => "in_eof" \in control
    /\ "in_eof" \in seen => "in_eof" \in control
    /\ "child" \in seen => "in_eof" \in seen
    /\ inEof => "in_eof" \in control /\ inBuffer = <<>>
    /\ threadAt \in {"stopping", "stopped"} /\ ~ error =>
        "in_eof" \in control /\ inBuffer = <<>>

Sent == Units(consumed) \o pipe["in"] \o writing \o inBuffer

\* Main has put every text that it asked for.
AllPut ==
    \/ at \in {"new", "answer"}
    \/ at = "ready" /\ call.op = "none" /\ outcome \in {"none", "sent"}

\* What was put is somewhere on its way to the child, in order.
Conveyed ==
    threadAt # "stopped" =>
        \E n \in 0 .. asked :
            /\ Sent = Units(n)
            /\ call.op = "put" => n = asked - 1
            /\ AllPut => n = asked

\* fetchText ends before main has closed its input only by a crash.
Serves ==
    /\ client = "fetchText" /\ threadAt # "none" /\ ~ childRuns /\ ~ crashed =>
        at \in {"stopping", "joining", "done"}
    /\ TextsWholeUnlessCrash

InputInv == Closing /\ Conveyed /\ Serves /\ consumed \in Nat

------------------------------------------------------------------------------
(* Sequences. *)

\* Concatenation is associative.
LEMMA Reassociate ==
    ASSUME NEW r \in Seq(Nat), NEW s \in Seq(Nat), NEW t \in Seq(Nat)
    PROVE  (r \o s) \o t = r \o (s \o t)
BY ConcatAssociative

\* A sequence that is not empty is its head followed by a shorter one.
LEMMA Shorter ==
    ASSUME NEW s \in Seq(Nat), s # <<>>
    PROVE  /\ Head(s) \in Nat
           /\ Tail(s) \in Seq(Nat)
           /\ Len(s) \in Nat \ {0}
           /\ Len(Tail(s)) = Len(s) - 1
           /\ <<Head(s)>> \in Seq(Nat)
           /\ s = <<Head(s)>> \o Tail(s)
BY HeadTailProperties, EmptySeq

\* A unit appended to a sequence makes it one longer.
LEMMA Longer ==
    ASSUME NEW s \in Seq(Nat), NEW e \in Nat
    PROVE  /\ Append(s, e) \in Seq(Nat)
           /\ Append(s, e) # <<>>
           /\ Len(Append(s, e)) = Len(s) + 1
BY AppendProperties

\* A unit goes from the pipe to the buffer.
LEMMA MovedUp ==
    ASSUME NEW r \in Seq(Nat), NEW b \in Seq(Nat), NEW p \in Seq(Nat), p # <<>>
    PROVE  r \o Append(b, Head(p)) \o Tail(p) = r \o b \o p
<1> DEFINE h == <<Head(p)>>
           t == Tail(p)
           rb == r \o b
<1>1. h \in Seq(Nat) /\ t \in Seq(Nat) /\ p = h \o t
  BY Shorter
<1>2. Append(b, Head(p)) = b \o h
  BY Shorter, AppendIsConcat
<1>3. rb \in Seq(Nat)
  BY ConcatProperties
<1>4. r \o (b \o h) = rb \o h
  BY <1>1, Reassociate
<1>. HIDE DEF h, t, rb
<1>5. (rb \o h) \o t = rb \o (h \o t)
  BY <1>1, <1>3, Reassociate
<1>. QED
  BY <1>1, <1>2, <1>4, <1>5 DEF t, rb

\* A unit goes from the buffer to main.
LEMMA HandedOver ==
    ASSUME NEW r \in Seq(Nat), NEW b \in Seq(Nat), NEW p \in Seq(Nat), b # <<>>
    PROVE  Append(r, Head(b)) \o Tail(b) \o p = r \o b \o p
<1>1. b = <<Head(b)>> \o Tail(b)
  BY Shorter
<1>2. <<Head(b)>> \in Seq(Nat) /\ Tail(b) \in Seq(Nat) /\ Head(b) \in Nat
  BY Shorter
<1>3. Append(r, Head(b)) = r \o <<Head(b)>>
  BY <1>2, AppendIsConcat
<1>4. (r \o <<Head(b)>>) \o Tail(b) = r \o (<<Head(b)>> \o Tail(b))
  BY <1>2, ConcatAssociative
<1>. QED
  BY <1>1, <1>3, <1>4

\* One more unit of output is appended to those before it.
LEMMA UnitsAppend ==
    ASSUME NEW n \in Nat
    PROVE  Append(Units(n), n + 1) = Units(n + 1)
<1>1. \A m \in Nat : /\ Units(m) \in Seq(Nat)
                     /\ Len(Units(m)) = m
                     /\ \A i \in 1 .. m : Units(m)[i] = i
  BY DEF Units
<1> DEFINE s == Units(n)
           t == Units(n + 1)
           a == Append(s, n + 1)
<1>2. s \in Seq(Nat) /\ Len(s) = n /\ \A i \in 1 .. n : s[i] = i
  BY <1>1
<1>3. t \in Seq(Nat) /\ Len(t) = n + 1 /\ \A i \in 1 .. n + 1 : t[i] = i
  BY <1>1, n + 1 \in Nat
<1>. HIDE DEF s, t
<1>4. /\ a \in Seq(Nat) /\ Len(a) = n + 1
      /\ \A i \in 1 .. n : a[i] = s[i]
      /\ a[n + 1] = n + 1
  BY <1>2, n + 1 \in Nat, AppendProperties
<1>. HIDE DEF a
<1>5. \A i \in 1 .. n + 1 : a[i] = t[i]
  <2>1. \A i \in 1 .. n + 1 : i \in 1 .. n \/ i = n + 1
    OBVIOUS
  <2>. QED
    BY <2>1, <1>2, <1>3, <1>4
<1>6. a = t
  BY <1>3, <1>4, <1>5, SeqEqual
<1>. QED
  BY <1>6 DEF a, s, t

\* The child writes the next unit.
LEMMA NextUnit ==
    ASSUME NEW s \in Seq(Nat), NEW p \in Seq(Nat), NEW n \in Nat, s \o p = Units(n)
    PROVE  s \o Append(p, n + 1) = Units(n + 1)
<1> DEFINE e == n + 1
<1>1. e \in Nat
  OBVIOUS
<1>. HIDE DEF e
<1>2. s \o p \in Seq(Nat) /\ <<e>> \in Seq(Nat)
  <2>1. s \o p \in Seq(Nat)
    BY ConcatProperties
  <2>2. <<e>> \in Seq(Nat)
    BY <1>1
  <2>. QED
    BY <2>1, <2>2
<1>3. Append(p, e) = p \o <<e>> /\ Append(s \o p, e) = (s \o p) \o <<e>>
  BY <1>1, <1>2, AppendIsConcat
<1>4. (s \o p) \o <<e>> = s \o (p \o <<e>>)
  BY <1>2, Reassociate
<1>5. Append(s \o p, e) = Units(n + 1)
  BY UnitsAppend DEF e
<1>. QED
  BY <1>3, <1>4, <1>5 DEF e

------------------------------------------------------------------------------
(* What a step leaves alone. *)

USE DEF parentVars, threadVars, mainVars, streamVars, clientVars, childVars,
    ClientUnchanged, ThreadUnchanged, MainUnchanged, ChildUnchanged,
    Quiet, Kinds, Pipes, Bits, EofBit, NoCall
USE ProcessAssumption, PipeAssumption

\* StreamInv depends only on the variables of the streams.
LEMMA StreamFrame ==
    ASSUME StreamInv,
           UNCHANGED <<limit, threadVars, pipe, childRuns, control, response, inBuffer,
                       buffer, received, error, written>>
    PROVE  StreamInv'
BY DEF StreamInv, Data, Flags, NotStarted, Room, Closed, BitsFollowBuffers, Arrives,
       Running, Full, Units

\* ClientInv depends only on the variables of main.
LEMMA ClientFrame ==
    ASSUME ClientInv, UNCHANGED <<call, outcome, clientVars>>
    PROVE  ClientInv'
BY DEF ClientInv

\* What has arrived depends only on where the units are.
LEMMA ArrivesFrame ==
    ASSUME Arrives, UNCHANGED <<received, buffer, written>>,
           \A k \in Kinds : pipe'[k] = pipe[k]
    PROVE  Arrives'
BY DEF Arrives, Units

------------------------------------------------------------------------------
(* The steps that change the streams. *)

\* A get takes at most one unit from the front of one buffer.
LEMMA Delivery ==
    ASSUME StreamInv, NEW k \in Kinds,
           (HasData(k) /\ Delivers(k)) \/ UNCHANGED <<buffer, received>>
    PROVE  /\ buffer' \in [Kinds -> Seq(Nat)] /\ received' \in [Kinds -> Seq(Nat)]
           /\ \A j \in Kinds :
                /\ j # k => buffer'[j] = buffer[j]
                /\ Len(buffer'[j]) <= Len(buffer[j])
                /\ buffer'[j] # <<>> => buffer[j] # <<>>
                /\ received'[j] \o buffer'[j] \o pipe[j] = received[j] \o buffer[j] \o pipe[j]
<1>0. /\ buffer \in [Kinds -> Seq(Nat)] /\ received \in [Kinds -> Seq(Nat)]
      /\ \A j \in Kinds : pipe[j] \in Seq(Nat) /\ buffer[j] \in Seq(Nat) /\ received[j] \in Seq(Nat)
      /\ \A j \in Kinds : Len(buffer[j]) \in Nat
  BY DEF StreamInv, Data
<1>1. CASE UNCHANGED <<buffer, received>>
  BY <1>0, <1>1
<1>2. CASE HasData(k) /\ Delivers(k)
  <2>1. /\ buffer[k] # <<>>
        /\ buffer' = [buffer EXCEPT ![k] = Tail(buffer[k])]
        /\ received' = [received EXCEPT ![k] = Append(received[k], Head(buffer[k]))]
    BY <1>2 DEF HasData, Delivers
  <2>2. /\ Head(buffer[k]) \in Nat /\ Tail(buffer[k]) \in Seq(Nat)
        /\ Len(Tail(buffer[k])) = Len(buffer[k]) - 1
    BY <1>0, <2>1, Shorter
  <2>3. Append(received[k], Head(buffer[k])) \in Seq(Nat)
    BY <1>0, <2>2, Longer
  <2>4. /\ buffer' \in [Kinds -> Seq(Nat)] /\ received' \in [Kinds -> Seq(Nat)]
        /\ buffer'[k] = Tail(buffer[k])
        /\ received'[k] = Append(received[k], Head(buffer[k]))
        /\ \A j \in Kinds : j # k => buffer'[j] = buffer[j] /\ received'[j] = received[j]
    BY <1>0, <2>1, <2>2, <2>3
  <2>5. received'[k] \o buffer'[k] \o pipe[k] = received[k] \o buffer[k] \o pipe[k]
    <3>1. received[k] \in Seq(Nat) /\ buffer[k] \in Seq(Nat) /\ pipe[k] \in Seq(Nat)
      BY <1>0
    <3>2. Append(received[k], Head(buffer[k])) \o Tail(buffer[k]) \o pipe[k]
            = received[k] \o buffer[k] \o pipe[k]
      BY <3>1, <2>1, HandedOver
    <3>. QED
      BY <3>2, <2>4
  <2>6. ASSUME NEW j \in Kinds
        PROVE  Len(buffer'[j]) <= Len(buffer[j])
    <3>1. CASE j = k
      BY <3>1, <1>0, <2>2, <2>4
    <3>2. CASE j # k
      BY <3>2, <1>0, <2>4
    <3>. QED
      BY <3>1, <3>2
  <2>. QED
    BY <2>1, <2>4, <2>5, <2>6
<1>. QED
  BY <1>1, <1>2

\* get after the thread has stopped takes what the buffer still holds.
LEMMA GetAfterStopStream ==
    ASSUME IInv, GetAfterStop, UNCHANGED <<client, clientVars, childVars>>
    PROVE  StreamInv'
<1>1. call.kind \in Kinds /\ "child" \in response
  BY DEF IInv, ClientInv, Seen, GetAfterStop, Acts
<1>2. threadAt = "stopped"
  BY <1>1 DEF IInv, StreamInv, Closed
<1>3. (HasData(call.kind) /\ Delivers(call.kind)) \/ UNCHANGED <<buffer, received>>
  BY DEF GetAfterStop
<1>4. UNCHANGED <<limit, threadVars, pipe, childRuns, control, response, inBuffer, error,
                  written>>
  BY DEF GetAfterStop
<1> DEFINE Taken ==
        /\ buffer' \in [Kinds -> Seq(Nat)] /\ received' \in [Kinds -> Seq(Nat)]
        /\ \A j \in Kinds :
            /\ Len(buffer'[j]) <= Len(buffer[j])
            /\ buffer'[j] # <<>> => buffer[j] # <<>>
            /\ received'[j] \o buffer'[j] \o pipe[j] = received[j] \o buffer[j] \o pipe[j]
<1>5. Taken
  BY <1>1, <1>3, Delivery DEF IInv
<1>6. StreamInv
  BY DEF IInv
<1>7. Data'
  BY <1>4, <1>5, <1>6 DEF StreamInv, Data
<1>8. Flags' /\ NotStarted' /\ Closed'
  BY <1>2, <1>4, <1>6 DEF StreamInv, Flags, NotStarted, Closed
<1>9. Room'
  <2>1. \A j \in Kinds : /\ Len(buffer[j]) \in Nat /\ Len(buffer'[j]) \in Nat
                         /\ limit[j] \in Nat
    BY <1>5, <1>6, LenProperties DEF StreamInv, Data
  <2>2. \A j \in Kinds : limit[j] # 0 => Len(buffer'[j]) <= limit[j]
    BY <1>5, <1>6, <2>1 DEF StreamInv, Room
  <2>. QED
    BY <1>2, <1>4, <1>6, <2>2 DEF StreamInv, Room
<1>10. BitsFollowBuffers'
  BY <1>1, <1>2, <1>4, <1>5, <1>6 DEF StreamInv, BitsFollowBuffers, Running
<1>11. Arrives'
  BY <1>4, <1>5, <1>6 DEF StreamInv, Arrives, Units
<1>. QED
  BY <1>7, <1>8, <1>9, <1>10, <1>11 DEF StreamInv

\* get takes one portion of the buffer and sets the bits that follow from it.
LEMMA GetStream ==
    ASSUME IInv, Get, UNCHANGED <<client, clientVars, childVars>>
    PROVE  StreamInv'
<1> DEFINE k == call.kind
<1>1. k \in Kinds /\ threadAt # "none"
  BY DEF IInv, ClientInv, InOrder, Get, Acts
<1>2. (HasData(k) /\ Delivers(k)) \/ UNCHANGED <<buffer, received>>
  BY DEF Get
<1>3. /\ UNCHANGED <<limit, threadVars, pipe, childRuns, inBuffer, error, written>>
      /\ response' = IF buffer'[k] = <<>> THEN response \ {k} ELSE response
      /\ control' = IF ~ Full(k, buffer'[k]) THEN control \cup {k} ELSE control
  BY DEF Get, IsDrained, HasRoom
<1> DEFINE Taken ==
        /\ buffer' \in [Kinds -> Seq(Nat)] /\ received' \in [Kinds -> Seq(Nat)]
        /\ \A j \in Kinds :
            /\ j # k => buffer'[j] = buffer[j]
            /\ Len(buffer'[j]) <= Len(buffer[j])
            /\ buffer'[j] # <<>> => buffer[j] # <<>>
            /\ received'[j] \o buffer'[j] \o pipe[j] = received[j] \o buffer[j] \o pipe[j]
<1>4. Taken
  BY <1>1, <1>2, Delivery DEF IInv
<1>5. StreamInv
  BY DEF IInv
<1>. HIDE DEF k
<1>6. Data'
  BY <1>3, <1>4, <1>5 DEF StreamInv, Data
<1>7. Flags' /\ NotStarted' /\ Closed'
  BY <1>1, <1>3, <1>5 DEF StreamInv, Flags, NotStarted, Closed
<1>8. \A j \in Kinds : /\ Len(buffer[j]) \in Nat /\ Len(buffer'[j]) \in Nat
                       /\ limit[j] \in Nat
  BY <1>4, <1>5, LenProperties DEF StreamInv, Data
<1>9. \A j \in Kinds : Full(j, buffer'[j]) => Full(j, buffer[j])
  BY <1>4, <1>8 DEF Full
<1>10. \A j \in Kinds : Full(j, buffer[j])' <=> Full(j, buffer'[j])
  BY <1>3 DEF Full
<1>11. Room'
  <2>1. \A j \in Kinds : limit[j] # 0 => Len(buffer'[j]) <= limit[j]
    BY <1>4, <1>5, <1>8 DEF StreamInv, Room
  <2>. QED
    BY <1>3, <1>5, <1>9, <1>10, <2>1 DEF StreamInv, Room
<1>12. BitsFollowBuffers'
  BY <1>1, <1>3, <1>4, <1>5, <1>9, <1>10 DEF StreamInv, BitsFollowBuffers, Running
<1>13. Arrives'
  BY <1>3, <1>4, <1>5 DEF StreamInv, Arrives, Units
<1>. QED
  BY <1>6, <1>7, <1>11, <1>12, <1>13 DEF StreamInv

\* put appends to the input that waits for the child.
LEMMA PutStream ==
    ASSUME IInv, Put(asked), UNCHANGED <<client, clientVars, childVars>>
    PROVE  StreamInv'
<1>1. asked \in Nat /\ threadAt # "none"
  BY DEF IInv, ClientInv, InOrder, Put, Acts
<1>2. /\ UNCHANGED <<limit, threadVars, pipe, childRuns, response, buffer, received, error,
                     written>>
      /\ \/ inBuffer' = Append(inBuffer, asked) /\ control' = control \cup {"in"}
         \/ UNCHANGED <<inBuffer, control>>
  BY DEF Put
<1>3. StreamInv
  BY DEF IInv
<1>4. Append(inBuffer, asked) \in Seq(Nat)
  BY <1>1, <1>3, Longer DEF StreamInv, Data
<1>5. Data'
  BY <1>2, <1>3, <1>4 DEF StreamInv, Data
<1>6. Flags' /\ NotStarted' /\ Closed'
  BY <1>1, <1>2, <1>3 DEF StreamInv, Flags, NotStarted, Closed
<1>7. Room'
  BY <1>2, <1>3 DEF StreamInv, Room, Full
<1>8. BitsFollowBuffers'
  BY <1>2, <1>3 DEF StreamInv, BitsFollowBuffers, Running, Full
<1>9. Arrives'
  BY <1>2, <1>3, ArrivesFrame DEF StreamInv
<1>. QED
  BY <1>5, <1>6, <1>7, <1>8, <1>9 DEF StreamInv

\* The thread takes input to write and decides which pipes to watch.
LEMMA TakeStream ==
    ASSUME IInv, Take, UNCHANGED <<client, clientVars, childVars>>
    PROVE  StreamInv'
<1>1. StreamInv /\ threadAt = "take"
  BY DEF IInv, Take
<1>2. /\ UNCHANGED <<limit, pipe, childRuns, buffer, received, seen, eof, error, written>>
      /\ threadAt' \in {"stopping", "transfer", "select"}
      /\ threadAt' = "stopping" => "child" \in seen
      /\ \/ UNCHANGED <<inBuffer, writing>>
         \/ inBuffer # <<>> /\ writing' = <<Head(inBuffer)>> /\ inBuffer' = Tail(inBuffer)
      /\ control' = control \/ (control' = control \ {"in"} /\ inBuffer' = <<>>)
      /\ response' = response \/ response' = response \cup {"in"}
      /\ threadAt' = "transfer" => wants' = {}
      /\ wants' \subseteq {"in"} \cup {k \in Kinds : k \in seen}
  BY DEF Take, StopsNow
<1>3. inBuffer # <<>> => /\ Tail(inBuffer) \in Seq(Nat) /\ <<Head(inBuffer)>> \in Seq(Nat)
                         /\ Len(<<Head(inBuffer)>>) = 1
  BY <1>1, Shorter DEF StreamInv, Data
<1>4. Data'
  BY <1>1, <1>2, <1>3 DEF StreamInv, Data
<1>5. Flags' /\ NotStarted'
  BY <1>1, <1>2 DEF StreamInv, Flags, NotStarted
<1>6. Closed'
  BY <1>1, <1>2 DEF StreamInv, Closed, Take
<1>7. Room'
  <2>1. Len(writing') <= 1
    <3>1. CASE writing' = writing
      BY <1>1, <3>1 DEF StreamInv, Room
    <3>2. CASE inBuffer # <<>> /\ writing' = <<Head(inBuffer)>>
      <4>1. Len(writing') = Len(<<Head(inBuffer)>>)
        BY <3>2
      <4>. QED
        BY <1>3, <3>2, <4>1
    <3>. QED
      BY <1>2, <3>1, <3>2
  <2>2. \A j \in Kinds : Full(j, buffer[j])' <=> Full(j, buffer[j])
    BY <1>2 DEF Full
  <2>3. \A j \in Kinds : j \in wants' => ~ Full(j, buffer[j])
    BY <1>1, <1>2 DEF StreamInv, Room
  <2>. QED
    BY <1>1, <1>2, <2>1, <2>2, <2>3 DEF StreamInv, Room
<1>8. BitsFollowBuffers'
  BY <1>1, <1>2 DEF StreamInv, BitsFollowBuffers, Running, Full
<1>9. Arrives'
  BY <1>1, <1>2, ArrivesFrame DEF StreamInv
<1>. QED
  BY <1>4, <1>5, <1>6, <1>7, <1>8, <1>9 DEF StreamInv

\* The thread writes to the child, or learns that the child is gone.
LEMMA WriteStream ==
    ASSUME IInv, Write, UNCHANGED <<client, clientVars, childVars>>
    PROVE  StreamInv'
<1>1. StreamInv /\ threadAt = "transfer" /\ "in" \in wants
  BY DEF IInv, Write
<1>2. /\ UNCHANGED <<limit, childRuns, control, response, inBuffer, buffer, received, seen,
                     eof, written>>
      /\ wants' = wants \ {"in"}
      /\ \/ /\ childRuns /\ UNCHANGED <<error, threadAt>> /\ writing' = <<>>
            /\ pipe' = [pipe EXCEPT !["in"] = pipe["in"] \o writing]
         \/ /\ ~ childRuns /\ error' = TRUE /\ threadAt' = "stopping"
            /\ UNCHANGED <<pipe, writing>>
  BY DEF Write
<1>3. /\ pipe["in"] \o writing \in Seq(Nat)
      /\ Len(pipe["in"] \o writing) = Len(pipe["in"]) + Len(writing)
      /\ Len(pipe["in"]) \in Nat /\ Len(writing) \in Nat
      /\ pipe \in [Pipes -> Seq(Nat)] /\ writing \in Seq(Nat) /\ <<>> \in Seq(Nat)
  BY <1>1, ConcatProperties, LenProperties, EmptySeq DEF StreamInv, Data
<1>4. Data'
  BY <1>1, <1>2, <1>3 DEF StreamInv, Data
<1>5. \A k \in Kinds : pipe'[k] = pipe[k]
  BY <1>1, <1>2 DEF StreamInv, Data
<1>6. Flags' /\ NotStarted' /\ Closed'
  BY <1>1, <1>2, <1>5 DEF StreamInv, Flags, NotStarted, Closed
<1>7. \A p \in Pipes : Len(pipe'[p]) <= PipeSize
  BY <1>1, <1>2, <1>3, <1>5 DEF StreamInv, Data, Room
<1>8. Room'
  BY <1>1, <1>2, <1>7, EmptySeq DEF StreamInv, Room, Full
<1>9. BitsFollowBuffers'
  BY <1>1, <1>2 DEF StreamInv, BitsFollowBuffers, Running, Full
<1>10. Arrives'
  BY <1>1, <1>2, <1>5, ArrivesFrame DEF StreamInv
<1>. QED
  BY <1>4, <1>6, <1>8, <1>9, <1>10 DEF StreamInv

\* A read that finds an empty pipe announces the end; the other moves one
\* unit, for which there is room.
LEMMA ReadStream ==
    ASSUME IInv, NEW k \in Kinds, Read(k), UNCHANGED <<client, clientVars, childVars>>
    PROVE  StreamInv'
<1>1. StreamInv /\ threadAt = "transfer" /\ k \in wants
  BY DEF IInv, Read
<1>2. /\ UNCHANGED <<limit, childRuns, inBuffer, received, threadAt, seen, writing, error,
                     written>>
      /\ wants' = wants \ {k}
  BY DEF Read
<1>3. /\ pipe[k] \in Seq(Nat) /\ buffer[k] \in Seq(Nat) /\ received[k] \in Seq(Nat)
      /\ pipe \in [Pipes -> Seq(Nat)] /\ buffer \in [Kinds -> Seq(Nat)]
      /\ \A j \in Kinds : Len(buffer[j]) \in Nat /\ limit[j] \in Nat
      /\ \A p \in Pipes : Len(pipe[p]) \in Nat
  BY <1>1, LenProperties DEF StreamInv, Data
<1>4. CASE pipe[k] = <<>>
  <2>1. /\ UNCHANGED <<pipe, buffer, control>>
        /\ eof' = [eof EXCEPT ![k] = TRUE]
        /\ response' = response \cup {k, EofBit(k)}
    BY <1>4 DEF Read, EofBits
  <2>2. ~ childRuns
    BY <1>1, <1>4 DEF StreamInv, Closed
  <2>3. Data' /\ Flags' /\ NotStarted'
    BY <1>1, <1>2, <2>1 DEF StreamInv, Data, Flags, NotStarted
  <2>4. Closed'
    BY <1>1, <1>2, <1>4, <2>1, <2>2 DEF StreamInv, Flags, Closed
  <2>5. Room'
    BY <1>1, <1>2, <2>1 DEF StreamInv, Room, Full
  <2>6. BitsFollowBuffers'
    BY <1>1, <1>2, <2>1 DEF StreamInv, BitsFollowBuffers, Running, Full
  <2>7. Arrives'
    BY <1>1, <1>2, <2>1, ArrivesFrame DEF StreamInv
  <2>. QED
    BY <2>3, <2>4, <2>5, <2>6, <2>7 DEF StreamInv
<1>5. CASE pipe[k] # <<>>
  <2> DEFINE b == Append(buffer[k], Head(pipe[k]))
             p == Tail(pipe[k])
  <2>1. /\ pipe' = [pipe EXCEPT ![k] = p]
        /\ buffer' = [buffer EXCEPT ![k] = b]
        /\ control' = IF Full(k, buffer'[k]) THEN control \ {k} ELSE control
        /\ response' = response \cup {k}
        /\ UNCHANGED eof
    BY <1>5 DEF Read
  <2>2. /\ b \in Seq(Nat) /\ b # <<>> /\ Len(b) = Len(buffer[k]) + 1
        /\ p \in Seq(Nat) /\ Len(p) = Len(pipe[k]) - 1
    BY <1>3, <1>5, Shorter, Longer
  <2>3. received[k] \o b \o p = received[k] \o buffer[k] \o pipe[k]
    BY <1>3, <1>5, MovedUp
  <2>. HIDE DEF b, p
  <2>4. /\ buffer'[k] = b /\ pipe'[k] = p
        /\ \A j \in Kinds : j # k => buffer'[j] = buffer[j] /\ pipe'[j] = pipe[j]
        /\ pipe'["in"] = pipe["in"]
    BY <1>3, <2>1
  <2>5. Data'
    BY <1>1, <1>2, <1>3, <2>1, <2>2 DEF StreamInv, Data
  <2>6. Flags' /\ NotStarted'
    BY <1>1, <1>2, <2>1 DEF StreamInv, Flags, NotStarted
  <2>7. ~ eof[k]
    BY <1>1, <1>5 DEF StreamInv, Closed
  <2>8. Closed'
    BY <1>1, <1>2, <2>1, <2>4, <2>7 DEF StreamInv, Closed
  <2>9. \A j \in Kinds : Full(j, buffer[j])' <=> Full(j, buffer'[j])
    BY <1>2 DEF Full
  <2>10. \A j \in Kinds : limit[j] # 0 => Len(buffer'[j]) <= limit[j]
    <3>1. ~ Full(k, buffer[k])
      BY <1>1 DEF StreamInv, Room
    <3>2. limit[k] # 0 => Len(b) <= limit[k]
      BY <1>3, <2>2, <3>1 DEF Full
    <3>3. \A j \in Kinds : j # k => (limit[j] # 0 => Len(buffer'[j]) <= limit[j])
      BY <1>1, <2>4 DEF StreamInv, Room
    <3>. QED
      BY <2>4, <3>2, <3>3
  <2>11. Room'
    <3>1. \A q \in Pipes : Len(pipe'[q]) <= PipeSize
      <4>1. k \in Pipes /\ Len(pipe[k]) <= PipeSize /\ Len(pipe[k]) \in Nat
        BY <1>1, <1>3 DEF StreamInv, Room
      <4>2. Len(p) <= PipeSize
        BY <2>2, <4>1
      <4>3. \A q \in Pipes : q # k => pipe'[q] = pipe[q]
        BY <1>3, <2>1
      <4>. QED
        BY <1>1, <2>4, <4>2, <4>3 DEF StreamInv, Room
    <3>2. \A j \in Kinds : j \in wants' => ~ Full(j, buffer'[j])
      BY <1>1, <1>2, <2>4 DEF StreamInv, Room
    <3>. QED
      BY <1>1, <1>2, <2>4, <2>9, <2>10, <3>1, <3>2 DEF StreamInv, Room
  <2>12. BitsFollowBuffers'
    <3>1. ~ Full(k, buffer[k])
      BY <1>1 DEF StreamInv, Room
    <3>. QED
      BY <1>1, <1>2, <2>1, <2>2, <2>4, <2>9, <3>1
      DEF StreamInv, BitsFollowBuffers, Running, Full
  <2>13. Arrives'
    BY <1>1, <1>2, <2>3, <2>4 DEF StreamInv, Arrives, Units
  <2>. QED
    BY <2>5, <2>6, <2>8, <2>11, <2>12, <2>13 DEF StreamInv
<1>. QED
  BY <1>4, <1>5

\* The thread's steps that move nothing.
LEMMA TurnStream ==
    ASSUME IInv, UNCHANGED <<client, clientVars, childVars>>,
           Wait \/ WaitTimesOut \/ Select \/ EndTurn \/ Stop
    PROVE  StreamInv'
<1>. USE DEF IInv, StreamInv, Data, Flags, NotStarted, Room, Closed, BitsFollowBuffers,
         Running, Full
<1>1. Arrives'
  BY ArrivesFrame DEF Wait, WaitTimesOut, Select, EndTurn, Stop
<1>2. CASE Wait
  <2>1. Data' /\ Flags' /\ NotStarted' /\ Closed'
    BY <1>2 DEF Wait
  <2>2. Room'
    BY <1>2 DEF Wait
  <2>3. BitsFollowBuffers'
    BY <1>2 DEF Wait
  <2>. QED
    BY <1>1, <2>1, <2>2, <2>3
<1>3. CASE WaitTimesOut
  BY <1>1, <1>3 DEF WaitTimesOut
<1>4. CASE Select
  <2>1. wants' \in SUBSET Pipes /\ \A p \in wants' : p \in wants /\ Ready(p)
    BY <1>4 DEF Select
  <2>2. Data' /\ Flags' /\ NotStarted'
    BY <1>4, <2>1 DEF Select
  <2>3. Room' /\ Closed'
    BY <1>4, <2>1 DEF Select, Ready
  <2>4. BitsFollowBuffers'
    BY <1>4 DEF Select
  <2>. QED
    BY <1>1, <2>2, <2>3, <2>4
<1>5. CASE EndTurn
  BY <1>1, <1>5 DEF EndTurn, AllDone
<1>6. CASE Stop
  <2>1. Len(<<>>) = 0 /\ <<>> \in Seq(Nat)
    BY EmptySeq
  <2>2. Data' /\ Flags' /\ NotStarted' /\ Closed'
    BY <1>6, <2>1 DEF Stop
  <2>3. Room'
    BY <1>6, <2>1 DEF Stop
  <2>4. BitsFollowBuffers'
    BY <1>6 DEF Stop
  <2>. QED
    BY <1>1, <2>2, <2>3, <2>4
<1>. QED
  BY <1>2, <1>3, <1>4, <1>5, <1>6

\* A child appends to a pipe that has room.
LEMMA ChildWritesStream ==
    ASSUME IInv, NEW k \in Kinds, ChildWrites(k), childRuns
    PROVE  StreamInv'
<1>1. StreamInv
  BY DEF IInv
<1>2. UNCHANGED <<limit, control, response, inBuffer, buffer, received, threadVars, error>>
  BY DEF ChildWrites
<1>3. CASE k \notin parentEnds
  <2>1. childRuns' = FALSE /\ UNCHANGED <<pipe, written>>
    BY <1>3 DEF ChildWrites
  <2>2. Data' /\ Flags' /\ NotStarted' /\ Closed' /\ Room'
    BY <1>1, <1>2, <2>1 DEF StreamInv, Data, Flags, NotStarted, Closed, Room, Full
  <2>3. BitsFollowBuffers'
    BY <1>1, <1>2, <2>1 DEF StreamInv, BitsFollowBuffers, Running, Full
  <2>4. Arrives'
    BY <1>1, <1>2, <2>1, ArrivesFrame DEF StreamInv
  <2>. QED
    BY <2>2, <2>3, <2>4 DEF StreamInv
<1>4. CASE k \in parentEnds
  <2> DEFINE p == Append(pipe[k], written[k] + 1)
  <2>1. /\ Len(pipe[k]) < PipeSize /\ UNCHANGED childRuns
        /\ written' = [written EXCEPT ![k] = written[k] + 1]
        /\ pipe' = [pipe EXCEPT ![k] = p]
    BY <1>4 DEF ChildWrites
  <2>2. /\ pipe[k] \in Seq(Nat) /\ buffer[k] \in Seq(Nat) /\ received[k] \in Seq(Nat)
        /\ written[k] \in Nat /\ written[k] + 1 \in Nat
        /\ pipe \in [Pipes -> Seq(Nat)] /\ written \in [Kinds -> Nat]
        /\ \A q \in Pipes : Len(pipe[q]) \in Nat
    BY <1>1, LenProperties DEF StreamInv, Data
  <2>3. p \in Seq(Nat) /\ p # <<>> /\ Len(p) = Len(pipe[k]) + 1
    BY <2>2, Longer
  <2>4. received[k] \o buffer[k] \o p = Units(written[k] + 1)
    <3>1. received[k] \o buffer[k] \in Seq(Nat)
      BY <2>2, ConcatProperties
    <3>2. received[k] \o buffer[k] \o pipe[k] = Units(written[k])
      BY <1>1 DEF StreamInv, Arrives
    <3>. QED
      BY <2>2, <3>1, <3>2, NextUnit
  <2>. HIDE DEF p
  <2>5. /\ pipe'[k] = p /\ written'[k] = written[k] + 1 /\ pipe'["in"] = pipe["in"]
        /\ \A j \in Kinds : j # k => pipe'[j] = pipe[j] /\ written'[j] = written[j]
    BY <2>1, <2>2
  <2>6. Data'
    BY <1>1, <1>2, <2>1, <2>2, <2>3 DEF StreamInv, Data
  <2>7. Flags' /\ NotStarted'
    BY <1>1, <1>2, <2>1 DEF StreamInv, Flags, NotStarted
  <2>8. Closed'
    BY <1>1, <1>2, <2>1, <2>3, <2>5 DEF StreamInv, Closed
  <2>9. \A q \in Pipes : Len(pipe'[q]) <= PipeSize
    BY <1>1, <2>1, <2>2, <2>3, <2>5 DEF StreamInv, Room
  <2>10. Room'
    BY <1>1, <1>2, <2>1, <2>5, <2>9 DEF StreamInv, Room, Full
  <2>11. BitsFollowBuffers'
    BY <1>1, <1>2 DEF StreamInv, BitsFollowBuffers, Running, Full
  <2>12. Arrives'
    BY <1>1, <1>2, <2>4, <2>5 DEF StreamInv, Arrives, Units
  <2>. QED
    BY <2>6, <2>7, <2>8, <2>10, <2>11, <2>12 DEF StreamInv
<1>. QED
  BY <1>3, <1>4

\* A child consumes its input.
LEMMA ChildReadsStream ==
    ASSUME IInv, ChildReads
    PROVE  StreamInv'
<1>1. StreamInv
  BY DEF IInv
<1>2. /\ UNCHANGED <<limit, control, response, inBuffer, buffer, received, threadVars, error,
                     childRuns, written>>
      /\ childRuns /\ pipe["in"] # <<>>
      /\ pipe' = [pipe EXCEPT !["in"] = Tail(pipe["in"])]
  BY DEF ChildReads
<1>3. /\ pipe \in [Pipes -> Seq(Nat)] /\ pipe["in"] \in Seq(Nat)
      /\ \A p \in Pipes : Len(pipe[p]) \in Nat
  BY <1>1, LenProperties DEF StreamInv, Data
<1>4. Tail(pipe["in"]) \in Seq(Nat) /\ Len(Tail(pipe["in"])) = Len(pipe["in"]) - 1
  BY <1>2, <1>3, Shorter
<1>5. pipe'["in"] = Tail(pipe["in"]) /\ \A k \in Kinds : pipe'[k] = pipe[k]
  BY <1>2, <1>3
<1>6. Data'
  BY <1>1, <1>2, <1>3, <1>4 DEF StreamInv, Data
<1>7. Flags' /\ NotStarted' /\ Closed'
  BY <1>1, <1>2, <1>5 DEF StreamInv, Flags, NotStarted, Closed
<1>8. \A p \in Pipes : Len(pipe'[p]) <= Len(pipe[p]) /\ Len(pipe'[p]) \in Nat
  BY <1>3, <1>4, <1>5
<1>9. Room'
  BY <1>1, <1>2, <1>3, <1>8 DEF StreamInv, Room, Full
<1>10. BitsFollowBuffers'
  BY <1>1, <1>2 DEF StreamInv, BitsFollowBuffers, Running, Full
<1>11. Arrives'
  BY <1>1, <1>2, <1>5, ArrivesFrame DEF StreamInv
<1>. QED
  BY <1>6, <1>7, <1>9, <1>10, <1>11 DEF StreamInv

\* A child ends; its pipes keep what it wrote.
LEMMA ChildEndsStream ==
    ASSUME IInv, ChildEnds \/ ChildCrashes
    PROVE  StreamInv'
<1>1. StreamInv
  BY DEF IInv
<1>2. /\ UNCHANGED <<limit, control, response, inBuffer, buffer, received, threadVars, error,
                     pipe, written>>
      /\ childRuns' = FALSE
  BY DEF ChildEnds, ChildCrashes
<1>3. Data' /\ Flags' /\ NotStarted' /\ Closed' /\ Room'
  BY <1>1, <1>2 DEF StreamInv, Data, Flags, NotStarted, Closed, Room, Full
<1>4. BitsFollowBuffers'
  BY <1>1, <1>2 DEF StreamInv, BitsFollowBuffers, Running, Full
<1>5. Arrives'
  BY <1>1, <1>2, ArrivesFrame DEF StreamInv
<1>. QED
  BY <1>3, <1>4, <1>5 DEF StreamInv

\* What main changes of the streams outside of get and put.
LEMMA SignalsStream ==
    ASSUME IInv,
           \/ Launch \/ CloseInput \/ CloseStop \/ CloseJoin \/ CloseAborts
           \/ (CallWait \/ CallTimesOut) /\ UNCHANGED <<client, clientVars, childVars>>
    PROVE  StreamInv'
<1>. USE DEF IInv, StreamInv
<1>1. Arrives'
  BY ArrivesFrame
  DEF Launch, Start, CloseInput, CloseIn, CloseStop, StopThread, CloseJoin, Join,
      CloseAborts, AbortThread, CallWait, CallTimesOut
<1>2. CASE Launch
  <2>1. Data' /\ Flags' /\ NotStarted' /\ Closed'
    BY <1>2 DEF Launch, Start, Data, Flags, NotStarted, Closed
  <2>2. Room'
    BY <1>2, EmptySeq DEF Launch, Start, Data, NotStarted, Room, Full
  <2>3. BitsFollowBuffers'
    BY <1>2, EmptySeq DEF Launch, Start, Data, NotStarted, BitsFollowBuffers, Running, Full
  <2>. QED
    BY <1>1, <2>1, <2>2, <2>3
<1>3. CASE CloseInput \/ CloseStop
  <2>1. /\ UNCHANGED <<limit, pipe, childRuns, buffer, received, inBuffer, response, error,
                       threadVars, written>>
        /\ control' = control \cup {"in_eof"} \/ control' = control \cup {"child"}
    BY <1>3 DEF CloseInput, CloseIn, CloseStop, StopThread
  <2>2. Data' /\ Flags' /\ NotStarted' /\ Closed'
    BY <2>1 DEF Data, Flags, NotStarted, Closed
  <2>3. Room'
    BY <2>1 DEF Room, Full
  <2>4. BitsFollowBuffers'
    BY <2>1 DEF BitsFollowBuffers, Running, Full
  <2>. QED
    BY <1>1, <2>2, <2>3, <2>4
<1>4. CASE CloseAborts
  <2>1. /\ UNCHANGED <<limit, pipe, childRuns, buffer, received, inBuffer, control, response,
                       seen, wants, writing, inEof, eof, error, written>>
        /\ threadAt' = "cancelled" /\ "child" \notin response
    BY <1>4 DEF CloseAborts, AbortThread
  <2>2. Data' /\ Flags' /\ NotStarted' /\ Closed'
    BY <2>1 DEF Data, Flags, NotStarted, Closed
  <2>3. Room'
    BY <2>1 DEF Room, Full
  <2>4. BitsFollowBuffers'
    BY <2>1 DEF BitsFollowBuffers, Running, Full
  <2>. QED
    BY <1>1, <2>2, <2>3, <2>4
<1>5. CASE \/ CloseJoin
           \/ (CallWait \/ CallTimesOut) /\ UNCHANGED <<client, clientVars, childVars>>
  BY <1>5, StreamFrame DEF CloseJoin, Join, CallWait, CallTimesOut
<1>. QED
  BY <1>2, <1>3, <1>4, <1>5

------------------------------------------------------------------------------
(* What the client knows. *)

MainActs ==
    \/ Launch \/ LaunchFails
    \/ ReadOut \/ ReadGot \/ ReadEnds \/ ForwardSome \/ ForwardGot \/ ForwardNone
    \/ Ask \/ Asked \/ AnswerRead \/ AnswerGot \/ AnswerEnds \/ AnswerReturn
    \/ AnswerMismatch \/ Throw \/ Leave
    \/ CloseInput \/ CloseStop \/ CloseJoin \/ CloseAborts
    \/ ((InCall \/ CallTimesOut) /\ UNCHANGED <<client, clientVars, childVars>>)

\* No step of main breaks the streams.
LEMMA MainStream ==
    ASSUME IInv, MainActs
    PROVE  StreamInv'
<1>1. CASE \/ LaunchFails \/ ReadOut \/ ReadGot \/ ReadEnds \/ ForwardSome \/ ForwardGot
           \/ ForwardNone \/ Ask \/ Asked \/ AnswerRead \/ AnswerGot \/ AnswerEnds
           \/ AnswerReturn \/ AnswerMismatch \/ Throw \/ Leave
  <2>1. UNCHANGED <<limit, threadVars, pipe, childRuns, control, response, inBuffer, buffer,
                    received, error, written>>
    BY <1>1 DEF LaunchFails, ReadOut, ReadGot, ReadEnds, ForwardSome, ForwardGot, ForwardNone,
        Ask, Asked, AnswerRead, AnswerGot, AnswerEnds, AnswerReturn, AnswerMismatch, Throw,
        Leave, StartGet, StartPut, Handle
  <2>. QED
    BY <2>1, StreamFrame DEF IInv
<1>2. CASE \/ Launch \/ CloseInput \/ CloseStop \/ CloseJoin \/ CloseAborts
           \/ (CallWait \/ CallTimesOut) /\ UNCHANGED <<client, clientVars, childVars>>
  BY <1>2, SignalsStream
<1>3. CASE /\ GetAfterStop \/ Get \/ Put(asked)
           /\ UNCHANGED <<client, clientVars, childVars>>
  BY <1>3, GetAfterStopStream, GetStream, PutStream
<1>. QED
  BY <1>1, <1>2, <1>3 DEF MainActs, InCall

\* The client keeps to its own order.
LEMMA MainClient ==
    ASSUME IInv, MainActs
    PROVE  ClientInv'
<1>. USE DEF IInv, StreamInv, Flags, ClientInv, CallType, InOrder
<1>1. CASE Launch
  BY <1>1 DEF Launch, Start
<1>2. CASE LaunchFails
  BY <1>2 DEF LaunchFails
<1>3. CASE ReadOut
  BY <1>3 DEF ReadOut, StartGet, Begin
<1>4. CASE ReadGot
  BY <1>4 DEF ReadGot, Handle
<1>5. CASE ReadEnds
  BY <1>5 DEF ReadEnds, Handle
<1>6. CASE ForwardSome
  BY <1>6 DEF ForwardSome, StartGet, Begin
<1>7. CASE ForwardGot
  BY <1>7 DEF ForwardGot, Handle
<1>8. CASE ForwardNone
  BY <1>8 DEF ForwardNone
<1>9. CASE Ask
  BY <1>9 DEF Ask, StartPut, Begin
<1>10. CASE Asked
  BY <1>10 DEF Asked, Handle
<1>11. CASE AnswerRead
  BY <1>11 DEF AnswerRead, StartGet, Begin
<1>12. CASE AnswerGot
  BY <1>12 DEF AnswerGot, Handle
<1>13. CASE AnswerEnds
  BY <1>13 DEF AnswerEnds, Handle
<1>14. CASE AnswerReturn
  BY <1>14 DEF AnswerReturn, Returns
<1>15. CASE AnswerMismatch
  BY <1>15 DEF AnswerMismatch
<1>16. CASE Throw
  BY <1>16 DEF Throw, Handle
<1>17. CASE Leave
  BY <1>17 DEF Leave
<1>18. CASE CloseInput
  BY <1>18 DEF CloseInput, CloseIn
<1>19. CASE CloseStop
  BY <1>19 DEF CloseStop, StopThread
<1>20. CASE CloseJoin
  BY <1>20 DEF CloseJoin, Join
<1>21. CASE CloseAborts
  BY <1>21 DEF CloseAborts, AbortThread
<1>22. CASE CallWait /\ UNCHANGED <<client, clientVars, childVars>>
  BY <1>22 DEF CallWait, CallWaitsFor
<1>23. CASE GetAfterStop /\ UNCHANGED <<client, clientVars, childVars>>
  BY <1>23 DEF GetAfterStop, Acts, Ended, Delivers, HasData
<1>24. CASE Get /\ UNCHANGED <<client, clientVars, childVars>>
  BY <1>24 DEF Get, Acts, Ended, Delivers, HasData, IsDrained, HasRoom
<1>25. CASE Put(asked) /\ UNCHANGED <<client, clientVars, childVars>>
  BY <1>25 DEF Put, Acts, Ended
<1>26. CASE CallTimesOut /\ UNCHANGED <<client, clientVars, childVars>>
  BY <1>26 DEF CallTimesOut, CallWaitsFor, Ended
<1>. QED
  BY <1>1, <1>2, <1>3, <1>4, <1>5, <1>6, <1>7, <1>8, <1>9, <1>10, <1>11,
       <1>12, <1>13, <1>14, <1>15, <1>16, <1>17, <1>18, <1>19, <1>20, <1>21,
       <1>22, <1>23, <1>24, <1>25, <1>26 DEF MainActs, InCall

\* Nothing is called before the start, nothing is stopped before the end.
LEMMA MainInOrder ==
    ASSUME IInv, MainActs
    PROVE  InOrder'
<1>. USE DEF IInv, StreamInv, NotStarted, ClientInv, CallType, InOrder
<1>1. CASE Launch
  BY <1>1 DEF Launch, Start
<1>2. CASE LaunchFails
  BY <1>2 DEF LaunchFails
<1>3. CASE ReadOut
  BY <1>3 DEF ReadOut, StartGet, Begin
<1>4. CASE ReadGot
  BY <1>4 DEF ReadGot, Handle
<1>5. CASE ReadEnds
  BY <1>5 DEF ReadEnds, Handle
<1>6. CASE ForwardSome
  BY <1>6 DEF ForwardSome, StartGet, Begin
<1>7. CASE ForwardGot
  BY <1>7 DEF ForwardGot, Handle
<1>8. CASE ForwardNone
  BY <1>8 DEF ForwardNone
<1>9. CASE Ask
  BY <1>9 DEF Ask, StartPut, Begin
<1>10. CASE Asked
  BY <1>10 DEF Asked, Handle
<1>11. CASE AnswerRead
  BY <1>11 DEF AnswerRead, StartGet, Begin
<1>12. CASE AnswerGot
  BY <1>12 DEF AnswerGot, Handle
<1>13. CASE AnswerEnds
  BY <1>13 DEF AnswerEnds, Handle
<1>14. CASE AnswerReturn
  BY <1>14 DEF AnswerReturn, Returns
<1>15. CASE AnswerMismatch
  BY <1>15 DEF AnswerMismatch
<1>16. CASE Throw
  BY <1>16 DEF Throw, Handle
<1>17. CASE Leave
  BY <1>17 DEF Leave
<1>18. CASE CloseInput
  BY <1>18 DEF CloseInput, CloseIn
<1>19. CASE CloseStop
  BY <1>19 DEF CloseStop, StopThread
<1>20. CASE CloseJoin
  BY <1>20 DEF CloseJoin, Join
<1>21. CASE CloseAborts
  BY <1>21 DEF CloseAborts, AbortThread
<1>22. CASE CallWait /\ UNCHANGED <<client, clientVars, childVars>>
  BY <1>22 DEF CallWait, CallWaitsFor
<1>23. CASE GetAfterStop /\ UNCHANGED <<client, clientVars, childVars>>
  BY <1>23 DEF GetAfterStop, Acts, Ended, Delivers, HasData
<1>24. CASE Get /\ UNCHANGED <<client, clientVars, childVars>>
  BY <1>24 DEF Get, Acts, Ended, Delivers, HasData, IsDrained, HasRoom
<1>25. CASE Put(asked) /\ UNCHANGED <<client, clientVars, childVars>>
  BY <1>25 DEF Put, Acts, Ended
<1>26. CASE CallTimesOut /\ UNCHANGED <<client, clientVars, childVars>>
  BY <1>26 DEF CallTimesOut, CallWaitsFor, Ended
<1>. QED
  BY <1>1, <1>2, <1>3, <1>4, <1>5, <1>6, <1>7, <1>8, <1>9, <1>10, <1>11,
       <1>12, <1>13, <1>14, <1>15, <1>16, <1>17, <1>18, <1>19, <1>20, <1>21,
       <1>22, <1>23, <1>24, <1>25, <1>26 DEF MainActs, InCall

\* What a call waited for has come.
LEMMA MainSeen ==
    ASSUME IInv, MainActs
    PROVE  Seen'
<1>. USE DEF IInv, StreamInv, Flags, NotStarted, Closed, BitsFollowBuffers,
               ClientInv, CallType, InOrder, Seen
<1>1. CASE Launch
  BY <1>1 DEF Launch, Start
<1>2. CASE LaunchFails
  BY <1>2 DEF LaunchFails
<1>3. CASE ReadOut
  BY <1>3 DEF ReadOut, StartGet, Begin
<1>4. CASE ReadGot
  BY <1>4 DEF ReadGot, Handle
<1>5. CASE ReadEnds
  BY <1>5 DEF ReadEnds, Handle
<1>6. CASE ForwardSome
  BY <1>6 DEF ForwardSome, StartGet, Begin
<1>7. CASE ForwardGot
  BY <1>7 DEF ForwardGot, Handle
<1>8. CASE ForwardNone
  BY <1>8 DEF ForwardNone
<1>9. CASE Ask
  BY <1>9 DEF Ask, StartPut, Begin
<1>10. CASE Asked
  BY <1>10 DEF Asked, Handle
<1>11. CASE AnswerRead
  BY <1>11 DEF AnswerRead, StartGet, Begin
<1>12. CASE AnswerGot
  BY <1>12 DEF AnswerGot, Handle
<1>13. CASE AnswerEnds
  BY <1>13 DEF AnswerEnds, Handle
<1>14. CASE AnswerReturn
  BY <1>14 DEF AnswerReturn, Returns
<1>15. CASE AnswerMismatch
  BY <1>15 DEF AnswerMismatch
<1>16. CASE Throw
  BY <1>16 DEF Throw, Handle
<1>17. CASE Leave
  BY <1>17 DEF Leave
<1>18. CASE CloseInput
  BY <1>18 DEF CloseInput, CloseIn
<1>19. CASE CloseStop
  BY <1>19 DEF CloseStop, StopThread
<1>20. CASE CloseJoin
  BY <1>20 DEF CloseJoin, Join
<1>21. CASE CloseAborts
  BY <1>21 DEF CloseAborts, AbortThread
<1>22. CASE CallWait /\ UNCHANGED <<client, clientVars, childVars>>
  BY <1>22 DEF CallWait, CallWaitsFor
<1>23. CASE GetAfterStop /\ UNCHANGED <<client, clientVars, childVars>>
  BY <1>23 DEF GetAfterStop, Acts, Ended, Delivers, HasData
<1>24. CASE Get /\ UNCHANGED <<client, clientVars, childVars>>
  BY <1>24 DEF Get, Acts, Ended, Delivers, HasData, IsDrained, HasRoom
<1>25. CASE Put(asked) /\ UNCHANGED <<client, clientVars, childVars>>
  BY <1>25 DEF Put, Acts, Ended
<1>26. CASE CallTimesOut /\ UNCHANGED <<client, clientVars, childVars>>
  BY <1>26 DEF CallTimesOut, CallWaitsFor, Ended
<1>. QED
  BY <1>1, <1>2, <1>3, <1>4, <1>5, <1>6, <1>7, <1>8, <1>9, <1>10, <1>11,
       <1>12, <1>13, <1>14, <1>15, <1>16, <1>17, <1>18, <1>19, <1>20, <1>21,
       <1>22, <1>23, <1>24, <1>25, <1>26 DEF MainActs, InCall

\* The end is seen only by who has everything.
LEMMA MainEnds ==
    ASSUME IInv, MainActs
    PROVE  Ends'
<1>. USE DEF IInv, StreamInv, Data, Flags, NotStarted, Closed,
               BitsFollowBuffers, ClientInv, CallType, InOrder, Seen, Ends,
               NeverEmptyHanded, Running, InClosed, HasData
<1>1. CASE Launch
  BY <1>1 DEF Launch, Start
<1>2. CASE LaunchFails
  BY <1>2 DEF LaunchFails
<1>3. CASE ReadOut
  BY <1>3 DEF ReadOut, StartGet, Begin
<1>4. CASE ReadGot
  BY <1>4 DEF ReadGot, Handle
<1>5. CASE ReadEnds
  BY <1>5 DEF ReadEnds, Handle
<1>6. CASE ForwardSome
  BY <1>6 DEF ForwardSome, StartGet, Begin
<1>7. CASE ForwardGot
  BY <1>7 DEF ForwardGot, Handle
<1>8. CASE ForwardNone
  BY <1>8 DEF ForwardNone
<1>9. CASE Ask
  BY <1>9 DEF Ask, StartPut, Begin
<1>10. CASE Asked
  BY <1>10 DEF Asked, Handle
<1>11. CASE AnswerRead
  BY <1>11 DEF AnswerRead, StartGet, Begin
<1>12. CASE AnswerGot
  BY <1>12 DEF AnswerGot, Handle
<1>13. CASE AnswerEnds
  BY <1>13 DEF AnswerEnds, Handle
<1>14. CASE AnswerReturn
  BY <1>14 DEF AnswerReturn, Returns
<1>15. CASE AnswerMismatch
  BY <1>15 DEF AnswerMismatch
<1>16. CASE Throw
  BY <1>16 DEF Throw, Handle
<1>17. CASE Leave
  BY <1>17 DEF Leave
<1>18. CASE CloseInput
  BY <1>18 DEF CloseInput, CloseIn
<1>19. CASE CloseStop
  BY <1>19 DEF CloseStop, StopThread
<1>20. CASE CloseJoin
  BY <1>20 DEF CloseJoin, Join
<1>21. CASE CloseAborts
  BY <1>21 DEF CloseAborts, AbortThread
<1>22. CASE CallWait /\ UNCHANGED <<client, clientVars, childVars>>
  BY <1>22 DEF CallWait, CallWaitsFor
<1>23. CASE GetAfterStop /\ UNCHANGED <<client, clientVars, childVars>>
  BY <1>23, Shorter DEF GetAfterStop, Acts, Ended, Delivers, HasData
<1>24. CASE Get /\ UNCHANGED <<client, clientVars, childVars>>
  BY <1>24 DEF Get, Acts, Ended, Delivers, HasData, IsDrained, HasRoom
<1>25. CASE Put(asked) /\ UNCHANGED <<client, clientVars, childVars>>
  BY <1>25 DEF Put, Acts, Ended
<1>26. CASE CallTimesOut /\ UNCHANGED <<client, clientVars, childVars>>
  BY <1>26 DEF CallTimesOut, CallWaitsFor, Ended
<1>. QED
  BY <1>1, <1>2, <1>3, <1>4, <1>5, <1>6, <1>7, <1>8, <1>9, <1>10, <1>11,
       <1>12, <1>13, <1>14, <1>15, <1>16, <1>17, <1>18, <1>19, <1>20, <1>21,
       <1>22, <1>23, <1>24, <1>25, <1>26 DEF MainActs, InCall

------------------------------------------------------------------------------
(* The way to the child: what main does to it. *)

\* Only put adds to the input; whatever else main does, all it asked for and
\* all it put stay in step.
LEMMA MainInput ==
    ASSUME IInv, MainActs
    PROVE  \/ /\ Put(asked)
              /\ UNCHANGED <<client, clientVars, childVars>>
           \/ /\ UNCHANGED <<pipe, writing, inBuffer, consumed>>
              /\ threadAt' # "stopped" => threadAt # "stopped"
              /\ \/ /\ asked' = asked
                    /\ call'.op = "put" => call.op = "put"
                    /\ AllPut' => AllPut
                 \/ asked' = asked + 1 /\ AllPut /\ ~ AllPut'
<1>. USE DEF IInv, StreamInv, Flags, ClientInv, CallType, InOrder, AllPut, Quiet, NoCall,
         Running
<1>1. CASE Launch
  BY <1>1 DEF Launch, Start
<1>2. CASE LaunchFails
  BY <1>2 DEF LaunchFails
<1>3. CASE ReadOut
  BY <1>3 DEF ReadOut, StartGet, Begin
<1>4. CASE ReadGot
  BY <1>4 DEF ReadGot, Handle
<1>5. CASE ReadEnds
  BY <1>5 DEF ReadEnds, Handle
<1>6. CASE ForwardSome
  BY <1>6 DEF ForwardSome, StartGet, Begin
<1>7. CASE ForwardGot
  BY <1>7 DEF ForwardGot, Handle
<1>8. CASE ForwardNone
  BY <1>8 DEF ForwardNone
<1>9. CASE Ask
  BY <1>9 DEF Ask, StartPut, Begin
<1>10. CASE Asked
  BY <1>10 DEF Asked, Handle
<1>11. CASE AnswerRead
  BY <1>11 DEF AnswerRead, StartGet, Begin
<1>12. CASE AnswerGot
  BY <1>12 DEF AnswerGot, Handle
<1>13. CASE AnswerEnds
  BY <1>13 DEF AnswerEnds, Handle
<1>14. CASE AnswerReturn
  BY <1>14 DEF AnswerReturn, Returns
<1>15. CASE AnswerMismatch
  BY <1>15 DEF AnswerMismatch
<1>16. CASE Throw
  BY <1>16 DEF Throw, Handle
<1>17. CASE Leave
  BY <1>17 DEF Leave
<1>18. CASE CloseInput
  BY <1>18 DEF CloseInput, CloseIn
<1>19. CASE CloseStop
  BY <1>19 DEF CloseStop, StopThread
<1>20. CASE CloseJoin
  BY <1>20 DEF CloseJoin, Join
<1>21. CASE CloseAborts
  BY <1>21 DEF CloseAborts, AbortThread
<1>22. CASE CallWait /\ UNCHANGED <<client, clientVars, childVars>>
  BY <1>22 DEF CallWait, CallWaitsFor
<1>23. CASE GetAfterStop /\ UNCHANGED <<client, clientVars, childVars>>
  BY <1>23 DEF GetAfterStop, Acts, Ended, Delivers, HasData
<1>24. CASE Get /\ UNCHANGED <<client, clientVars, childVars>>
  BY <1>24 DEF Get, Acts, Ended, Delivers, HasData, IsDrained, HasRoom
<1>25. CASE Put(asked) /\ UNCHANGED <<client, clientVars, childVars>>
  BY <1>25 DEF Put, Acts, Ended
<1>26. CASE CallTimesOut /\ UNCHANGED <<client, clientVars, childVars>>
  BY <1>26 DEF CallTimesOut, CallWaitsFor, Ended
<1>. QED
  BY <1>1, <1>2, <1>3, <1>4, <1>5, <1>6, <1>7, <1>8, <1>9, <1>10, <1>11, <1>12,
       <1>13, <1>14, <1>15, <1>16, <1>17, <1>18, <1>19, <1>20, <1>21, <1>22,
       <1>23, <1>24, <1>25, <1>26 DEF MainActs, InCall

\* Main closes the input before it tells the thread to stop.
LEMMA MainClosing ==
    ASSUME IInv, Closing, MainActs
    PROVE  Closing'
<1>. USE DEF IInv, StreamInv, Flags, NotStarted, ClientInv, CallType, InOrder, Closing,
         Kinds
<1>1. CASE Launch
  BY <1>1 DEF Launch, Start
<1>2. CASE LaunchFails
  BY <1>2 DEF LaunchFails
<1>3. CASE ReadOut
  BY <1>3 DEF ReadOut, StartGet, Begin
<1>4. CASE ReadGot
  BY <1>4 DEF ReadGot, Handle
<1>5. CASE ReadEnds
  BY <1>5 DEF ReadEnds, Handle
<1>6. CASE ForwardSome
  BY <1>6 DEF ForwardSome, StartGet, Begin
<1>7. CASE ForwardGot
  BY <1>7 DEF ForwardGot, Handle
<1>8. CASE ForwardNone
  BY <1>8 DEF ForwardNone
<1>9. CASE Ask
  BY <1>9 DEF Ask, StartPut, Begin
<1>10. CASE Asked
  BY <1>10 DEF Asked, Handle
<1>11. CASE AnswerRead
  BY <1>11 DEF AnswerRead, StartGet, Begin
<1>12. CASE AnswerGot
  BY <1>12 DEF AnswerGot, Handle
<1>13. CASE AnswerEnds
  BY <1>13 DEF AnswerEnds, Handle
<1>14. CASE AnswerReturn
  BY <1>14 DEF AnswerReturn, Returns
<1>15. CASE AnswerMismatch
  BY <1>15 DEF AnswerMismatch
<1>16. CASE Throw
  BY <1>16 DEF Throw, Handle
<1>17. CASE Leave
  BY <1>17 DEF Leave
<1>18. CASE CloseInput
  BY <1>18 DEF CloseInput, CloseIn
<1>19. CASE CloseStop
  BY <1>19 DEF CloseStop, StopThread
<1>20. CASE CloseJoin
  BY <1>20 DEF CloseJoin, Join
<1>21. CASE CloseAborts
  BY <1>21 DEF CloseAborts, AbortThread
<1>22. CASE CallWait /\ UNCHANGED <<client, clientVars, childVars>>
  BY <1>22 DEF CallWait, CallWaitsFor
<1>23. CASE GetAfterStop /\ UNCHANGED <<client, clientVars, childVars>>
  BY <1>23 DEF GetAfterStop, Acts, Ended, Delivers, HasData
<1>24. CASE Get /\ UNCHANGED <<client, clientVars, childVars>>
  BY <1>24 DEF Get, Acts, Ended, Delivers, HasData, IsDrained, HasRoom
<1>25. CASE Put(asked) /\ UNCHANGED <<client, clientVars, childVars>>
  BY <1>25 DEF Put, Acts, Ended
<1>26. CASE CallTimesOut /\ UNCHANGED <<client, clientVars, childVars>>
  BY <1>26 DEF CallTimesOut, CallWaitsFor, Ended
<1>. QED
  BY <1>1, <1>2, <1>3, <1>4, <1>5, <1>6, <1>7, <1>8, <1>9, <1>10, <1>11, <1>12,
       <1>13, <1>14, <1>15, <1>16, <1>17, <1>18, <1>19, <1>20, <1>21, <1>22,
       <1>23, <1>24, <1>25, <1>26 DEF MainActs, InCall

\* What GetText returns is whole, or the output is at its end.
LEMMA TextReturned ==
    ASSUME AnswerReturn
    PROVE  \E text \in {"whole", "cut", "garbage"} :
                Returns(text) /\ (text = "whole" \/ sawEof)
BY DEF AnswerReturn

\* One text more.
LEMMA TextAppended ==
    ASSUME NEW s, s \in Seq({"whole", "cut", "garbage"}), NEW e \in {"whole", "cut", "garbage"},
           NEW i \in DOMAIN Append(s, e)
    PROVE  Append(s, e)[i] = e \/ (i \in DOMAIN s /\ Append(s, e)[i] = s[i])
<1>1. /\ DOMAIN Append(s, e) = 1 .. Len(s) + 1
      /\ Append(s, e)[Len(s) + 1] = e
      /\ \A j \in 1 .. Len(s) : Append(s, e)[j] = s[j]
      /\ Len(s) \in Nat /\ DOMAIN s = 1 .. Len(s)
  OBVIOUS
<1>2. i = Len(s) + 1 \/ i \in 1 .. Len(s)
  BY <1>1
<1>. QED
  BY <1>1, <1>2

\* At the end of its output, while it is still asked, fetchText has crashed.
LEMMA ReturnServes ==
    ASSUME IInv, Closing, Serves, AnswerReturn
    PROVE  Serves'
<1>1. PICK text \in {"whole", "cut", "garbage"} : Returns(text) /\ (text = "whole" \/ sawEof)
  BY TextReturned
<1>2. at = "answer" /\ UNCHANGED <<threadAt, childRuns, client, crashed>>
  BY DEF AnswerReturn, streamVars, threadVars, ClientUnchanged, childVars
<1>3. texts' = Append(texts, text) /\ at' = "ready"
  BY <1>1 DEF Returns
<1>4. threadAt # "none" /\ client = "fetchText"
  BY <1>2 DEF IInv, InOrder, Closing
<1>5. sawEof => ~ childRuns
  BY DEF IInv, Ends, StreamInv, Closed, Kinds
<1>6. ~ childRuns => crashed
  BY <1>2, <1>4 DEF Serves
<1>7. TextsWholeUnlessCrash'
  <2>1. texts \in Seq({"whole", "cut", "garbage"})
    BY DEF IInv, ClientInv
  <2>2. text # "whole" => crashed
    BY <1>1, <1>5, <1>6
  <2>3. ASSUME NEW i \in DOMAIN texts', texts'[i] # "whole"
        PROVE  crashed'
    <3>1. texts'[i] = text \/ (i \in DOMAIN texts /\ texts'[i] = texts[i])
      BY <1>3, <2>1, TextAppended
    <3>. QED
      BY <1>2, <2>2, <2>3, <3>1 DEF Serves, TextsWholeUnlessCrash
  <2>. QED
    BY <2>3 DEF TextsWholeUnlessCrash
<1>. QED
  BY <1>2, <1>3, <1>4, <1>6, <1>7 DEF Serves

\* A text is cut short only at the end of the output, which is there before
\* main closes the input only if the child has crashed.
LEMMA MainServes ==
    ASSUME IInv, Closing, Serves, MainActs
    PROVE  Serves'
<1>. USE DEF IInv, StreamInv, Flags, NotStarted, ClientInv, InOrder, Closing, Serves,
         TextsWholeUnlessCrash
<1>1. CASE Launch
  BY <1>1 DEF Launch, Start
<1>2. CASE LaunchFails
  BY <1>2 DEF LaunchFails
<1>3. CASE ReadOut
  BY <1>3 DEF ReadOut, StartGet, Begin
<1>4. CASE ReadGot
  BY <1>4 DEF ReadGot, Handle
<1>5. CASE ReadEnds
  BY <1>5 DEF ReadEnds, Handle
<1>6. CASE ForwardSome
  BY <1>6 DEF ForwardSome, StartGet, Begin
<1>7. CASE ForwardGot
  BY <1>7 DEF ForwardGot, Handle
<1>8. CASE ForwardNone
  BY <1>8 DEF ForwardNone
<1>9. CASE Ask
  BY <1>9 DEF Ask, StartPut, Begin
<1>10. CASE Asked
  BY <1>10 DEF Asked, Handle
<1>11. CASE AnswerRead
  BY <1>11 DEF AnswerRead, StartGet, Begin
<1>12. CASE AnswerGot
  BY <1>12 DEF AnswerGot, Handle
<1>13. CASE AnswerEnds
  BY <1>13 DEF AnswerEnds, Handle
<1>14. CASE AnswerReturn
  BY <1>14, ReturnServes
<1>15. CASE AnswerMismatch
  BY <1>15 DEF AnswerMismatch
<1>16. CASE Throw
  BY <1>16 DEF Throw, Handle
<1>17. CASE Leave
  BY <1>17 DEF Leave
<1>18. CASE CloseInput
  BY <1>18 DEF CloseInput, CloseIn
<1>19. CASE CloseStop
  BY <1>19 DEF CloseStop, StopThread
<1>20. CASE CloseJoin
  BY <1>20 DEF CloseJoin, Join
<1>21. CASE CloseAborts
  BY <1>21 DEF CloseAborts, AbortThread
<1>22. CASE CallWait /\ UNCHANGED <<client, clientVars, childVars>>
  BY <1>22 DEF CallWait, CallWaitsFor
<1>23. CASE GetAfterStop /\ UNCHANGED <<client, clientVars, childVars>>
  BY <1>23 DEF GetAfterStop, Acts, Ended, Delivers, HasData
<1>24. CASE Get /\ UNCHANGED <<client, clientVars, childVars>>
  BY <1>24 DEF Get, Acts, Ended, Delivers, HasData, IsDrained, HasRoom
<1>25. CASE Put(asked) /\ UNCHANGED <<client, clientVars, childVars>>
  BY <1>25 DEF Put, Acts, Ended
<1>26. CASE CallTimesOut /\ UNCHANGED <<client, clientVars, childVars>>
  BY <1>26 DEF CallTimesOut, CallWaitsFor, Ended
<1>. QED
  BY <1>1, <1>2, <1>3, <1>4, <1>5, <1>6, <1>7, <1>8, <1>9, <1>10, <1>11, <1>12,
       <1>13, <1>14, <1>15, <1>16, <1>17, <1>18, <1>19, <1>20, <1>21, <1>22,
       <1>23, <1>24, <1>25, <1>26 DEF MainActs, InCall

\* A unit that is put goes to the end of all that are on their way.
LEMMA SentLonger ==
    ASSUME NEW x \in Seq(Nat), NEW b \in Seq(Nat), NEW e \in Nat
    PROVE  x \o Append(b, e) = Append(x \o b, e)
<1>1. PICK t : t = <<e>>
  OBVIOUS
<1>2. t \in Seq(Nat) /\ Append(b, e) = b \o t
  BY <1>1, AppendIsConcat
<1>3. x \o b \in Seq(Nat)
  BY ConcatProperties
<1>4. Append(x \o b, e) = (x \o b) \o t
  BY <1>1, <1>3, AppendIsConcat
<1>5. (x \o b) \o t = x \o (b \o t)
  BY <1>2, Reassociate
<1>. QED
  BY <1>2, <1>4, <1>5

\* The thread takes a unit from the buffer.
LEMMA SentTaken ==
    ASSUME NEW u \in Seq(Nat), NEW p \in Seq(Nat), NEW b \in Seq(Nat), b # <<>>
    PROVE  u \o p \o <<Head(b)>> \o Tail(b) = u \o p \o <<>> \o b
<1>1. PICK x, h, t : x = u \o p /\ h = <<Head(b)>> /\ t = Tail(b)
  OBVIOUS
<1>2. x \in Seq(Nat)
  BY <1>1, ConcatProperties
<1>3. h \in Seq(Nat) /\ t \in Seq(Nat)
  BY <1>1, Shorter
<1>4. b = h \o t
  BY <1>1, Shorter
<1>5. (x \o h) \o t = x \o (h \o t)
  BY <1>2, <1>3, Reassociate
<1>6. x \o <<>> = x
  BY <1>2, ConcatEmptySeq
<1>. QED
  BY <1>1, <1>4, <1>5, <1>6

\* The thread writes what it has taken.
LEMMA SentWritten ==
    ASSUME NEW u \in Seq(Nat), NEW p \in Seq(Nat), NEW w \in Seq(Nat)
    PROVE  u \o (p \o w) \o <<>> = u \o p \o w
<1>1. u \o (p \o w) = u \o p \o w
  BY Reassociate
<1>2. PICK x : x = u \o p \o w
  OBVIOUS
<1>3. x \in Seq(Nat)
  BY <1>2, ConcatProperties
<1>. QED
  BY <1>1, <1>2, <1>3, ConcatEmptySeq

\* In a sequence of units the first after the first c is unit c + 1.
LEMMA UnitAfter ==
    ASSUME NEW c \in Nat, NEW q \in Seq(Nat), NEW z, q # <<>>,
           \A i \in 1 .. c + Len(q) : z[i] = i,
           \A i \in 1 .. c + Len(q) : i > c => z[i] = q[i - c]
    PROVE  q[1] = c + 1
<1>1. Len(q) \in Nat \ {0}
  BY Shorter
<1>2. c + 1 \in 1 .. c + Len(q) /\ c + 1 > c /\ (c + 1) - c = 1
  BY <1>1
<1>3. z[c + 1] = c + 1 /\ z[c + 1] = q[1]
  BY <1>2
<1>. QED
  BY <1>3

\* The first of several sequences begins them.
LEMMA HeadOfMany ==
    ASSUME NEW p \in Seq(Nat), NEW s \in Seq(Nat), p # <<>>
    PROVE  p \o s \in Seq(Nat) /\ p \o s # <<>> /\ (p \o s)[1] = Head(p)
<1>1. /\ p \o s \in Seq(Nat)
      /\ Len(p \o s) = Len(p) + Len(s)
      /\ \A i \in 1 .. Len(p) + Len(s) :
            (p \o s)[i] = IF i <= Len(p) THEN p[i] ELSE s[i - Len(p)]
  BY ConcatProperties
<1>2. Len(p) \in Nat \ {0} /\ Len(s) \in Nat /\ Head(p) = p[1]
  BY Shorter
<1>3. (p \o s)[1] = p[1]
  BY <1>1, <1>2
<1>4. p \o s # <<>>
  BY <1>1, <1>2
<1>. QED
  BY <1>1, <1>2, <1>3, <1>4

\* What is on its way to the child are sequences.
LEMMA SentType ==
    ASSUME IInv, consumed \in Nat
    PROVE  /\ Units(consumed) \in Seq(Nat) /\ pipe["in"] \in Seq(Nat)
           /\ writing \in Seq(Nat) /\ inBuffer \in Seq(Nat)
<1>1. Units(consumed) \in Seq(Nat)
  BY DEF Units
<1>2. pipe["in"] \in Seq(Nat)
  BY DEF IInv, StreamInv, Data, Pipes
<1>. QED
  BY <1>1, <1>2 DEF IInv, StreamInv, Data

\* What main does keeps the input in order.
LEMMA MainConveys ==
    ASSUME IInv, InputInv, MainActs
    PROVE  Conveyed'
<1>1. CASE /\ UNCHANGED <<pipe, writing, inBuffer, consumed>>
           /\ threadAt' # "stopped" => threadAt # "stopped"
           /\ \/ asked' = asked /\ (call'.op = "put" => call.op = "put") /\ (AllPut' => AllPut)
              \/ asked' = asked + 1 /\ AllPut /\ ~ AllPut'
  <2>1. SUFFICES ASSUME threadAt' # "stopped"
                 PROVE  \E n \in 0 .. asked' : /\ Sent' = Units(n)
                                               /\ call'.op = "put" => n = asked' - 1
                                               /\ AllPut' => n = asked'
    BY DEF Conveyed
  <2>2. PICK n \in 0 .. asked : /\ Sent = Units(n)
                                /\ call.op = "put" => n = asked - 1
                                /\ AllPut => n = asked
    BY <1>1, <2>1 DEF InputInv, Conveyed
  <2>3. Sent' = Units(n)
    BY <1>1, <2>2 DEF Sent
  <2>4. asked \in Nat
    BY DEF IInv, ClientInv
  <2>. QED
    BY <1>1, <2>2, <2>3, <2>4
<1>2. CASE Put(asked) /\ UNCHANGED <<client, clientVars, childVars>>
  <2>1. SUFFICES ASSUME threadAt # "stopped"
                 PROVE  \E n \in 0 .. asked : /\ Sent' = Units(n)
                                              /\ call'.op = "put" => n = asked - 1
                                              /\ AllPut' => n = asked
    BY <1>2 DEF Conveyed, Put, MainUnchanged, threadVars, clientVars
  <2>2. /\ call.op = "put" /\ call'.op = "none" /\ UNCHANGED <<at, asked, consumed, pipe, writing>>
        /\ asked \in Nat /\ at = "ready"
        /\ \/ inBuffer' = Append(inBuffer, asked)
           \/ inBuffer' = inBuffer /\ outcome' \in {"error", "eof"}
    BY <1>2 DEF Put, Acts, Ended, NoCall, MainUnchanged, threadVars, clientVars, childVars,
                IInv, ClientInv
  <2>3. PICK n \in 0 .. asked : Sent = Units(n) /\ n = asked - 1
    BY <2>1, <2>2 DEF InputInv, Conveyed
  <2>4. CASE inBuffer' = inBuffer /\ outcome' \in {"error", "eof"}
    <3>1. Sent' = Sent /\ ~ AllPut'
      BY <2>2, <2>4 DEF Sent, AllPut
    <3>. QED
      BY <2>2, <2>3, <3>1
  <2>5. CASE inBuffer' = Append(inBuffer, asked)
    <3>1. Sent' = Append(Sent, asked)
      <4>1. PICK u, p, w, b, e : /\ u = Units(consumed) /\ p = pipe["in"] /\ w = writing
                                 /\ b = inBuffer /\ e = asked
        OBVIOUS
      <4>2. u \in Seq(Nat) /\ p \in Seq(Nat) /\ w \in Seq(Nat) /\ b \in Seq(Nat)
        BY <4>1, SentType DEF InputInv
      <4>3. e \in Nat
        BY <2>2, <4>1
      <4>4. u \o p \o w \o Append(b, e) = Append(u \o p \o w \o b, e)
        <5>1. PICK x : x = u \o p \o w
          OBVIOUS
        <5>2. x \in Seq(Nat)
          BY <4>2, <5>1, ConcatProperties
        <5>. QED
          BY <4>2, <4>3, <5>1, <5>2, SentLonger
      <4>5. Sent = u \o p \o w \o b
        BY <4>1 DEF Sent
      <4>6. Sent' = u \o p \o w \o Append(b, e)
        BY <2>2, <2>5, <4>1 DEF Sent
      <4>. QED
        BY <4>1, <4>4, <4>5, <4>6
    <3>2. Sent' = Units(asked)
      <4>1. n \in Nat /\ n + 1 = asked
        BY <2>2, <2>3
      <4>2. Append(Units(n), n + 1) = Units(n + 1)
        BY <4>1, UnitsAppend
      <4>. QED
        BY <2>3, <3>1, <4>1, <4>2
    <3>. QED
      BY <2>2, <3>2
  <2>. QED
    BY <2>2, <2>4, <2>5
<1>. QED
  BY <1>1, <1>2, MainInput

OtherActs ==
    \/ ThreadSteps
    \/ WaitTimesOut /\ UNCHANGED <<client, clientVars, childVars>>
    \/ ChildStep \/ ChildWritesErr \/ ChildCrashes

\* No step of the thread or of a child breaks the streams.
LEMMA OtherStream ==
    ASSUME IInv, OtherActs
    PROVE  StreamInv'
<1>1. CASE \/ ThreadSteps
           \/ WaitTimesOut /\ UNCHANGED <<client, clientVars, childVars>>
  BY <1>1, TakeStream, WriteStream, ReadStream, TurnStream DEF ThreadSteps, ThreadStep
<1>2. CASE ChildStep \/ ChildWritesErr \/ ChildCrashes
  BY <1>2, ChildWritesStream, ChildReadsStream, ChildEndsStream
  DEF ChildStep, ChildWritesOut, ChildWritesErr
<1>. QED
  BY <1>1, <1>2 DEF OtherActs

\* The thread and the children take nothing back that a call may have seen.
LEMMA OthersTakeNothingBack ==
    ASSUME IInv, OtherActs
    PROVE  /\ UNCHANGED <<call, outcome, clientVars>>
           /\ response \subseteq response'
           /\ "child" \in control' => "child" \in control
           /\ threadAt' = "none" => threadAt = "none"
           /\ \A k \in Kinds : /\ buffer[k] # <<>> => buffer'[k] # <<>>
                               /\ eof[k] => eof'[k] /\ buffer'[k] = buffer[k]
<1>1. CASE \E k \in Kinds : Read(k) /\ UNCHANGED <<client, clientVars, childVars>>
  <2>1. PICK k \in Kinds : Read(k) /\ UNCHANGED <<client, clientVars, childVars>>
    BY <1>1
  <2>2. /\ UNCHANGED <<call, outcome, clientVars, threadAt>>
        /\ response \subseteq response'
        /\ "child" \in control' => "child" \in control
    BY <2>1 DEF Read, EofBits
  <2>3. /\ buffer \in [Kinds -> Seq(Nat)] /\ pipe[k] \in Seq(Nat) /\ eof \in [Kinds -> BOOLEAN]
        /\ eof[k] => pipe[k] = <<>>
    BY DEF IInv, StreamInv, Data, Flags, Closed
  <2>4. CASE pipe[k] = <<>>
    BY <2>1, <2>2, <2>3, <2>4 DEF Read
  <2>5. CASE pipe[k] # <<>>
    <3>1. /\ buffer' = [buffer EXCEPT ![k] = Append(buffer[k], Head(pipe[k]))]
          /\ UNCHANGED eof
      BY <2>1, <2>5 DEF Read
    <3>2. Append(buffer[k], Head(pipe[k])) # <<>>
      BY <2>3, <2>5, Shorter, Longer
    <3>. QED
      BY <2>2, <2>3, <2>5, <3>1, <3>2
  <2>. QED
    BY <2>4, <2>5
<1>2. CASE /\ Wait \/ WaitTimesOut \/ Take \/ Select \/ Write \/ EndTurn \/ Stop
           /\ UNCHANGED <<client, clientVars, childVars>>
  <2>1. UNCHANGED <<call, outcome, clientVars, buffer>>
    BY <1>2 DEF Wait, WaitTimesOut, Take, Select, Write, EndTurn, Stop
  <2>2. eof' = eof
    BY <1>2 DEF Wait, WaitTimesOut, Take, Select, Write, EndTurn, Stop
  <2>3. threadAt' # "none"
    BY <1>2 DEF Wait, WaitTimesOut, Take, Select, Write, EndTurn, Stop
  <2>4. response \subseteq response' /\ ("child" \in control' => "child" \in control)
    BY <1>2 DEF Wait, WaitTimesOut, Take, Select, Write, EndTurn, Stop
  <2>. QED
    BY <2>1, <2>2, <2>3, <2>4
<1>3. CASE ChildStep \/ ChildWritesErr \/ ChildCrashes
  BY <1>3 DEF ChildStep, ChildWritesOut, ChildWritesErr, ChildWrites, ChildReads, ChildEnds,
              ChildCrashes
<1>. QED
  BY <1>1, <1>2, <1>3 DEF OtherActs, ThreadSteps, ThreadStep

\* Only main changes the variables of main.
LEMMA OtherClient ==
    ASSUME IInv, OtherActs
    PROVE  ClientInv' /\ InOrder' /\ Seen' /\ Ends'
<1>1. ClientInv'
  BY OthersTakeNothingBack, ClientFrame DEF IInv
<1>2. InOrder'
  BY OthersTakeNothingBack DEF IInv, InOrder
<1>3. Seen'
  <2>1. call' = call /\ response \subseteq response'
    BY OthersTakeNothingBack
  <2>2. \A k \in Kinds : buffer[k] # <<>> => buffer'[k] # <<>>
    BY OthersTakeNothingBack
  <2>3. call.op = "get" => call.kind \in Kinds
    BY DEF IInv, ClientInv
  <2>. QED
    BY <2>1, <2>2, <2>3 DEF IInv, Seen
<1>4. Ends'
  BY OthersTakeNothingBack DEF IInv, Ends, NeverEmptyHanded
<1>. QED
  BY <1>1, <1>2, <1>3, <1>4

------------------------------------------------------------------------------
(* The way to the child: what the thread and the children do to it. *)

\* What the thread takes for the end of the input is the end.
LEMMA OtherClosing ==
    ASSUME IInv, Closing, OtherActs
    PROVE  Closing'
<1>. USE DEF Closing
<1>1. /\ UNCHANGED <<client, clientVars, parentEnds>>
      /\ "in_eof" \in control' <=> "in_eof" \in control
      /\ "child" \in control' <=> "child" \in control
  BY DEF OtherActs, ThreadSteps, ThreadStep, Wait, WaitTimesOut, Take, Select, Write, EndTurn,
         Stop, Read, ThreadUnchanged, parentVars, ChildStep, ChildWritesOut, ChildWritesErr,
         ChildWrites, ChildReads, ChildEnds, ChildCrashes, ChildUnchanged, clientVars, Kinds
<1>2. CASE Wait \/ WaitTimesOut
  BY <1>1, <1>2 DEF Wait, WaitTimesOut, clientVars
<1>3. CASE Take
  <2>1. /\ threadAt = "take" /\ UNCHANGED <<seen, error>>
        /\ inEof' => inEof \/ (inBuffer' = <<>> /\ "in_eof" \in seen)
        /\ inBuffer = <<>> => inBuffer' = <<>>
        /\ threadAt' = "stopping" => "child" \in seen /\ writing' = <<>>
        /\ threadAt' # "stopped"
    BY <1>3 DEF Take, StopsNow
  <2>2. writing' = <<>> /\ "in_eof" \in seen => inBuffer' = <<>>
    BY <1>3 DEF Take
  <2>. QED
    BY <1>1, <2>1, <2>2 DEF clientVars
<1>4. CASE Select \/ Write
  BY <1>1, <1>4 DEF Select, Write, clientVars
<1>5. CASE EndTurn \/ Stop
  BY <1>1, <1>5 DEF EndTurn, Stop, AllDone, InClosed, clientVars
<1>6. ASSUME NEW k \in Kinds, Read(k)
      PROVE  Closing'
  BY <1>1, <1>6 DEF Read, clientVars
<1>7. CASE ChildStep \/ ChildWritesErr \/ ChildCrashes
  <2>1. UNCHANGED <<threadVars, inBuffer, error, control>>
    BY <1>7 DEF ChildStep, ChildWritesOut, ChildWritesErr, ChildWrites, ChildReads, ChildEnds,
                ChildCrashes, ChildUnchanged
  <2>. QED
    BY <1>1, <2>1 DEF clientVars, threadVars
<1>. QED
  BY <1>2, <1>3, <1>4, <1>5, <1>6, <1>7 DEF OtherActs, ThreadSteps, ThreadStep

\* fetchText ends only at the end of its input, or by a crash.
LEMMA OtherServes ==
    ASSUME IInv, Closing, Serves, OtherActs
    PROVE  Serves'
<1>1. /\ UNCHANGED <<client, at, texts>>
      /\ threadAt = "none" => threadAt' = "none"
  BY DEF OtherActs, ThreadSteps, ThreadStep, Wait, WaitTimesOut, Take, Select, Write, EndTurn,
         Stop, Read, ChildStep, ChildWritesOut, ChildWritesErr, clientVars,
         ChildWrites, ChildReads, ChildEnds, ChildCrashes, ChildUnchanged, threadVars
<1>2. \/ UNCHANGED <<childRuns, crashed>>
      \/ crashed' = TRUE
      \/ ChildEnds
  BY DEF OtherActs, ThreadSteps, ThreadStep, Wait, WaitTimesOut, Take, Select, Write, EndTurn,
         Stop, Read, ThreadUnchanged, childVars, ChildStep, ChildWritesOut, ChildWritesErr,
         ChildWrites, ChildReads, ChildCrashes
<1>3. CASE UNCHANGED <<childRuns, crashed>> \/ crashed' = TRUE
  BY <1>1, <1>3 DEF Serves, TextsWholeUnlessCrash
<1>4. CASE ChildEnds
  <2>1. client = "fetchText" => InClosed \/ "in" \notin parentEnds
    BY <1>4 DEF ChildEnds
  <2>2. crashed' = crashed
    BY <1>4 DEF ChildEnds
  <2>3. client = "fetchText" /\ InClosed => at \in {"stopping", "joining", "done"}
    BY DEF Closing, InClosed
  <2>4. threadAt # "none" /\ "in" \notin parentEnds => at = "done"
    BY DEF Closing, Pipes
  <2>. QED
    BY <1>1, <2>1, <2>2, <2>3, <2>4 DEF Serves, TextsWholeUnlessCrash
<1>. QED
  BY <1>2, <1>3, <1>4

\* The thread and the children move what was put, and keep it in order.
LEMMA OtherConveys ==
    ASSUME IInv, InputInv, OtherActs
    PROVE  Conveyed' /\ consumed' \in Nat
<1>1. UNCHANGED <<call, outcome, clientVars>>
  BY OthersTakeNothingBack
<1>2. AllPut' <=> AllPut
  BY <1>1 DEF AllPut, clientVars
<1>3. ASSUME threadAt' # "stopped" => threadAt # "stopped" /\ Sent' = Sent
      PROVE  Conveyed'
  BY <1>1, <1>2, <1>3 DEF InputInv, Conveyed, clientVars
<1>4. PICK u, p, w, b : u = Units(consumed) /\ p = pipe["in"] /\ w = writing /\ b = inBuffer
  OBVIOUS
<1>5. u \in Seq(Nat) /\ p \in Seq(Nat) /\ w \in Seq(Nat) /\ b \in Seq(Nat) /\ consumed \in Nat
  BY <1>4, SentType DEF InputInv
<1>6. Sent = u \o p \o w \o b
  BY <1>4 DEF Sent
<1>7. CASE /\ Wait \/ WaitTimesOut \/ Select \/ EndTurn \/ Stop
           /\ UNCHANGED <<client, clientVars, childVars>>
  <2>1. /\ UNCHANGED <<pipe, inBuffer, consumed>>
        /\ threadAt' # "stopped" => threadAt # "stopped" /\ UNCHANGED writing
    BY <1>7 DEF Wait, WaitTimesOut, Select, EndTurn, Stop, childVars
  <2>. QED
    BY <1>3, <1>5, <2>1 DEF Sent
<1>8. CASE Take /\ UNCHANGED <<client, clientVars, childVars>>
  <2>1. /\ UNCHANGED <<pipe, consumed>> /\ threadAt = "take"
        /\ \/ UNCHANGED <<inBuffer, writing>>
           \/ /\ inBuffer # <<>> /\ writing = <<>>
              /\ writing' = <<Head(inBuffer)>> /\ inBuffer' = Tail(inBuffer)
    BY <1>8 DEF Take, childVars
  <2>2. CASE UNCHANGED <<inBuffer, writing>>
    BY <1>3, <1>5, <2>1, <2>2 DEF Sent
  <2>3. CASE /\ inBuffer # <<>> /\ writing = <<>>
             /\ writing' = <<Head(inBuffer)>> /\ inBuffer' = Tail(inBuffer)
    <3>1. Sent' = u \o p \o <<Head(b)>> \o Tail(b)
      BY <1>4, <2>1, <2>3 DEF Sent
    <3>2. Sent = u \o p \o <<>> \o b
      BY <1>4, <2>3 DEF Sent
    <3>3. b # <<>>
      BY <1>4, <2>3
    <3>4. u \o p \o <<Head(b)>> \o Tail(b) = u \o p \o <<>> \o b
      BY <1>5, <3>3, SentTaken
    <3>5. Sent' = Sent
      BY <3>1, <3>2, <3>4
    <3>. QED
      BY <1>3, <1>5, <2>1, <3>5
  <2>. QED
    BY <2>1, <2>2, <2>3
<1>9. CASE Write /\ UNCHANGED <<client, clientVars, childVars>>
  <2>1. /\ UNCHANGED <<inBuffer, consumed>> /\ threadAt = "transfer"
        /\ \/ UNCHANGED <<pipe, writing>>
           \/ pipe' = [pipe EXCEPT !["in"] = pipe["in"] \o writing] /\ writing' = <<>>
    BY <1>9 DEF Write, childVars
  <2>2. CASE UNCHANGED <<pipe, writing>>
    BY <1>3, <1>5, <2>1, <2>2 DEF Sent
  <2>3. CASE pipe' = [pipe EXCEPT !["in"] = pipe["in"] \o writing] /\ writing' = <<>>
    <3>1. pipe'["in"] = p \o w
      BY <1>4, <2>3 DEF IInv, StreamInv, Data, Pipes
    <3>2. Sent' = u \o (p \o w) \o <<>> \o b
      BY <1>4, <2>1, <2>3, <3>1 DEF Sent
    <3>3. Sent' = Sent
      BY <1>5, <1>6, <3>2, SentWritten
    <3>. QED
      BY <1>3, <1>5, <2>1, <3>3
  <2>. QED
    BY <2>1, <2>2, <2>3
<1>10. ASSUME NEW k \in Kinds, Read(k), UNCHANGED <<client, clientVars, childVars>>
       PROVE  Conveyed' /\ consumed' \in Nat
  <2>1. /\ UNCHANGED <<inBuffer, consumed, writing, threadAt>>
        /\ pipe' = pipe \/ pipe' = [pipe EXCEPT ![k] = Tail(pipe[k])]
    BY <1>10 DEF Read, childVars
  <2>2. pipe'["in"] = pipe["in"]
    BY <2>1 DEF Kinds, IInv, StreamInv, Data, Pipes
  <2>. QED
    BY <1>3, <1>5, <2>1, <2>2 DEF Sent
<1>11. CASE ChildReads
  <2>1. /\ UNCHANGED <<inBuffer, writing, threadAt>> /\ pipe["in"] # <<>>
        /\ consumed' = consumed + 1
        /\ pipe' = [pipe EXCEPT !["in"] = Tail(pipe["in"])]
    BY <1>11 DEF ChildReads, ChildUnchanged, threadVars
  <2>2. pipe'["in"] = Tail(p)
    BY <1>4, <2>1 DEF IInv, StreamInv, Data, Pipes
  <2>3. consumed + 1 \in Nat
    BY <1>5
  <2>4. ASSUME threadAt # "stopped"
        PROVE  Sent' = Sent
    <3>1. PICK n \in 0 .. asked : Sent = Units(n)
      BY <2>4 DEF InputInv, Conveyed
    <3>2. n \in Nat /\ Units(consumed) \o p \o w \o b = Units(n)
      BY <1>4, <1>6, <3>1 DEF IInv, ClientInv
    <3>3. Units(consumed + 1) \o Tail(p) \o w \o b = Units(n)
      <4>1. PICK c, s, x : c = consumed /\ s = w \o b /\ x = u \o p
        OBVIOUS
      <4>2. c \in Nat /\ p # <<>> /\ u = Units(c)
        BY <1>4, <1>5, <2>1, <4>1
      <4>3. s \in Seq(Nat) /\ x \in Seq(Nat)
        BY <1>5, <4>1, ConcatProperties
      <4>4. x \o s = x \o w \o b
        <5>1. x \in Seq(Nat) /\ w \in Seq(Nat) /\ b \in Seq(Nat)
          BY <1>5, <4>3
        <5>2. (x \o w) \o b = x \o (w \o b)
          BY <5>1, Reassociate
        <5>. QED
          BY <4>1, <5>2
      <4>5. x \o s = u \o (p \o s)
        <5>1. u \in Seq(Nat) /\ p \in Seq(Nat) /\ s \in Seq(Nat)
          BY <1>5, <4>3
        <5>2. (u \o p) \o s = u \o (p \o s)
          BY <5>1, Reassociate
        <5>. QED
          BY <4>1, <5>2
      <4>6. PICK q : q = p \o s
        OBVIOUS
      <4>7. q \in Seq(Nat) /\ q # <<>> /\ q[1] = Head(p)
        BY <1>5, <4>2, <4>3, <4>6, HeadOfMany
      <4>8. Units(c) \o q = Units(n)
        BY <1>4, <3>2, <4>1, <4>2, <4>4, <4>5, <4>6
      <4>9. Head(p) = c + 1
        <5>1. PICK z : z = Units(n)
          OBVIOUS
        <5>2. Len(u) = c /\ Len(z) = n /\ \A i \in 1 .. n : z[i] = i
          BY <3>2, <4>2, <5>1 DEF Units
        <5>3. u \in Seq(Nat) /\ q \in Seq(Nat)
          BY <1>5, <4>7
        <5>4. /\ Len(u \o q) = Len(u) + Len(q)
              /\ \A i \in 1 .. Len(u) + Len(q) :
                    (u \o q)[i] = IF i <= Len(u) THEN u[i] ELSE q[i - Len(u)]
          BY <5>3, ConcatProperties
        <5>5. z = u \o q
          BY <4>2, <4>8, <5>1
        <5>6. n = c + Len(q) /\ \A i \in 1 .. n : z[i] = IF i <= c THEN u[i] ELSE q[i - c]
          BY <5>2, <5>4, <5>5
        <5>7. \A i \in 1 .. c + Len(q) : z[i] = i
          BY <5>2, <5>6
        <5>8. \A i \in 1 .. c + Len(q) : i > c => z[i] = q[i - c]
          BY <4>2, <5>6
        <5>9. q[1] = c + 1
          BY <4>2, <4>7, <5>7, <5>8, UnitAfter
        <5>. QED
          BY <4>7, <5>9
      <4>10. Append(u, Head(p)) \o Tail(p) \o w = u \o p \o w
        BY <1>5, <4>2, HandedOver
      <4>11. Units(c + 1) = Append(u, Head(p))
        BY <4>2, <4>9, UnitsAppend
      <4>. QED
        BY <1>4, <3>2, <4>1, <4>10, <4>11
    <3>4. Sent' = Units(consumed + 1) \o Tail(p) \o w \o b
      BY <1>4, <2>1, <2>2 DEF Sent
    <3>. QED
      BY <3>1, <3>3, <3>4
  <2>. QED
    BY <1>3, <2>1, <2>3, <2>4
<1>12. CASE ChildWritesOut \/ ChildWritesErr \/ ChildEnds \/ ChildCrashes
  <2>1. UNCHANGED <<inBuffer, writing, threadAt, consumed>>
    BY <1>12 DEF ChildWritesOut, ChildWritesErr, ChildWrites, ChildEnds, ChildCrashes,
                 ChildUnchanged, threadVars
  <2>2. pipe'["in"] = pipe["in"]
    <3>1. \/ pipe' = pipe
          \/ \E k \in Kinds : pipe' = [pipe EXCEPT ![k] = Append(pipe[k], written[k] + 1)]
      BY <1>12 DEF ChildWritesOut, ChildWritesErr, ChildWrites, ChildEnds, ChildCrashes, Kinds
    <3>. QED
      BY <3>1 DEF Kinds, IInv, StreamInv, Data, Pipes
  <2>. QED
    BY <1>3, <1>5, <2>1, <2>2 DEF Sent
<1>. QED
  BY <1>7, <1>8, <1>9, <1>10, <1>11, <1>12
  DEF OtherActs, ThreadSteps, ThreadStep, ChildStep

------------------------------------------------------------------------------
(* The theorems. *)

\* The invariant holds before main has done anything.
LEMMA Initially == Init => IInv
<1>. SUFFICES ASSUME Init PROVE IInv
  OBVIOUS
<1>1. <<>> \in Seq(Nat) /\ Len(<<>>) = 0 /\ <<>> \in Seq({"whole", "cut", "garbage"})
  BY EmptySeq
<1>2. Data
  BY <1>1 DEF Init, StreamInit, Data
<1>3. Flags /\ NotStarted /\ Closed
  BY DEF Init, StreamInit, Flags, NotStarted, Closed
<1>4. Room
  <2>1. /\ writing = <<>> /\ threadAt = "none" /\ seen = {} /\ wants = {}
        /\ \A p \in Pipes : pipe[p] = <<>>
        /\ \A k \in Kinds : limit[k] = 0
    BY DEF Init, StreamInit
  <2>. QED
    BY <1>1, <2>1 DEF Room
<1>5. BitsFollowBuffers
  BY DEF Init, StreamInit, BitsFollowBuffers, Running
<1>6. Arrives
  <2>1. Units(0) = <<>>
    BY DEF Units
  <2>2. <<>> \o <<>> \o <<>> = <<>>
    BY <1>1, ConcatEmptySeq
  <2>. QED
    BY <2>1, <2>2 DEF Init, StreamInit, Arrives
<1>7. ClientInv
  <2>1. call \in CallType
    BY DEF Init, StreamInit, CallType
  <2>2. /\ call.op = "none" /\ outcome = "none" /\ at = "new" /\ sawEof = FALSE
        /\ asked = 0 /\ texts = <<>>
    BY DEF Init, StreamInit
  <2>3. asked \in 0 .. Requests
    BY <2>2
  <2>4. texts \in Seq({"whole", "cut", "garbage"}) /\ Len(texts) = 0
    BY <1>1, <2>2
  <2>5. sawEof \in BOOLEAN
    BY <2>2
  <2>. QED
    BY <2>1, <2>2, <2>3, <2>4, <2>5 DEF ClientInv
<1>8. InOrder /\ Seen /\ Ends
  BY DEF Init, StreamInit, InOrder, Seen, Ends, NeverEmptyHanded
<1>. QED
  BY <1>2, <1>3, <1>5, <1>6, <1>7, <1>8, <1>4 DEF IInv, StreamInv

\* Every step, of main or of anyone else, keeps the invariant.
LEMMA NextKeeps == IInv /\ [Next]_vars => IInv'
<1>. SUFFICES ASSUME IInv, [Next]_vars PROVE IInv'
  OBVIOUS
<1>1. CASE MainActs
  BY <1>1, MainStream, MainClient, MainInOrder, MainSeen, MainEnds DEF IInv
<1>2. CASE OtherActs
  BY <1>2, OtherStream, OtherClient DEF IInv
<1>3. CASE UNCHANGED vars
  <2>1. StreamInv'
    BY <1>3, StreamFrame DEF IInv, vars
  <2>2. ClientInv' /\ InOrder' /\ Seen' /\ Ends'
    BY <1>3, ClientFrame DEF IInv, vars, InOrder, Seen, Ends, NeverEmptyHanded
  <2>. QED
    BY <2>1, <2>2 DEF IInv
<1>4. Next => MainActs \/ OtherActs
  BY DEF Next, MainStep, MainActs, OtherActs
<1>. QED
  BY <1>1, <1>2, <1>3, <1>4

\* The three parts of the invariant hold together, at every step of main, of
\* the thread and of the children.
THEOREM Invariance == Spec => []IInv
BY Initially, NextKeeps, PTL DEF Spec

\* The bits that the threads wait for say what the buffers hold: neither can
\* sleep through work.
THEOREM BitsAreRight == Spec => []BitsFollowBuffers
<1>1. IInv => BitsFollowBuffers
  BY DEF IInv, StreamInv
<1>. QED
  BY <1>1, Invariance, PTL

\* What a child writes arrives, each unit once and in order, and who has seen
\* the end has everything.
THEOREM NothingIsLost == Spec => []OutputArrives
<1>1. IInv => OutputArrives
  <2>. SUFFICES ASSUME IInv PROVE OutputArrives
    OBVIOUS
  <2>1. \A k \in Kinds : received[k] \o buffer[k] \o pipe[k] = Units(written[k])
    BY DEF IInv, StreamInv, Arrives
  <2>2. ASSUME sawEof
        PROVE  received["out"] = Units(written["out"]) /\ ~ childRuns
    <3>1. buffer["out"] = <<>> /\ pipe["out"] = <<>> /\ ~ childRuns
      BY <2>2 DEF IInv, StreamInv, Ends, Closed
    <3>2. received["out"] \in Seq(Nat)
      BY DEF IInv, StreamInv, Data
    <3>3. received["out"] \o <<>> \o <<>> = received["out"]
      BY <3>2, ConcatEmptySeq
    <3>. QED
      BY <2>1, <3>1, <3>3
  <2>. QED
    BY <2>1, <2>2 DEF OutputArrives
<1>. QED
  BY <1>1, Invariance, PTL

\* No get returns without bytes unless the stream is at its end, which
\* underflow relies upon.
THEOREM GetsAreAnswered == Spec => []NeverEmptyHanded
<1>1. IInv => NeverEmptyHanded
  BY DEF IInv, Ends
<1>. QED
  BY <1>1, Invariance, PTL

\* Every variable keeps its type; no buffer grows over its limit and no pipe
\* over its size.
THEOREM TypeCorrect == Spec => []TypeOK
<1>1. IInv => TypeOK
  BY DEF IInv, StreamInv, Data, Flags, Room, ClientInv, TypeOK
<1>. QED
  BY <1>1, Invariance, PTL

\* The way to the child, before anything is on it.
LEMMA InputInitially == Init => InputInv
<1>. SUFFICES ASSUME Init PROVE InputInv
  OBVIOUS
<1>1. Closing /\ Serves
  BY DEF Init, StreamInit, Closing, Serves, TextsWholeUnlessCrash
<1>2. Sent = Units(0)
  <2>1. pipe["in"] = <<>>
    BY DEF Init, StreamInit, Pipes
  <2>2. Units(0) = <<>> /\ <<>> \o <<>> \o <<>> \o <<>> = <<>>
    BY EmptySeq, ConcatEmptySeq DEF Units
  <2>. QED
    BY <2>1, <2>2 DEF Init, StreamInit, Sent
<1>3. Conveyed
  BY <1>2 DEF Init, StreamInit, Conveyed, NoCall
<1>. QED
  BY <1>1, <1>3 DEF InputInv, Init

\* Every step keeps the way to the child as it should be.
LEMMA NextKeepsInput == IInv /\ InputInv /\ [Next]_vars => InputInv'
<1>. SUFFICES ASSUME IInv, InputInv, [Next]_vars PROVE InputInv'
  OBVIOUS
<1>1. CASE MainActs
  <2>1. Closing' /\ Serves' /\ Conveyed'
    BY <1>1, MainClosing, MainServes, MainConveys DEF InputInv
  <2>2. consumed' = consumed
    BY <1>1, MainInput DEF childVars
  <2>. QED
    BY <2>1, <2>2 DEF InputInv
<1>2. CASE OtherActs
  BY <1>2, OtherClosing, OtherServes, OtherConveys DEF InputInv
<1>3. CASE UNCHANGED vars
  <2>1. Closing' /\ Serves' /\ consumed' \in Nat
    BY <1>3 DEF InputInv, Closing, Serves, TextsWholeUnlessCrash, vars, streamVars, parentVars,
                threadVars, mainVars, clientVars, childVars
  <2>2. UNCHANGED <<pipe, writing, inBuffer, consumed, threadAt, asked, call, outcome, at>>
    BY <1>3 DEF vars, streamVars, threadVars, mainVars, clientVars, childVars
  <2>3. Conveyed'
    BY <2>2 DEF InputInv, Conveyed, Sent, AllPut
  <2>. QED
    BY <2>1, <2>3 DEF InputInv
<1>4. Next => MainActs \/ OtherActs
  BY DEF Next, MainStep, MainActs, OtherActs
<1>. QED
  BY <1>1, <1>2, <1>3, <1>4

\* The way to the child, with what IInv says of the streams and the client:
\* what was put is on its way in order, the input is closed before the thread
\* is told to stop, and the script ends before that only by a crash.
THEOREM InputInvariance == Spec => []InputInv
BY Initially, NextKeeps, InputInitially, NextKeepsInput, PTL DEF Spec

\* What main puts reaches the child in order, and a thread that stops without
\* an error has written all of it, as the reference of close promises.
THEOREM InputIsWritten == Spec => []InputArrives
<1>1. IInv /\ InputInv => InputArrives
  <2>. SUFFICES ASSUME IInv, InputInv PROVE InputArrives
    OBVIOUS
  <2>1. [i \in 1 .. consumed |-> i] \o pipe["in"] \o writing \o inBuffer = Sent
    BY DEF Sent, Units
  <2>. QED
    BY <2>1 DEF InputArrives, InputInv, Conveyed, Closing
<1>. QED
  BY <1>1, Invariance, InputInvariance, PTL

\* GetText returns something else than the text asked for only if the script
\* has crashed: the end of the output never comes before main has asked.
THEOREM TextsAreWhole == Spec => []TextsWholeUnlessCrash
<1>1. InputInv => TextsWholeUnlessCrash
  BY DEF InputInv, Serves
<1>. QED
  BY <1>1, InputInvariance, PTL
==============================================================================
