--------------------------- MODULE EventLoopProofs ---------------------------
(***************************************************************************)
(* EventLoop for any number of clients and connections, commands and       *)
(* pieces: each command is executed once and answered to its sender, no    *)
(* answered ADD is lost but by an end in or after a save that went wrong,  *)
(* and no waiting client is hung up on.                                    *)
(*                                                                         *)
(* What these properties rest on is never said by the code: which          *)
(* connection a buffer belongs to, and how much of its client's line has   *)
(* got how far.  Slots says it.                                            *)
(***************************************************************************)
EXTENDS EventLoop, SequenceTheorems, TLAPS

(* s is what client c wrote after the first m pieces, up to the n-th.      *)
Part(s, c, m, n) ==
  /\ Len(s) = n - m
  /\ \A j \in 1 .. Len(s) : s[j] = [from |-> c, n |-> m + j]

Sent(c) == Pieces[c] - unsent[c]

(* A client has one connection.                                            *)
Distinct ==
  /\ \A j, k \in DOMAIN fds : fds[j] = fds[k] => j = k
  /\ \A j, k \in DOMAIN backlog : backlog[j] = backlog[k] => j = k
  /\ \A j \in DOMAIN fds, k \in DOMAIN backlog : fds[j] # backlog[k]

(* Of a connection not yet accepted, nothing was read.                     *)
Queued ==
  \A k \in DOMAIN backlog :
    runs[backlog[k]] = 0 /\ Part(stream[backlog[k]], backlog[k], 0, Sent(backlog[k]))

(* The line of c has left its buffer, which is b.                          *)
Taken(c, b) ==
  /\ runs[c] = 1 \/ (pc = "command" /\ asker = c)
  /\ b = <<>> /\ stream[c] = <<>> /\ unsent[c] = 0

(* The beginning of c's line is in b, the rest of what c wrote in the      *)
(* socket.                                                                 *)
Arriving(c, b) ==
  /\ runs[c] = 0 /\ ~(pc = "command" /\ asker = c)
  /\ Part(b, c, 0, Len(b))
  /\ Part(stream[c], c, Len(b), Sent(c))

Slots == \A k \in DOMAIN fds : Taken(fds[k], bufs[k]) \/ Arriving(fds[k], bufs[k])

(* What the loop does is about a connection it has, and a whole line.      *)
AtWork ==
  /\ pc \in {"lines", "command", "sync", "write"} => asker \in Range(fds)
  /\ pc = "command" => line = Line(asker) /\ runs[asker] = 0
  /\ pc \in {"sync", "write"} => line = Line(asker) /\ runs[asker] = 1
  /\ pc = "accept" => Server \in ready
  /\ Server \in ready => pc \in {"timers", "accept"} /\ backlog # <<>>

(* What select reported ready stays so until it is served.                 *)
StaysReady == \A c \in ready \ {Server} : stream[c] # <<>> \/ Closed(c)

(* A CLI is answered after its command, and reads what it is answered.     *)
Answering ==
  \A c \in Clients :
    /\ answers[c] # <<>> => ~Closed(c) /\ runs[c] = 1
    /\ cli[c] = "answered" => runs[c] = 1
    /\ runs[c] \in {0, 1}
    /\ runs[c] = 1 => unsent[c] = 0

(* An executed ADD is in the list of a running daemon, and in the file if  *)
(* the last save went well, as it did when there is no daemon: an end of   *)
(* another kind counts what it had as forfeit.                             *)
Kept ==
  /\ \A c \in Clients :
       runs[c] = 1 /\ Command[c] = "ADD" /\ c \notin forfeit =>
         /\ pc # "down" => c \in list
         /\ ~unsaved => c \in file
  /\ pc = "down" => ~unsaved

Traffic == Distinct /\ Queued /\ Slots /\ AtWork /\ StaysReady

LoopInv == TypeOK /\ Traffic /\ Answering /\ AnswersGoToAsker /\ Kept

-----------------------------------------------------------------------------
(* Pieces of lines.                                                        *)

LEMMA PartAppend ==
  ASSUME NEW s \in Seq(Piece), NEW c \in Clients, NEW m \in Nat, NEW n \in Int, Part(s, c, m, n)
  PROVE  Part(Append(s, [from |-> c, n |-> n + 1]), c, m, n + 1)
BY DEF Part

LEMMA PartSplit ==
  ASSUME NEW s \in Seq(Piece), NEW c \in Clients, NEW m \in Nat, NEW n \in Int, Part(s, c, m, n),
         NEW i \in 1 .. Len(s)
  PROVE  /\ Part(SubSeq(s, 1, i), c, m, m + i)
         /\ Part(SubSeq(s, i + 1, Len(s)), c, m + i, n)
BY DEF Part

LEMMA PartConcat ==
  ASSUME NEW s \in Seq(Piece), NEW t \in Seq(Piece), NEW c \in Clients,
         NEW l \in Nat, NEW m \in Nat, NEW n \in Int, Part(s, c, l, m), Part(t, c, m, n)
  PROVE  Part(s \o t, c, l, n)
<1>1. /\ Len(s \o t) = Len(s) + Len(t)
      /\ \A j \in 1 .. Len(s) + Len(t) :
           (s \o t)[j] = IF j <= Len(s) THEN s[j] ELSE t[j - Len(s)]
  BY ConcatProperties
<1>2. Len(s) = m - l /\ Len(t) = n - m /\ Len(s) \in Nat /\ Len(t) \in Nat
  BY DEF Part
<1>3. ASSUME NEW j \in 1 .. Len(s) + Len(t)
      PROVE  (s \o t)[j] = [from |-> c, n |-> l + j]
  <2>1. CASE j <= Len(s)
    BY <1>1, <1>2, <2>1 DEF Part
  <2>2. CASE j > Len(s)
    <3>1. j - Len(s) \in 1 .. Len(t) /\ m + (j - Len(s)) = l + j
      BY <1>2, <2>2
    <3> QED BY <1>1, <2>2, <3>1 DEF Part
  <2> QED BY <1>2, <2>1, <2>2
<1> QED BY <1>1, <1>2, <1>3 DEF Part

(* A buffer that has a newline holds one whole line and nothing else.      *)
LEMMA WholeLine ==
  ASSUME NEW b \in Seq(Piece), NEW c \in Clients, NEW n \in Nat, n <= Pieces[c],
         Part(b, c, 0, n), Complete(b)
  PROVE  /\ n = Pieces[c]
         /\ SubSeq(b, 1, LineEnd(b)) = Line(c)
         /\ RestAfter(b) = <<>>
<1>1. \A k \in DOMAIN b : Newline(b[k]) <=> k = Pieces[c]
  BY PiecesAssumption DEF Part, Newline
<1>2. n = Pieces[c] /\ Pieces[c] \in DOMAIN b /\ Len(b) = n
  BY <1>1, PiecesAssumption DEF Part, Complete
<1>3. LineEnd(b) = Pieces[c]
  BY <1>1, <1>2, PiecesAssumption DEF LineEnd
<1>4. SubSeq(b, 1, LineEnd(b)) = Line(c)
  BY <1>2, <1>3, PiecesAssumption DEF Part, Line
<1>5. RestAfter(b) = <<>>
  BY <1>2, <1>3, PiecesAssumption DEF RestAfter
<1> QED BY <1>2, <1>4, <1>5

LEMMA LineAnswered ==
  ASSUME NEW c \in Clients
  PROVE  AnswerTo(Line(c)) = c /\ Line(c) \in Seq(Piece)
<1>1. /\ Line(c) \in Seq(Piece)
      /\ Len(Line(c)) = Pieces[c]
      /\ Line(c)[1] = [from |-> c, n |-> 1]
  <2>1. Pieces[c] \in Nat \ {0}
    BY PiecesAssumption
  <2>2. \A k \in 1 .. Pieces[c] : [from |-> c, n |-> k] \in Piece
    BY <2>1 DEF Piece
  <2>3. Line(c) \in [1 .. Pieces[c] -> Piece]
    BY <2>2 DEF Line
  <2>4. Line(c) \in Seq(Piece) /\ Len(Line(c)) = Pieces[c]
    BY <2>1, <2>3
  <2> QED BY <2>1, <2>4 DEF Line
<1> QED BY <1>1 DEF AnswerTo

LEMMA Removed ==
  ASSUME NEW S, NEW s \in Seq(S), NEW k \in DOMAIN s
  PROVE  /\ RemoveAt(s, k) \in Seq(S)
         /\ Len(RemoveAt(s, k)) = Len(s) - 1
         /\ \A j \in 1 .. Len(s) - 1 : RemoveAt(s, k)[j] = IF j < k THEN s[j] ELSE s[j + 1]
<1>1. k \in 1 .. Len(s) /\ Len(s) \in Nat
  BY LenProperties
<1> DEFINE a == SubSeq(s, 1, k - 1)
           b == SubSeq(s, k + 1, Len(s))
<1>2. /\ a \in Seq(S) /\ Len(a) = k - 1
      /\ \A j \in 1 .. k - 1 : a[j] = s[j]
  BY <1>1
<1>3. /\ b \in Seq(S) /\ Len(b) = Len(s) - k
      /\ \A j \in 1 .. Len(s) - k : b[j] = s[k + j]
  BY <1>1
<1> HIDE DEF a, b
<1>4. /\ a \o b \in Seq(S)
      /\ Len(a \o b) = Len(a) + Len(b)
      /\ \A j \in 1 .. Len(a) + Len(b) :
           (a \o b)[j] = IF j <= Len(a) THEN a[j] ELSE b[j - Len(a)]
  BY <1>2, <1>3, ConcatProperties
<1>5. RemoveAt(s, k) = a \o b
  BY DEF RemoveAt, a, b
<1>6. ASSUME NEW j \in 1 .. Len(s) - 1
      PROVE  (a \o b)[j] = IF j < k THEN s[j] ELSE s[j + 1]
  <2>1. CASE j < k
    BY <1>1, <1>2, <1>3, <1>4, <2>1
  <2>2. CASE j >= k
    <3>0. j \in 1 .. Len(a) + Len(b) /\ ~(j <= Len(a)) /\ Len(a) = k - 1
      BY <1>1, <1>2, <1>3, <2>2
    <3>1. (a \o b)[j] = b[j - (k - 1)]
      BY <1>4, <3>0
    <3>2. j - (k - 1) \in 1 .. Len(s) - k /\ k + (j - (k - 1)) = j + 1
      BY <1>1, <2>2
    <3> QED BY <1>1, <1>3, <2>2, <3>1, <3>2
  <2>3. j < k \/ j >= k
    BY <1>1
  <2> QED BY <2>1, <2>2, <2>3
<1>7. a \o b \in Seq(S) /\ Len(a \o b) = Len(s) - 1
  BY <1>1, <1>2, <1>3, <1>4
<1> QED BY <1>5, <1>6, <1>7

-----------------------------------------------------------------------------
(* What a step leaves alone.                                               *)

Cuts(c) == pc = "command" /\ asker = c

(* client_fds and client_bufs have one index.                              *)
LEMMA Buffers ==
  ASSUME TypeOK, NEW k \in DOMAIN fds
  PROVE  /\ k \in 1 .. Len(fds) /\ k \in DOMAIN bufs
         /\ fds[k] \in Clients /\ bufs[k] \in Seq(Piece) /\ Len(bufs[k]) \in Nat
<1>1. fds \in Seq(Clients) /\ bufs \in Seq(Seq(Piece)) /\ Len(bufs) = Len(fds)
  BY DEF TypeOK
<1>2. DOMAIN fds = 1 .. Len(fds) /\ DOMAIN bufs = 1 .. Len(fds)
  BY <1>1
<1>3. fds[k] \in Clients /\ bufs[k] \in Seq(Piece)
  BY <1>1, <1>2
<1> QED BY <1>2, <1>3

(* A step that moves no connection and no piece.                           *)
LEMMA ConnectionsKept ==
  ASSUME Distinct, Queued, Slots, UNCHANGED <<fds, bufs, backlog, stream, unsent, runs>>,
         \A c \in Range(fds) : Cuts(c)' <=> Cuts(c)
  PROVE  Distinct' /\ Queued' /\ Slots'
<1>1. Distinct'
  BY DEF Distinct
<1>2. Queued'
  BY DEF Queued, Part, Sent
<1>3. ASSUME NEW k \in DOMAIN fds PROVE (Taken(fds[k], bufs[k]) \/ Arriving(fds[k], bufs[k]))'
  <2>1. fds[k] \in Range(fds)
    BY DEF Range
  <2>2. Cuts(fds[k])' <=> Cuts(fds[k])
    BY <2>1
  <2>3. Taken(fds[k], bufs[k]) \/ Arriving(fds[k], bufs[k])
    BY DEF Slots
  <2> QED BY <2>2, <2>3 DEF Taken, Arriving, Cuts, Part, Sent
<1> QED BY <1>1, <1>2, <1>3 DEF Slots

(* A save: what the file and its history can be after it.                  *)
SavedAs(l) ==
  /\ file' \subseteq Clients /\ unsaved' \in BOOLEAN /\ forfeit' = forfeit
  /\ ~unsaved' => file' = l \/ UNCHANGED <<file, unsaved>>

LEMMA SaveFacts ==
  ASSUME TypeOK, NEW l \in SUBSET Clients, Save(l) \/ UNCHANGED saved
  PROVE  SavedAs(l)
BY DEF Save, saved, SavedAs, TypeOK

(* A running daemon goes on and changes no list.                           *)
LEMMA KeptBySaves ==
  ASSUME Kept, pc # "down", pc' # "down", UNCHANGED <<list, runs>>, SavedAs(list)
  PROVE  Kept'
BY DEF Kept, SavedAs

-----------------------------------------------------------------------------
LEMMA LoopInit == Init => LoopInv
<1> SUFFICES ASSUME Init PROVE LoopInv
  OBVIOUS
<1> USE DEF Init
<1>1. TypeOK
  <2>1. /\ cli \in [Clients -> {"idle", "open", "answered", "confused"}]
        /\ unsent \in [Clients -> Nat] /\ runs \in [Clients -> Nat]
    OBVIOUS
  <2>2. stream \in [Clients -> Seq(Piece)] /\ answers \in [Clients -> Seq(Clients \cup {Nobody})]
    OBVIOUS
  <2>3. /\ backlog \in Seq(Clients) /\ fds \in Seq(Clients) /\ bufs \in Seq(Seq(Piece))
        /\ line \in Seq(Piece) /\ Len(bufs) = Len(fds) /\ Len(fds) <= MaxClients
    BY MaxClientsAssumption
  <2> QED BY <2>1, <2>2, <2>3 DEF TypeOK
<1>2. Traffic
  BY NamesAssumption DEF Traffic, Distinct, Queued, Slots, AtWork, StaysReady
<1>3. Answering /\ AnswersGoToAsker /\ Kept
  BY DEF Answering, AnswersGoToAsker, Kept
<1> QED BY <1>1, <1>2, <1>3 DEF LoopInv

(* The CLI reads, gives up or leaves: nothing of the daemon's moves.       *)
LEMMA LeavingKeeps ==
  ASSUME LoopInv, NEW c \in Clients, Refused(c) \/ Read(c) \/ Eof(c) \/ Leave(c)
  PROVE  LoopInv'
<1>1. UNCHANGED <<unsent, stream, backlog, loop>>
  BY DEF Refused, Read, Eof, Leave, socket
<1>2. UNCHANGED <<fds, bufs, ready, pc, line, asker, mutex, thread, list, file, unsaved, forfeit, runs>>
  BY <1>1 DEF loop, conns, store, saved
<1>3. PICK a \in {"idle", "answered"} :
        /\ cli' = [cli EXCEPT ![c] = a]
        /\ a = "answered" => answers[c] # <<>>
  BY DEF Refused, Read, Eof, Leave, LoopInv, AnswersGoToAsker, TypeOK
<1>4. answers' = [answers EXCEPT ![c] = <<>>]
  BY DEF Refused, Read, Eof, Leave, socket, LoopInv, Answering, TypeOK
<1>5. TypeOK'
  BY <1>1, <1>2, <1>3, <1>4 DEF LoopInv, TypeOK
<1>6. Distinct' /\ Queued' /\ Slots'
  BY <1>1, <1>2, ConnectionsKept DEF LoopInv, Traffic, Cuts
<1>7. AtWork' /\ Kept'
  BY <1>1, <1>2 DEF LoopInv, Traffic, AtWork, Kept, Line
<1>8. StaysReady'
  BY <1>1, <1>2, <1>3 DEF LoopInv, Traffic, StaysReady, Closed, TypeOK
<1>9. Answering'
  BY <1>1, <1>2, <1>3, <1>4 DEF LoopInv, Answering, Closed, TypeOK
<1>10. AnswersGoToAsker'
  BY <1>3, <1>4 DEF LoopInv, AnswersGoToAsker, TypeOK
<1> QED BY <1>5, <1>6, <1>7, <1>8, <1>9, <1>10 DEF LoopInv, Traffic

(* select and the timers.                                                  *)
LEMMA SelectKeeps ==
  ASSUME LoopInv, Select \/ Interrupted \/ CheckTimers \/ CheckTimersThenErrno \/ Served
  PROVE  LoopInv'
<1> USE DEF Select, Interrupted, CheckTimers, CheckTimersThenErrno, Served
<1>1. UNCHANGED <<cli, unsent, stream, answers, backlog, fds, bufs, line, asker, mutex, thread,
                  list, runs>>
  BY DEF client, socket, conns, store, saved
<1>2. /\ pc \in {"select", "timers", "failed", "serve"}
      /\ pc' \in {"select", "timers", "failed", "exit", "serve", "accept"}
      /\ ready' \in {{}, ReadySet, ready}
  BY DEF AfterTimers
<1>0. SavedAs(list)
  <2>1. Save(list) \/ UNCHANGED saved
    BY DEF Timers, store
  <2> QED BY <2>1, SaveFacts DEF LoopInv, TypeOK
<1> USE DEF SavedAs
<1>3. /\ ReadySet \subseteq Range(fds) \cup {Server}
      /\ \A c \in ReadySet \ {Server} : Readable(c)
      /\ Server \in ReadySet => backlog # <<>>
  <2>1. \A j \in DOMAIN fds : fds[j] \in Clients
    BY DEF LoopInv, TypeOK
  <2>2. \A j \in DOMAIN fds : fds[j] \in Range(fds) /\ fds[j] # Server
    BY <2>1, NamesAssumption DEF Range
  <2> QED BY <2>2 DEF ReadySet
<1>4. TypeOK'
  BY <1>0, <1>1, <1>2, <1>3 DEF LoopInv, TypeOK
<1>5. Distinct' /\ Queued' /\ Slots'
  BY <1>1, <1>2, ConnectionsKept DEF LoopInv, Traffic, Cuts
<1>6. StaysReady'
  BY <1>1, <1>2, <1>3 DEF LoopInv, Traffic, StaysReady, Closed, Readable
<1>7. AtWork'
  <2>1. Server \in ready' => pc' \in {"timers", "accept"} /\ backlog' # <<>>
    BY <1>1, <1>3 DEF AfterTimers, LoopInv, Traffic, AtWork
  <2>2. pc' = "accept" => Server \in ready'
    BY DEF AfterTimers
  <2> QED BY <1>2, <2>1, <2>2 DEF AtWork
<1>8. (Answering /\ AnswersGoToAsker)'
  BY <1>1 DEF LoopInv, Answering, AnswersGoToAsker, Closed
<1>9. Kept'
  <2>1. pc # "down" /\ pc' # "down"
    BY <1>2
  <2> QED BY <1>0, <1>1, <2>1, KeptBySaves DEF LoopInv
<1> QED BY <1>4, <1>5, <1>6, <1>7, <1>8, <1>9 DEF LoopInv, Traffic

(* A new connection.                                                       *)
LEMMA ConnectKeeps ==
  ASSUME LoopInv, NEW c \in Clients, Connect(c)
  PROVE  LoopInv'
<1> USE DEF Connect
<1>1. UNCHANGED <<answers, fds, bufs, ready, pc, line, asker, mutex, thread>>
  BY DEF conns
<1>2. /\ \A j \in DOMAIN fds : fds[j] # c /\ fds[j] \in Clients
      /\ \A j \in DOMAIN backlog : backlog[j] # c /\ backlog[j] \in Clients
  BY DEF Held, Range, LoopInv, TypeOK
<1>3. /\ backlog \in Seq(Clients) /\ backlog' \in Seq(Clients)
      /\ Len(backlog') = Len(backlog) + 1
      /\ \A j \in DOMAIN backlog' :
           IF j \in DOMAIN backlog THEN backlog'[j] = backlog[j] ELSE j = Len(backlog) + 1 /\ backlog'[j] = c
  BY DEF LoopInv, TypeOK
<1>4. \A d \in Clients : d # c =>
        unsent'[d] = unsent[d] /\ stream'[d] = stream[d] /\ runs'[d] = runs[d] /\ cli'[d] = cli[d]
  BY DEF LoopInv, TypeOK
<1>5. /\ unsent'[c] = Pieces[c] /\ stream'[c] = <<>> /\ runs'[c] = 0 /\ cli'[c] = "open"
      /\ Pieces[c] \in Nat
  BY PiecesAssumption DEF LoopInv, TypeOK
<1>6. TypeOK'
  BY <1>1, <1>3, <1>5 DEF LoopInv, TypeOK
<1>7. Distinct'
  BY <1>1, <1>2, <1>3 DEF LoopInv, Traffic, Distinct
<1>8. Queued'
  <2> SUFFICES ASSUME NEW k \in DOMAIN backlog'
               PROVE  (runs[backlog[k]] = 0 /\ Part(stream[backlog[k]], backlog[k], 0, Sent(backlog[k])))'
    BY DEF Queued
  <2>1. CASE k \in DOMAIN backlog
    <3>1. backlog'[k] = backlog[k] /\ backlog[k] # c /\ backlog[k] \in Clients
      BY <1>2, <1>3, <2>1
    <3>2. runs[backlog[k]] = 0 /\ Part(stream[backlog[k]], backlog[k], 0, Sent(backlog[k]))
      BY <2>1 DEF LoopInv, Traffic, Queued
    <3> QED BY <1>4, <3>1, <3>2 DEF Part, Sent
  <2>2. CASE k \notin DOMAIN backlog
    <3>1. backlog'[k] = c
      BY <1>3, <2>2
    <3> QED BY <1>5, <3>1 DEF Part, Sent
  <2> QED BY <2>1, <2>2
<1>9. Slots'
  <2> SUFFICES ASSUME NEW k \in DOMAIN fds
               PROVE  (Taken(fds[k], bufs[k]) \/ Arriving(fds[k], bufs[k]))'
    BY <1>1 DEF Slots
  <2>1. fds[k] # c /\ fds[k] \in Clients
    BY <1>2
  <2>2. Taken(fds[k], bufs[k]) \/ Arriving(fds[k], bufs[k])
    BY DEF LoopInv, Traffic, Slots
  <2> QED BY <1>1, <1>4, <2>1, <2>2 DEF Taken, Arriving, Part, Sent
<1>10. \A d \in Range(fds) : d # c /\ d \in Clients
  BY <1>2 DEF Range
<1>11. AtWork'
  <2>1. backlog' # <<>>
    BY <1>3
  <2>2. asker \in Range(fds) => runs'[asker] = runs[asker]
    BY <1>4, <1>10
  <2> QED BY <1>1, <2>1, <2>2 DEF LoopInv, Traffic, AtWork, Line
<1>12. StaysReady'
  <2>1. \A d \in ready \ {Server} : d # c /\ d \in Clients
    BY <1>10 DEF LoopInv, TypeOK
  <2> QED BY <1>1, <1>4, <2>1 DEF LoopInv, Traffic, StaysReady, Closed
<1>13. Answering'
  BY <1>1, <1>4, <1>5 DEF LoopInv, Answering, Closed
<1>14. AnswersGoToAsker'
  BY <1>1, <1>4, <1>5 DEF LoopInv, AnswersGoToAsker
<1>15. Kept'
  BY <1>1, <1>4, <1>5 DEF LoopInv, Kept
<1> QED BY <1>6, <1>7, <1>8, <1>9, <1>11, <1>12, <1>13, <1>14, <1>15 DEF LoopInv, Traffic

(* One more piece in the socket.                                           *)
LEMMA SendKeeps ==
  ASSUME LoopInv, NEW c \in Clients, Send(c)
  PROVE  LoopInv'
<1> USE DEF Send
<1> DEFINE p == [from |-> c, n |-> Sent(c) + 1]
<1>1. UNCHANGED <<cli, answers, backlog, fds, bufs, ready, pc, line, asker, mutex, thread,
                  list, file, unsaved, forfeit, runs>>
  BY DEF loop, conns, store, saved
<1>2. /\ Pieces[c] \in Nat /\ unsent[c] \in Nat /\ unsent[c] > 0 /\ stream[c] \in Seq(Piece)
  BY PiecesAssumption DEF LoopInv, TypeOK
<1>0. Sent(c) \in Int
  BY <1>2 DEF Sent
<1>3. /\ unsent'[c] = unsent[c] - 1 /\ stream'[c] = Append(stream[c], p)
      /\ \A d \in Clients : d # c => unsent'[d] = unsent[d] /\ stream'[d] = stream[d]
  BY DEF LoopInv, TypeOK, Sent
<1>4. Sent(c)' = Sent(c) + 1
  BY <1>2, <1>3 DEF Sent
<1>5. ASSUME NEW m \in Nat, Part(stream[c], c, m, Sent(c))
      PROVE  Part(stream[c], c, m, Sent(c))' /\ p \in Piece
  <2>1. Part(Append(stream[c], p), c, m, Sent(c) + 1)
    BY <1>0, <1>2, <1>5, PartAppend
  <2>2. Part(stream'[c], c, m, Sent(c)')
    BY <1>3, <1>4, <2>1
  <2>3. Sent(c) + 1 \in Nat
    BY <1>0, <1>2, <1>5 DEF Part
  <2> QED BY <2>2, <2>3 DEF Part, Piece
<1> HIDE DEF p
<1>6. ASSUME NEW d \in Clients, d # c, NEW m, NEW b
      PROVE  (Part(stream[d], d, m, Sent(d)))' <=> Part(stream[d], d, m, Sent(d))
  BY <1>3, <1>6 DEF Part, Sent
<1>7. Queued'
  <2> SUFFICES ASSUME NEW k \in DOMAIN backlog
               PROVE  (runs[backlog[k]] = 0 /\ Part(stream[backlog[k]], backlog[k], 0, Sent(backlog[k])))'
    BY <1>1 DEF Queued
  <2>1. backlog[k] \in Clients /\ runs[backlog[k]] = 0
        /\ Part(stream[backlog[k]], backlog[k], 0, Sent(backlog[k]))
    BY DEF LoopInv, TypeOK, Traffic, Queued
  <2>2. CASE backlog[k] = c
    BY <1>1, <1>5, <2>1, <2>2
  <2>3. CASE backlog[k] # c
    BY <1>1, <1>6, <2>1, <2>3
  <2> QED BY <2>2, <2>3
<1>8. Slots'
  <2> SUFFICES ASSUME NEW k \in DOMAIN fds
               PROVE  (Taken(fds[k], bufs[k]) \/ Arriving(fds[k], bufs[k]))'
    BY <1>1 DEF Slots
  <2>1. fds[k] \in Clients /\ (Taken(fds[k], bufs[k]) \/ Arriving(fds[k], bufs[k]))
    BY DEF LoopInv, TypeOK, Traffic, Slots
  <2>2. bufs[k] \in Seq(Piece) /\ Len(bufs[k]) \in Nat
    BY Buffers DEF LoopInv
  <2>3. CASE fds[k] = c
    <3>1. Arriving(c, bufs[k])
      BY <1>2, <2>1, <2>3 DEF Taken
    <3>2. Arriving(c, bufs[k])'
      BY <1>1, <1>5, <2>2, <3>1 DEF Arriving, Part
    <3> QED BY <1>1, <2>3, <3>2
  <2>4. CASE fds[k] # c
    <3>1. Part(bufs[k], fds[k], 0, Len(bufs[k]))' <=> Part(bufs[k], fds[k], 0, Len(bufs[k]))
      BY <1>1 DEF Part
    <3>2. Part(stream[fds[k]], fds[k], Len(bufs[k]), Sent(fds[k]))'
          <=> Part(stream[fds[k]], fds[k], Len(bufs[k]), Sent(fds[k]))
      BY <1>1, <1>6, <2>1, <2>4
    <3> QED BY <1>1, <1>3, <2>1, <2>4, <3>1, <3>2 DEF Taken, Arriving
  <2> QED BY <2>3, <2>4
<1>9. p \in Piece
  <2>1. CASE c \in Range(backlog)
    <3>1. Part(stream[c], c, 0, Sent(c))
      BY <2>1 DEF LoopInv, Traffic, Queued, Range
    <3> QED BY <1>5, <3>1
  <2>2. CASE c \in Range(fds)
    <3>1. PICK k \in DOMAIN fds : fds[k] = c
      BY <2>2 DEF Range
    <3>2. Arriving(c, bufs[k])
      BY <1>2, <3>1 DEF LoopInv, Traffic, Slots, Taken
    <3>3. Len(bufs[k]) \in Nat
      BY Buffers DEF LoopInv
    <3> QED BY <1>5, <3>2, <3>3 DEF Arriving
  <2> QED BY <2>1, <2>2 DEF Held
<1>10. TypeOK'
  <2>1. stream'[c] \in Seq(Piece) /\ unsent'[c] \in Nat
    BY <1>2, <1>3, <1>9, AppendProperties
  <2>2. stream' = [stream EXCEPT ![c] = stream'[c]] /\ unsent' = [unsent EXCEPT ![c] = unsent'[c]]
    BY DEF LoopInv, TypeOK
  <2>3. stream' \in [Clients -> Seq(Piece)] /\ unsent' \in [Clients -> Nat]
    BY <2>1, <2>2 DEF LoopInv, TypeOK
  <2> QED BY <1>1, <2>3 DEF LoopInv, TypeOK
<1>11. Distinct' /\ AtWork' /\ Kept' /\ AnswersGoToAsker'
  BY <1>1 DEF LoopInv, Traffic, Distinct, AtWork, Kept, AnswersGoToAsker, Line
<1>12. StaysReady'
  <2>1. stream'[c] # <<>>
    BY <1>2, <1>3, <1>9, AppendProperties
  <2>2. \A d \in ready \ {Server} : d \in Clients
    BY DEF LoopInv, TypeOK, Range
  <2> QED BY <1>1, <1>3, <2>1, <2>2 DEF LoopInv, Traffic, StaysReady, Closed
<1>13. Answering'
  <2>1. runs[c] # 1
    BY <1>2 DEF LoopInv, Answering
  <2> QED BY <1>1, <1>3, <2>1 DEF LoopInv, Answering, Closed
<1> QED BY <1>7, <1>8, <1>10, <1>11, <1>12, <1>13 DEF LoopInv, Traffic

(* The first connection in the backlog is kept, or closed unread.          *)
LEMMA AcceptKeeps ==
  ASSUME LoopInv, Accept
  PROVE  LoopInv'
<1> DEFINE h == Head(backlog)
<1>1. /\ UNCHANGED <<cli, unsent, stream, answers, line, asker, mutex, thread, list, file, unsaved, forfeit, runs>>
      /\ pc = "accept" /\ pc' = "serve" /\ ready' = ready \ {Server} /\ backlog' = Tail(backlog)
  BY DEF Accept, client, store, saved
<1>2. backlog \in Seq(Clients) /\ backlog # <<>>
  BY <1>1 DEF LoopInv, TypeOK, Traffic, AtWork
<1>3. /\ h \in Clients /\ 1 \in DOMAIN backlog /\ backlog[1] = h
      /\ backlog' \in Seq(Clients)
      /\ \A j \in DOMAIN backlog' :
           j \in Nat /\ j + 1 \in DOMAIN backlog /\ backlog'[j] = backlog[j + 1] /\ j + 1 # 1
  BY <1>1, <1>2
<1>4. \A j, k \in DOMAIN backlog' : backlog'[j] # h /\ (backlog'[j] = backlog'[k] => j = k)
  BY <1>3 DEF LoopInv, Traffic, Distinct
<1>5. Queued'
  BY <1>1, <1>3 DEF LoopInv, Traffic, Queued, Part, Sent
<1>6. /\ h \notin Range(fds)
      /\ \A j \in DOMAIN fds : fds[j] # h /\ \A k \in DOMAIN backlog' : fds[j] # backlog'[k]
  BY <1>3 DEF LoopInv, Traffic, Distinct, Range
<1>7. runs[h] = 0 /\ Part(stream[h], h, 0, Sent(h))
  BY <1>3 DEF LoopInv, Traffic, Queued
<1> HIDE DEF h
<1>8. ASSUME NEW k \in DOMAIN fds, fds'[k] = fds[k], bufs'[k] = bufs[k]
      PROVE  (Taken(fds[k], bufs[k]) \/ Arriving(fds[k], bufs[k]))'
  <2>1. Taken(fds[k], bufs[k]) \/ Arriving(fds[k], bufs[k])
    BY DEF LoopInv, Traffic, Slots
  <2> QED BY <1>1, <1>8, <2>1 DEF Taken, Arriving, Part, Sent
<1>9. TypeOK' /\ Distinct' /\ Slots' /\ Range(fds) \subseteq Range(fds')
  <2>1. CASE UNCHANGED <<fds, bufs>>
    <3>1. Distinct' /\ Slots'
      BY <1>4, <1>6, <1>8, <2>1 DEF LoopInv, Traffic, Distinct, Slots
    <3>2. TypeOK'
      BY <1>1, <1>3, <2>1 DEF LoopInv, TypeOK
    <3> QED BY <2>1, <3>1, <3>2
  <2>2. CASE Len(fds) < MaxClients /\ fds' = Append(fds, h) /\ bufs' = Append(bufs, <<>>)
    <3>1. fds \in Seq(Clients) /\ bufs \in Seq(Seq(Piece)) /\ Len(bufs) = Len(fds) /\ Len(fds) \in Nat
      BY DEF LoopInv, TypeOK
    <3>2. /\ fds' \in Seq(Clients) /\ Len(fds') = Len(fds) + 1
          /\ \A k \in 1 .. Len(fds) : fds'[k] = fds[k]
          /\ fds'[Len(fds) + 1] = h
      BY <1>3, <2>2, <3>1, AppendProperties
    <3>3. /\ bufs' \in Seq(Seq(Piece)) /\ Len(bufs') = Len(fds) + 1
          /\ \A k \in 1 .. Len(fds) : bufs'[k] = bufs[k]
          /\ bufs'[Len(fds) + 1] = <<>>
      <4>1. <<>> \in Seq(Piece)
        OBVIOUS
      <4> QED BY <2>2, <3>1, <4>1, AppendProperties
    <3>0. DOMAIN fds = 1 .. Len(fds) /\ DOMAIN fds' = 1 .. Len(fds) + 1
      BY <3>1, <3>2, LenProperties
    <3>4. \A k \in DOMAIN fds' : k = Len(fds) + 1 \/ k \in DOMAIN fds
      BY <3>0, <3>1
    <3>5. \A k \in DOMAIN fds : k \in DOMAIN fds' /\ fds'[k] = fds[k] /\ bufs'[k] = bufs[k]
      <4>1. \A k \in DOMAIN fds : k \in 1 .. Len(fds) /\ k \in 1 .. Len(fds) + 1
        BY <3>0, <3>1
      <4>2. \A k \in DOMAIN fds : fds'[k] = fds[k]
        BY <3>2, <4>1
      <4>3. \A k \in DOMAIN fds : bufs'[k] = bufs[k]
        BY <3>3, <4>1
      <4> QED BY <3>0, <4>1, <4>2, <4>3
    <3>6. Range(fds) \subseteq Range(fds')
      BY <3>5 DEF Range
    <3>7. Distinct'
      BY <1>3, <1>4, <1>6, <3>2, <3>4, <3>5 DEF LoopInv, Traffic, Distinct
    <3>8. Slots'
      <4> SUFFICES ASSUME NEW k \in DOMAIN fds'
                   PROVE  (Taken(fds[k], bufs[k]) \/ Arriving(fds[k], bufs[k]))'
        BY DEF Slots
      <4>1. CASE k \in DOMAIN fds
        BY <1>8, <3>5, <4>1
      <4>2. CASE k = Len(fds) + 1
        <5>1. fds'[k] = h /\ bufs'[k] = <<>> /\ Len(bufs'[k]) = 0
          BY <3>2, <3>3, <4>2
        <5> QED BY <1>1, <1>7, <5>1 DEF Arriving, Part, Sent
      <4> QED BY <3>4, <4>1, <4>2
    <3>9. TypeOK'
      <4>1. Len(fds') <= MaxClients
        BY <2>2, <3>1, <3>2, MaxClientsAssumption
      <4> QED BY <1>1, <1>3, <3>2, <3>3, <3>6, <4>1 DEF LoopInv, TypeOK
    <3> QED BY <3>6, <3>7, <3>8, <3>9
  <2> QED BY <2>1, <2>2 DEF Accept, conns, h
<1>10. AtWork' /\ StaysReady'
  BY <1>1 DEF LoopInv, Traffic, AtWork, StaysReady, Closed
<1>11. Answering' /\ AnswersGoToAsker' /\ Kept'
  BY <1>1 DEF LoopInv, Answering, AnswersGoToAsker, Kept, Closed
<1> QED BY <1>5, <1>9, <1>10, <1>11 DEF LoopInv, Traffic

(* A connection and its buffer go together.                                *)
LEMMA HangUpRemoves ==
  ASSUME TypeOK, Distinct, NEW k \in DOMAIN fds, HangUp(k)
  PROVE  /\ fds' \in Seq(Clients) /\ bufs' \in Seq(Seq(Piece))
         /\ Len(bufs') = Len(fds') /\ Len(fds') <= MaxClients
         /\ Range(fds') = Range(fds) \ {fds[k]}
         /\ \A i, j \in DOMAIN fds' : fds'[i] = fds'[j] => i = j
         /\ \A j \in DOMAIN fds' : \E i \in DOMAIN fds : fds'[j] = fds[i] /\ bufs'[j] = bufs[i]
<1>1. fds \in Seq(Clients) /\ bufs \in Seq(Seq(Piece)) /\ Len(bufs) = Len(fds) /\ Len(fds) \in Nat
      /\ Len(fds) <= MaxClients /\ MaxClients \in Nat
  BY MaxClientsAssumption DEF TypeOK
<1>2. DOMAIN fds = 1 .. Len(fds) /\ k \in 1 .. Len(fds) /\ k \in DOMAIN bufs
  BY Buffers, <1>1
<1>3. /\ fds' \in Seq(Clients) /\ Len(fds') = Len(fds) - 1
      /\ \A j \in 1 .. Len(fds) - 1 : fds'[j] = IF j < k THEN fds[j] ELSE fds[j + 1]
  BY <1>1, Removed DEF HangUp
<1>4. /\ bufs' \in Seq(Seq(Piece)) /\ Len(bufs') = Len(fds) - 1
      /\ \A j \in 1 .. Len(fds) - 1 : bufs'[j] = IF j < k THEN bufs[j] ELSE bufs[j + 1]
  <2>1. bufs' = RemoveAt(bufs, k)
    BY DEF HangUp
  <2> QED BY <1>1, <1>2, <2>1, Removed
<1>5. DOMAIN fds' = 1 .. Len(fds) - 1
  BY <1>3
<1>6. \A i, j \in DOMAIN fds : fds[i] = fds[j] => i = j
  BY DEF Distinct
<1>7. ASSUME NEW j \in DOMAIN fds'
      PROVE  \E i \in DOMAIN fds \ {k} :
               i = (IF j < k THEN j ELSE j + 1) /\ fds'[j] = fds[i] /\ bufs'[j] = bufs[i]
  <2>1. CASE j < k
    <3>1. j \in 1 .. Len(fds) /\ j # k
      BY <1>1, <1>2, <1>5, <2>1
    <3> QED BY <1>2, <1>3, <1>4, <1>5, <2>1, <3>1
  <2>2. CASE ~(j < k)
    <3>1. j + 1 \in 1 .. Len(fds) /\ j + 1 # k
      BY <1>1, <1>2, <1>5, <2>2
    <3> QED BY <1>2, <1>3, <1>4, <1>5, <2>2, <3>1
  <2> QED BY <2>1, <2>2
<1>8. ASSUME NEW i \in DOMAIN fds' , NEW j \in DOMAIN fds', fds'[i] = fds'[j]
      PROVE  i = j
  <2>1. (IF i < k THEN i ELSE i + 1) = (IF j < k THEN j ELSE j + 1)
    BY <1>6, <1>7, <1>8
  <2> QED BY <1>1, <1>2, <1>5, <2>1
<1>9. ASSUME NEW i \in DOMAIN fds, i # k
      PROVE  \E j \in DOMAIN fds' : fds'[j] = fds[i]
  <2>1. CASE i < k
    <3>1. i \in 1 .. Len(fds) - 1
      BY <1>1, <1>2, <2>1
    <3> QED BY <1>3, <1>5, <2>1, <3>1
  <2>2. CASE i > k
    <3>1. i - 1 \in 1 .. Len(fds) - 1 /\ ~(i - 1 < k) /\ (i - 1) + 1 = i
      BY <1>1, <1>2, <2>2
    <3>2. fds'[i - 1] = fds[i]
      BY <1>3, <3>1
    <3> QED BY <1>5, <3>1, <3>2
  <2> QED BY <1>1, <1>2, <1>9, <2>1, <2>2
<1>10. Range(fds') = Range(fds) \ {fds[k]}
  <2>1. \A j \in DOMAIN fds' : fds'[j] \in Range(fds) /\ fds'[j] # fds[k]
    BY <1>6, <1>7 DEF Range
  <2> QED BY <1>9, <2>1 DEF Range
<1>11. Len(bufs') = Len(fds') /\ Len(fds') <= MaxClients
  BY <1>1, <1>3, <1>4
<1> QED BY <1>3, <1>4, <1>7, <1>8, <1>10, <1>11

(* The next ready connection: its client has gone, or has written.         *)
LEMMA RecvKeeps ==
  ASSUME LoopInv, Recv
  PROVE  LoopInv'
<1>1. /\ UNCHANGED <<cli, unsent, answers, backlog, line, mutex, thread, list, file, unsaved, forfeit, runs>>
      /\ pc = "serve"
  BY DEF Recv, client, store, saved
<1>2. PICK k \in DOMAIN fds :
        /\ ready' = ready \ {fds[k]}
        /\ \/ stream[fds[k]] = <<>> /\ HangUp(k) /\ UNCHANGED <<stream, pc, asker>>
           \/ \E n \in 1 .. Len(stream[fds[k]]) :
                /\ bufs' = [bufs EXCEPT ![k] = bufs[k] \o SubSeq(stream[fds[k]], 1, n)]
                /\ stream' = [stream EXCEPT ![fds[k]] =
                                SubSeq(stream[fds[k]], n + 1, Len(stream[fds[k]]))]
                /\ asker' = fds[k]
                /\ pc' = "lines"
                /\ UNCHANGED fds
  BY DEF Recv
<1>3. PICK c \in Clients : c = fds[k]
  BY Buffers DEF LoopInv
<1>4. Server \notin ready /\ Server \notin ready'
  BY <1>1, <1>2 DEF LoopInv, Traffic, AtWork
<1>5. \A d \in ready : d \in Clients /\ d \in Range(fds)
  <2>1. ready \subseteq Range(fds)
    BY <1>4 DEF LoopInv, TypeOK
  <2>2. Range(fds) \subseteq Clients
    BY Buffers DEF LoopInv, Range
  <2> QED BY <2>1, <2>2
<1>6. CASE stream[c] = <<>> /\ HangUp(k) /\ UNCHANGED <<stream, pc, asker>>
  <2>1. /\ fds' \in Seq(Clients) /\ bufs' \in Seq(Seq(Piece))
        /\ Len(bufs') = Len(fds') /\ Len(fds') <= MaxClients
        /\ Range(fds') = Range(fds) \ {fds[k]}
        /\ \A i, j \in DOMAIN fds' : fds'[i] = fds'[j] => i = j
        /\ \A j \in DOMAIN fds' : \E i \in DOMAIN fds : fds'[j] = fds[i] /\ bufs'[j] = bufs[i]
    BY <1>6, HangUpRemoves DEF LoopInv, Traffic
  <2>2. ready' \subseteq Range(fds') \cup {Server}
    BY <1>2, <1>5, <2>1
  <2>3. TypeOK'
    BY <1>1, <1>6, <2>1, <2>2 DEF LoopInv, TypeOK
  <2>4. Distinct'
    BY <1>1, <2>1 DEF LoopInv, Traffic, Distinct
  <2>5. Queued'
    BY <1>1, <1>6 DEF LoopInv, Traffic, Queued, Part, Sent
  <2>6. Slots'
    <3> SUFFICES ASSUME NEW j \in DOMAIN fds'
                 PROVE  (Taken(fds[j], bufs[j]) \/ Arriving(fds[j], bufs[j]))'
      BY DEF Slots
    <3>1. PICK i \in DOMAIN fds : fds'[j] = fds[i] /\ bufs'[j] = bufs[i]
      BY <2>1
    <3>2. Taken(fds[i], bufs[i]) \/ Arriving(fds[i], bufs[i])
      BY DEF LoopInv, Traffic, Slots
    <3> QED BY <1>1, <1>6, <3>1, <3>2 DEF Taken, Arriving, Part, Sent
  <2>7. AtWork' /\ StaysReady' /\ Answering' /\ AnswersGoToAsker' /\ Kept'
    BY <1>1, <1>2, <1>4, <1>6 DEF LoopInv, Traffic, AtWork, StaysReady, Closed, Answering,
       AnswersGoToAsker, Kept
  <2> QED BY <2>3, <2>4, <2>5, <2>6, <2>7 DEF LoopInv, Traffic
<1>7. ASSUME NEW n \in 1 .. Len(stream[c]),
             bufs' = [bufs EXCEPT ![k] = bufs[k] \o SubSeq(stream[c], 1, n)],
             stream' = [stream EXCEPT ![c] = SubSeq(stream[c], n + 1, Len(stream[c]))],
             asker' = c, pc' = "lines", UNCHANGED fds
      PROVE  LoopInv'
  <2> DEFINE got == SubSeq(stream[c], 1, n)
             rest == SubSeq(stream[c], n + 1, Len(stream[c]))
  <2>1. /\ stream[c] \in Seq(Piece) /\ Len(stream[c]) \in Nat /\ n \in Nat
        /\ k \in DOMAIN bufs /\ bufs[k] \in Seq(Piece) /\ Len(bufs[k]) \in Nat
    <3>1. k \in DOMAIN bufs /\ bufs[k] \in Seq(Piece) /\ Len(bufs[k]) \in Nat
      BY Buffers DEF LoopInv
    <3>2. stream[c] \in Seq(Piece)
      BY DEF LoopInv, TypeOK
    <3> QED BY <3>1, <3>2, LenProperties
  <2>2. got \in Seq(Piece) /\ rest \in Seq(Piece) /\ Len(got) = n
    BY <2>1
  <2>3. bufs[k] \o got \in Seq(Piece) /\ Len(bufs[k] \o got) = Len(bufs[k]) + n
    BY <2>1, <2>2, ConcatProperties
  <2>4. /\ bufs'[k] = bufs[k] \o got /\ \A j \in DOMAIN fds : j # k => bufs'[j] = bufs[j]
        /\ stream'[c] = rest /\ \A d \in Clients : d # c => stream'[d] = stream[d]
    BY <1>7, <2>1, Buffers DEF LoopInv, TypeOK
  <2>5. bufs' \in Seq(Seq(Piece)) /\ Len(bufs') = Len(bufs)
    <3>1. bufs \in Seq(Seq(Piece)) /\ k \in 1 .. Len(bufs)
      BY <2>1 DEF LoopInv, TypeOK
    <3> QED BY <1>7, <2>3, <3>1, ExceptSeq
  <2>6. runs[c] = 0 /\ Part(bufs[k], c, 0, Len(bufs[k])) /\ Part(stream[c], c, Len(bufs[k]), Sent(c))
    <3>1. stream[c] # <<>>
      BY <2>1
    <3> QED BY <1>3, <3>1 DEF LoopInv, Traffic, Slots, Taken, Arriving
  <2>7. Sent(c) \in Int /\ Sent(c)' = Sent(c)
    BY <1>1, PiecesAssumption DEF LoopInv, TypeOK, Sent
  <2>8. /\ Part(got, c, Len(bufs[k]), Len(bufs[k]) + n)
        /\ Part(rest, c, Len(bufs[k]) + n, Sent(c))
    BY <2>1, <2>6, <2>7, PartSplit
  <2> HIDE DEF got, rest
  <2>9. Part(bufs[k] \o got, c, 0, Len(bufs[k]) + n)
    <3>1. 0 \in Nat /\ Len(bufs[k]) \in Nat /\ Len(bufs[k]) + n \in Int
      BY <2>1
    <3>2. bufs[k] \in Seq(Piece) /\ got \in Seq(Piece)
      BY <2>1, <2>2
    <3> QED BY <2>6, <2>8, <3>1, <3>2, PartConcat
  <2>10. TypeOK'
    <3>1. stream' \in [Clients -> Seq(Piece)]
      BY <1>7, <2>2 DEF LoopInv, TypeOK, rest
    <3>2. ready' \subseteq Range(fds') \cup {Server}
      BY <1>2, <1>5, <1>7
    <3> QED BY <1>1, <1>7, <2>5, <3>1, <3>2 DEF LoopInv, TypeOK
  <2>11. Distinct'
    BY <1>1, <1>7 DEF LoopInv, Traffic, Distinct
  <2>12. Queued'
    <3> SUFFICES ASSUME NEW j \in DOMAIN backlog
                 PROVE  (runs[backlog[j]] = 0 /\ Part(stream[backlog[j]], backlog[j], 0, Sent(backlog[j])))'
      BY <1>1 DEF Queued
    <3>1. backlog[j] # c /\ backlog[j] \in Clients
      BY <1>3 DEF LoopInv, TypeOK, Traffic, Distinct
    <3>2. runs[backlog[j]] = 0 /\ Part(stream[backlog[j]], backlog[j], 0, Sent(backlog[j]))
      BY DEF LoopInv, Traffic, Queued
    <3> QED BY <1>1, <2>4, <3>1, <3>2 DEF Part, Sent
  <2>13. Slots'
    <3> SUFFICES ASSUME NEW j \in DOMAIN fds
                 PROVE  (Taken(fds[j], bufs[j]) \/ Arriving(fds[j], bufs[j]))'
      BY <1>7 DEF Slots
    <3>1. CASE j = k
      <4>1. Part(bufs'[k], c, 0, Len(bufs'[k]))
        BY <2>3, <2>4, <2>9
      <4>2. Part(stream'[c], c, Len(bufs'[k]), Sent(c)')
        BY <2>3, <2>4, <2>7, <2>8
      <4> QED BY <1>1, <1>3, <1>7, <2>6, <3>1, <4>1, <4>2 DEF Arriving, Part
    <3>2. CASE j # k
      <4>1. fds[j] # c /\ fds[j] \in Clients
        BY <1>3, <3>2, Buffers DEF LoopInv, Traffic, Distinct
      <4>2. Taken(fds[j], bufs[j]) \/ Arriving(fds[j], bufs[j])
        BY DEF LoopInv, Traffic, Slots
      <4> QED BY <1>1, <1>7, <2>4, <3>2, <4>1, <4>2 DEF Taken, Arriving, Part, Sent
    <3> QED BY <3>1, <3>2
  <2>14. AtWork'
    BY <1>3, <1>4, <1>7 DEF AtWork, Range
  <2>15. StaysReady'
    BY <1>1, <1>2, <1>3, <1>5, <2>4 DEF LoopInv, Traffic, StaysReady, Closed
  <2>16. Answering' /\ AnswersGoToAsker' /\ Kept'
    BY <1>1, <1>7 DEF LoopInv, Answering, AnswersGoToAsker, Kept, Closed
  <2> QED BY <2>10, <2>11, <2>12, <2>13, <2>14, <2>15, <2>16 DEF LoopInv, Traffic
<1> QED BY <1>2, <1>3, <1>6, <1>7

(* The connection at work.                                                 *)
LEMMA ServingIs ==
  ASSUME LoopInv, pc \in {"lines", "command", "sync", "write"}
  PROVE  /\ asker \in Clients /\ Serving \in DOMAIN fds /\ fds[Serving] = asker
         /\ \A j \in DOMAIN fds : j # Serving => fds[j] # asker
         /\ \A j \in DOMAIN backlog : backlog[j] # asker
<1>1. \E k \in DOMAIN fds : fds[k] = asker
  BY DEF LoopInv, Traffic, AtWork, Range
<1>2. Serving \in DOMAIN fds /\ fds[Serving] = asker
  BY <1>1 DEF Serving
<1>3. asker \in Clients
  BY <1>2, Buffers DEF LoopInv
<1> QED BY <1>2, <1>3 DEF LoopInv, Traffic, Distinct

(* A whole line leaves the buffer of the client that wrote it.             *)
LEMMA TakeLineKeeps ==
  ASSUME LoopInv, TakeLine
  PROVE  LoopInv'
<1>1. /\ UNCHANGED <<cli, unsent, stream, answers, backlog, fds, ready, asker, mutex, thread,
                     list, file, unsaved, forfeit, runs>>
      /\ pc = "lines" /\ pc' = "command"
  BY DEF TakeLine, client, socket, store, saved
<1>2. PICK k \in DOMAIN fds : k = Serving
  BY <1>1, ServingIs
<1>3. /\ Complete(bufs[k])
      /\ line' = SubSeq(bufs[k], 1, LineEnd(bufs[k]))
      /\ bufs' = [bufs EXCEPT ![k] = RestAfter(bufs[k])]
  BY <1>2 DEF TakeLine
<1>4. PICK c \in Clients : c = asker /\ c = fds[k] /\ \A j \in DOMAIN fds : j # k => fds[j] # c
  BY <1>1, <1>2, ServingIs
<1>5. k \in 1 .. Len(bufs) /\ bufs[k] \in Seq(Piece) /\ Len(bufs[k]) \in Nat
  BY Buffers DEF LoopInv, TypeOK
<1>6. Arriving(c, bufs[k])
  <2>1. bufs[k] # <<>>
    BY <1>3 DEF Complete
  <2> QED BY <1>4, <2>1 DEF LoopInv, Traffic, Slots, Taken
<1>7. /\ stream[c] \in Seq(Piece) /\ Len(stream[c]) \in Nat
      /\ unsent[c] \in Nat /\ Pieces[c] \in Nat
  BY PiecesAssumption, LenProperties DEF LoopInv, TypeOK
<1>8. Len(stream[c]) = Pieces[c] - unsent[c] - Len(bufs[k])
  BY <1>5, <1>6, <1>7 DEF Arriving, Part, Sent
<1>9. /\ Len(bufs[k]) = Pieces[c]
      /\ line' = Line(c)
      /\ bufs' = [bufs EXCEPT ![k] = <<>>]
  <2>1. Len(bufs[k]) <= Pieces[c]
    BY <1>5, <1>7, <1>8
  <2>2. Part(bufs[k], c, 0, Len(bufs[k]))
    BY <1>6 DEF Arriving
  <2> QED BY <1>3, <1>5, <2>1, <2>2, WholeLine
<1>10. unsent[c] = 0 /\ Len(stream[c]) = 0
  BY <1>5, <1>7, <1>8, <1>9
<1>11. stream[c] = <<>>
  BY <1>7, <1>10, EmptySeq
<1>12. /\ bufs' \in Seq(Seq(Piece)) /\ Len(bufs') = Len(bufs)
       /\ bufs'[k] = <<>> /\ \A j \in DOMAIN fds : j # k => bufs'[j] = bufs[j]
  <2>1. bufs \in Seq(Seq(Piece)) /\ <<>> \in Seq(Piece)
    BY DEF LoopInv, TypeOK
  <2>2. \A j \in DOMAIN fds : j \in 1 .. Len(bufs)
    BY Buffers DEF LoopInv, TypeOK
  <2> QED BY <1>5, <1>9, <2>1, <2>2, ExceptSeq
<1>13. TypeOK'
  BY <1>1, <1>9, <1>12, LineAnswered DEF LoopInv, TypeOK
<1>14. Distinct' /\ Queued'
  BY <1>1 DEF LoopInv, Traffic, Distinct, Queued, Part, Sent
<1>15. Slots'
  <2> SUFFICES ASSUME NEW j \in DOMAIN fds
               PROVE  (Taken(fds[j], bufs[j]) \/ Arriving(fds[j], bufs[j]))'
    BY <1>1 DEF Slots
  <2>1. CASE j = k
    BY <1>1, <1>4, <1>10, <1>11, <1>12, <2>1 DEF Taken
  <2>2. CASE j # k
    <3>1. fds[j] # asker /\ bufs'[j] = bufs[j]
      BY <1>4, <1>12, <2>2
    <3>2. Taken(fds[j], bufs[j]) \/ Arriving(fds[j], bufs[j])
      BY DEF LoopInv, Traffic, Slots
    <3> QED BY <1>1, <3>1, <3>2 DEF Taken, Arriving, Part, Sent
  <2> QED BY <2>1, <2>2
<1>16. AtWork'
  <2>1. line' = Line(asker)' /\ runs'[asker'] = 0
    BY <1>1, <1>4, <1>6, <1>9 DEF Line, Arriving
  <2> QED BY <1>1, <2>1 DEF LoopInv, Traffic, AtWork
<1>17. StaysReady' /\ Answering' /\ AnswersGoToAsker' /\ Kept'
  BY <1>1 DEF LoopInv, Traffic, StaysReady, Answering, AnswersGoToAsker, Kept, Closed
<1> QED BY <1>13, <1>14, <1>15, <1>16, <1>17 DEF LoopInv, Traffic

LEMMA NoLineKeeps ==
  ASSUME LoopInv, NoLine
  PROVE  LoopInv'
<1>1. /\ UNCHANGED <<cli, unsent, stream, answers, backlog, fds, bufs, ready, line, mutex, thread,
                     list, file, unsaved, forfeit, runs>>
      /\ pc = "lines" /\ pc' = "serve" /\ asker' = Nobody
  BY DEF NoLine, client, socket, conns, store, saved
<1>2. TypeOK'
  BY <1>1 DEF LoopInv, TypeOK
<1>3. Distinct' /\ Queued' /\ Slots'
  BY <1>1, ConnectionsKept DEF LoopInv, Traffic, Cuts
<1>4. AtWork' /\ StaysReady' /\ Answering' /\ AnswersGoToAsker' /\ Kept'
  BY <1>1 DEF LoopInv, Traffic, AtWork, StaysReady, Answering, AnswersGoToAsker, Kept, Closed
<1> QED BY <1>2, <1>3, <1>4 DEF LoopInv, Traffic

(* The command is executed for the client it is answered to.               *)
LEMMA HandleCommandKeeps ==
  ASSUME LoopInv, HandleCommand
  PROVE  LoopInv'
<1>1. /\ UNCHANGED <<cli, unsent, stream, answers, backlog, fds, bufs, ready, line, asker, thread>>
      /\ pc = "command"
  BY DEF HandleCommand, client, socket, conns
<1>2. PICK c \in Clients : c = asker
  BY <1>1, ServingIs
<1>3. line = Line(c) /\ runs[c] = 0 /\ AnswerTo(line) = c /\ c # Nobody
  BY <1>1, <1>2, LineAnswered, NamesAssumption DEF LoopInv, Traffic, AtWork
<1>4. /\ runs' = [runs EXCEPT ![c] = runs[c] + 1]
      /\ list' = IF Command[c] = "ADD" THEN list \cup {c} ELSE list
      /\ Command[c] = "ADD" => Save(list \cup {c})
      /\ Command[c] # "ADD" => UNCHANGED saved
  BY <1>3 DEF HandleCommand, Execute
<1>0. SavedAs(list') /\ (Command[c] # "ADD" => UNCHANGED <<file, unsaved>>)
  BY <1>4, SaveFacts DEF saved, LoopInv, TypeOK
<1>5. /\ runs'[c] = 1 /\ \A d \in Clients : d # c => runs'[d] = runs[d]
      /\ runs' \in [Clients -> Nat]
  BY <1>3, <1>4 DEF LoopInv, TypeOK
<1>6. mutex' \in {"free", "loop", "thread"} /\ pc' \in {"sync", "write"}
  BY DEF HandleCommand, LoopInv, TypeOK
<1>7. TypeOK'
  BY <1>0, <1>1, <1>4, <1>5, <1>6 DEF LoopInv, TypeOK, SavedAs
<1>8. Distinct'
  BY <1>1 DEF LoopInv, Traffic, Distinct
<1>9. Queued'
  <2>1. \A k \in DOMAIN backlog : backlog[k] \in Clients /\ backlog[k] # c
    <3>1. \A k \in DOMAIN backlog : backlog[k] \in Clients
      BY DEF LoopInv, TypeOK
    <3>2. \A k \in DOMAIN backlog : backlog[k] # asker
      BY <1>1, ServingIs
    <3> QED BY <1>2, <3>1, <3>2
  <2> QED BY <1>1, <1>5, <2>1 DEF LoopInv, Traffic, Queued, Part, Sent
<1>10. unsent[c] = 0
  BY <1>1, <1>2, ServingIs DEF LoopInv, Traffic, Slots, Taken, Arriving
<1>11. Slots'
  <2> SUFFICES ASSUME NEW j \in DOMAIN fds
               PROVE  (Taken(fds[j], bufs[j]) \/ Arriving(fds[j], bufs[j]))'
    BY <1>1 DEF Slots
  <2>1. fds[j] \in Clients /\ (Taken(fds[j], bufs[j]) \/ Arriving(fds[j], bufs[j]))
    BY Buffers DEF LoopInv, Traffic, Slots
  <2>2. CASE fds[j] = c
    BY <1>1, <1>2, <1>5, <2>1, <2>2 DEF Taken, Arriving
  <2>3. CASE fds[j] # c
    BY <1>1, <1>2, <1>5, <1>6, <2>1, <2>3 DEF Taken, Arriving, Part, Sent
  <2> QED BY <2>2, <2>3
<1>12. AtWork'
  <2>1. line' = Line(asker)' /\ runs'[asker'] = 1 /\ asker' \in Range(fds)'
    <3>1. asker \in Range(fds)
      BY <1>1 DEF LoopInv, Traffic, AtWork
    <3>2. line' = line /\ asker' = c /\ fds' = fds
      BY <1>1, <1>2 DEF HandleCommand
    <3>3. Line(asker)' = Line(c)
      BY <3>2 DEF Line
    <3> QED BY <1>2, <1>3, <1>5, <3>1, <3>2, <3>3
  <2>2. Server \notin ready'
    BY <1>1 DEF LoopInv, Traffic, AtWork
  <2> QED BY <1>6, <2>1, <2>2 DEF AtWork
<1>13. StaysReady'
  BY <1>1 DEF LoopInv, Traffic, StaysReady, Closed
<1>14. Answering' /\ AnswersGoToAsker'
  BY <1>1, <1>5, <1>10 DEF LoopInv, Answering, AnswersGoToAsker, Closed
<1>15. Kept'
  <2>1. \A d \in Clients : d # c /\ d \in list => d \in list'
    BY <1>4
  <2>2. pc # "down" /\ pc' # "down"
    BY <1>1, <1>6
  <2>3. ASSUME NEW d \in Clients, runs'[d] = 1, Command[d] = "ADD", d \notin forfeit'
        PROVE  d \in list' /\ (~unsaved' => d \in file')
    <3>1. CASE d = c
      BY <1>0, <1>4, <2>3, <3>1 DEF SavedAs, Save
    <3>2. CASE d # c
      BY <1>0, <1>5, <2>1, <2>2, <2>3, <3>2 DEF SavedAs, LoopInv, Kept
    <3> QED BY <3>1, <3>2
  <2> QED BY <2>2, <2>3 DEF Kept
<1> QED BY <1>7, <1>8, <1>9, <1>11, <1>12, <1>13, <1>14, <1>15 DEF LoopInv, Traffic

(* The end of a round, the loop's or the thread's, and the thread's start. *)
LEMMA RoundsKeep ==
  ASSUME LoopInv, SyncDone \/ ThreadLocks \/ ThreadDone
  PROVE  LoopInv'
<1> USE DEF SyncDone, ThreadLocks, ThreadDone, ThreadFails, ThreadTruncates, ThreadSaves
<1>1. /\ UNCHANGED <<cli, unsent, stream, answers, backlog, fds, bufs, ready, line, asker,
                     list, runs>>
      /\ pc # "down" /\ (pc' = pc \/ (pc = "sync" /\ pc' = "write"))
  BY DEF daemonLoop, client, socket, conns, store, saved
<1>0. SavedAs(list)
  <2>1. CASE Save(list) \/ UNCHANGED saved
    BY <2>1, SaveFacts DEF LoopInv, TypeOK
  <2>2. CASE ThreadFails \/ ThreadTruncates
    BY <2>2 DEF SavedAs, LoopInv, TypeOK
  <2> QED BY <2>1, <2>2 DEF store
<1>2. mutex' \in {"free", "loop", "thread"} /\ thread' \in {"awake", "http", "saving"}
  BY DEF LoopInv, TypeOK
<1>3. TypeOK'
  BY <1>0, <1>1, <1>2 DEF LoopInv, TypeOK, SavedAs
<1>4. Distinct' /\ Queued' /\ Slots'
  BY <1>1, ConnectionsKept DEF LoopInv, Traffic, Cuts
<1>5. AtWork' /\ StaysReady'
  BY <1>1 DEF LoopInv, Traffic, AtWork, StaysReady, Closed, Line
<1>6. Answering' /\ AnswersGoToAsker'
  BY <1>1 DEF LoopInv, Answering, AnswersGoToAsker, Closed
<1>7. Kept'
  <2>1. pc' # "down"
    BY <1>1
  <2> QED BY <1>0, <1>1, <2>1, KeptBySaves DEF LoopInv
<1> QED BY <1>3, <1>4, <1>5, <1>6, <1>7 DEF LoopInv, Traffic

(* The answer reaches its connection, or nobody.                           *)
LEMMA WroteKeeps ==
  ASSUME LoopInv, pc = "write", Wrote,
         \/ UNCHANGED answers
         \/ ~Closed(asker) /\ answers' = [answers EXCEPT ![asker] = Append(@, AnswerTo(line))]
  PROVE  LoopInv'
<1>1. /\ UNCHANGED <<cli, unsent, stream, backlog, fds, bufs, ready, asker, mutex, thread,
                     list, file, unsaved, forfeit, runs>>
      /\ pc' = "lines" /\ line' = <<>>
  BY DEF Wrote, client, conns, store, saved
<1>2. PICK c \in Clients : c = asker
  BY ServingIs
<1>3. AnswerTo(line) = c /\ runs[c] = 1
  BY <1>2, LineAnswered DEF LoopInv, Traffic, AtWork
<1>4. \/ UNCHANGED answers
      \/ ~Closed(c) /\ answers' = [answers EXCEPT ![c] = Append(answers[c], c)]
  BY <1>2, <1>3
<1>5. answers[c] \in Seq(Clients \cup {Nobody}) /\ \A k \in DOMAIN answers[c] : answers[c][k] = c
  BY DEF LoopInv, TypeOK, AnswersGoToAsker
<1>6. /\ Append(answers[c], c) \in Seq(Clients \cup {Nobody})
      /\ \A k \in DOMAIN Append(answers[c], c) : Append(answers[c], c)[k] = c
  <2> DEFINE s == answers[c]
             t == Append(s, c)
  <2>1. s \in Seq(Clients \cup {Nobody}) /\ c \in Clients \cup {Nobody}
    BY <1>5
  <2>2. /\ t \in Seq(Clients \cup {Nobody}) /\ Len(t) = Len(s) + 1 /\ Len(s) \in Nat
        /\ \A i \in 1 .. Len(s) : t[i] = s[i]
        /\ t[Len(s) + 1] = c
    BY <2>1, AppendProperties, LenProperties
  <2>3. DOMAIN s = 1 .. Len(s) /\ DOMAIN t = 1 .. Len(s) + 1
    BY <2>1, <2>2, LenProperties
  <2> HIDE DEF s, t
  <2>4. \A k \in DOMAIN s : s[k] = c
    BY <1>5 DEF s
  <2>5. \A k \in DOMAIN t : t[k] = c
    BY <2>2, <2>3, <2>4
  <2> QED BY <2>2, <2>5 DEF s, t
<1>7. TypeOK'
  <2>1. answers' \in [Clients -> Seq(Clients \cup {Nobody})]
    <3>1. answers \in [Clients -> Seq(Clients \cup {Nobody})]
      BY DEF LoopInv, TypeOK
    <3> QED BY <1>4, <1>6, <3>1
  <2>2. line' \in Seq(Piece)
    BY <1>1
  <2> QED BY <1>1, <2>1, <2>2 DEF LoopInv, TypeOK
<1>8. Distinct' /\ Queued' /\ Slots'
  BY <1>1, ConnectionsKept DEF LoopInv, Traffic, Cuts
<1>9. AtWork' /\ StaysReady' /\ Kept'
  BY <1>1 DEF LoopInv, Traffic, AtWork, StaysReady, Kept, Closed
<1>10. Answering'
  BY <1>1, <1>3, <1>4 DEF LoopInv, TypeOK, Answering, Closed
<1>11. AnswersGoToAsker'
  BY <1>1, <1>4, <1>6 DEF LoopInv, TypeOK, AnswersGoToAsker
<1> QED BY <1>7, <1>8, <1>9, <1>10, <1>11 DEF LoopInv, Traffic

(* The daemon dies or comes back.                                          *)
LEMMA DeathKeeps ==
  ASSUME LoopInv, (pc # "down" /\ Die) \/ Restart
  PROVE  LoopInv'
<1>1. UNCHANGED <<cli, unsent, stream, answers, file, runs>>
  <2>1. CASE Die
    BY <2>1 DEF Die, client
  <2>2. CASE Restart
    BY <2>2 DEF Restart, client, socket, saved
  <2> QED BY <2>1, <2>2
<1>2. CASE pc # "down" /\ Die
  <2> USE <1>2 DEF Die
  <2>1. TypeOK'
    <3>1. /\ backlog' \in Seq(Clients) /\ fds' \in Seq(Clients) /\ bufs' \in Seq(Seq(Piece))
          /\ line' \in Seq(Piece) /\ Len(bufs') = Len(fds') /\ Len(fds') <= MaxClients
      BY MaxClientsAssumption
    <3>2. forfeit' \subseteq Clients
      BY DEF LoopInv, TypeOK
    <3>3. /\ pc' = "down" /\ ready' = {} /\ asker' = Nobody /\ mutex' = "free"
          /\ thread' = "awake" /\ list' = {} /\ unsaved' = FALSE
      OBVIOUS
    <3> HIDE <1>2 DEF Die
    <3> QED BY <1>1, <3>1, <3>2, <3>3 DEF LoopInv, TypeOK
  <2>2. Traffic'
    BY NamesAssumption DEF Traffic, Distinct, Queued, Slots, AtWork, StaysReady
  <2>3. Answering' /\ AnswersGoToAsker' /\ Kept'
    BY <1>1 DEF LoopInv, Answering, AnswersGoToAsker, Kept, TypeOK, Closed
  <2> QED BY <2>1, <2>2, <2>3 DEF LoopInv
<1>3. CASE Restart
  <2>1. /\ UNCHANGED <<backlog, fds, bufs, ready, line, asker, mutex, thread>>
        /\ UNCHANGED <<unsaved, forfeit>>
        /\ pc = "down" /\ pc' = "select" /\ list' = file
    BY <1>3 DEF Restart, socket, conns, saved
  <2>2. TypeOK'
    BY <1>1, <2>1 DEF LoopInv, TypeOK
  <2>3. Distinct' /\ Queued' /\ Slots'
    BY <1>1, <2>1, ConnectionsKept DEF LoopInv, Traffic, Cuts
  <2>4. AtWork' /\ StaysReady' /\ Answering' /\ AnswersGoToAsker' /\ Kept'
    BY <1>1, <2>1 DEF LoopInv, Traffic, AtWork, StaysReady, Answering, AnswersGoToAsker, Kept, Closed
  <2> QED BY <2>2, <2>3, <2>4 DEF LoopInv, Traffic
<1> QED BY <1>2, <1>3

-----------------------------------------------------------------------------
LEMMA LoopNext ==
  ASSUME LoopInv, [Next]_vars
  PROVE  LoopInv'
<1>1. CASE UNCHANGED vars
  <2>1. /\ UNCHANGED <<cli, unsent, stream, answers, backlog, fds, bufs, ready, pc, line, asker>>
        /\ UNCHANGED <<mutex, thread, list, file, unsaved, forfeit, runs>>
    BY <1>1 DEF vars, client, socket, conns, store, saved
  <2>2. TypeOK'
    BY <2>1 DEF LoopInv, TypeOK
  <2>3. Distinct' /\ Queued' /\ Slots'
    BY <2>1, ConnectionsKept DEF LoopInv, Traffic, Cuts
  <2>4. AtWork' /\ StaysReady' /\ Answering' /\ AnswersGoToAsker' /\ Kept'
    BY <2>1 DEF LoopInv, Traffic, AtWork, StaysReady, Answering, AnswersGoToAsker, Kept, Closed, Line
  <2> QED BY <2>2, <2>3, <2>4 DEF LoopInv, Traffic
<1>2. ASSUME NEW c \in Clients, Cli(c) \/ Leave(c) PROVE LoopInv'
  BY <1>2, ConnectKeeps, SendKeeps, LeavingKeeps DEF Cli
<1>3. CASE Select \/ Interrupted \/ CheckTimers \/ CheckTimersThenErrno \/ Served
  BY <1>3, SelectKeeps
<1>4. CASE Accept \/ Recv \/ TakeLine \/ NoLine \/ HandleCommand
  BY <1>4, AcceptKeeps, RecvKeeps, TakeLineKeeps, NoLineKeeps, HandleCommandKeeps
<1>5. CASE SyncDone \/ ThreadLocks \/ ThreadDone
  BY <1>5, RoundsKeep
<1>6. CASE WriteAnswer
  BY <1>6, WroteKeeps DEF WriteAnswer
<1>7. CASE WriteToNobody
  BY <1>7, WroteKeeps, DeathKeeps DEF WriteToNobody
<1>8. CASE Exit \/ Restart
  BY <1>8, DeathKeeps DEF Exit
<1> QED BY <1>1, <1>2, <1>3, <1>4, <1>5, <1>6, <1>7, <1>8 DEF Next, Loop

THEOREM LoopInvariant == Spec => []LoopInv
BY LoopInit, LoopNext, PTL DEF Spec

(* Every variable keeps to its type, client_fds and client_bufs have the   *)
(* same length, and that is never more than MAX_CLIENTS.                   *)
THEOREM LoopTypeCorrect == Spec => []TypeOK
<1>1. LoopInv => TypeOK
  BY DEF LoopInv
<1> QED BY <1>1, LoopInvariant, PTL

(* However connections come and go and lines are cut, no CLI is given the  *)
(* answer to another's command.                                            *)
THEOREM AnswersAreTheAskers == Spec => []AnswersGoToAsker
<1>1. LoopInv => AnswersGoToAsker
  BY DEF LoopInv
<1> QED BY <1>1, LoopInvariant, PTL

(* A command is executed at most once, and only when all of it was sent.   *)
THEOREM CommandsRunOnceAndWhole == Spec => []ExecutedOnceAndWhole
<1>1. LoopInv => ExecutedOnceAndWhole
  BY DEF LoopInv, Answering, ExecutedOnceAndWhole
<1> QED BY <1>1, LoopInvariant, PTL

(* A reminder whose ADD was answered outlives the daemon, however often    *)
(* that ends, unless its last save failed or was not finished: the answer  *)
(* is written after the save, and every later save is of a list that still *)
(* has the reminder.                                                       *)
THEOREM AnsweredAddsAreKept == Spec => []AnsweredAddsSurvive
<1>1. LoopInv => AnsweredAddsSurvive
  BY DEF LoopInv, Answering, Kept, AnsweredAddsSurvive
<1> QED BY <1>1, LoopInvariant, PTL

(* A CLI that waits for its answer keeps its connection, unless it found   *)
(* the table full: what select reported ready was not read before its turn *)
(* came.                                                                   *)
THEOREM WaitingClientsAreKept == Spec => NeverHangsUp
<1> DEFINE Waits(c) == cli[c] = "open" /\ Held(c) /\ pc' # "down"
<1>1. ASSUME LoopInv, [Next]_vars, NEW c \in Clients, Waits(c)
      PROVE  Held(c)' \/ Len(fds) = MaxClients
  <2>1. CASE UNCHANGED <<fds, backlog>>
    BY <1>1, <2>1 DEF Held, Range
  <2>2. ASSUME NEW d \in Clients, Connect(d) PROVE Held(c)'
    <3>1. backlog \in Seq(Clients) /\ backlog' = Append(backlog, d) /\ UNCHANGED fds
      BY <1>1, <2>2 DEF Connect, conns, LoopInv, TypeOK
    <3>2. \A j \in DOMAIN backlog : j \in DOMAIN backlog' /\ backlog'[j] = backlog[j]
      BY <3>1
    <3> QED BY <1>1, <3>1, <3>2 DEF Held, Range
  <2>3. CASE Accept
    <3>1. backlog' = Tail(backlog) /\ backlog \in Seq(Clients) /\ backlog # <<>>
      BY <1>1, <2>3 DEF Accept, LoopInv, TypeOK, Traffic, AtWork
    <3>2. fds \in Seq(Clients) /\ Len(fds) \in Nat /\ Len(fds) <= MaxClients
      BY <1>1 DEF LoopInv, TypeOK
    <3>3. CASE Len(fds) < MaxClients /\ fds' = Append(fds, Head(backlog))
      <4>1. Len(fds) + 1 \in DOMAIN fds' /\ fds'[Len(fds) + 1] = Head(backlog)
            /\ \A j \in DOMAIN fds : j \in DOMAIN fds' /\ fds'[j] = fds[j]
        BY <3>1, <3>2, <3>3
      <4>2. \A j \in DOMAIN backlog : backlog[j] = Head(backlog) \/ \E k \in DOMAIN backlog' : backlog'[k] = backlog[j]
        <5> SUFFICES ASSUME NEW j \in DOMAIN backlog, j # 1
                     PROVE  \E k \in DOMAIN backlog' : backlog'[k] = backlog[j]
          BY <3>1
        <5>1. j - 1 \in DOMAIN backlog' /\ backlog'[j - 1] = backlog[j]
          BY <3>1
        <5> QED BY <5>1
      <4> QED BY <1>1, <4>1, <4>2 DEF Held, Range
    <3>4. CASE ~(Len(fds) < MaxClients)
      BY <3>2, <3>4, MaxClientsAssumption
    <3> QED BY <2>3, <3>3, <3>4 DEF Accept
  <2>4. CASE Recv
    <3>1. UNCHANGED backlog
      BY <2>4 DEF Recv
    <3>2. PICK k \in DOMAIN fds :
            /\ fds[k] \in ready
            /\ UNCHANGED fds \/ (stream[fds[k]] = <<>> /\ HangUp(k))
      BY <2>4 DEF Recv, ServesNext
    <3>3. CASE UNCHANGED fds
      BY <2>1, <3>1, <3>3
    <3>4. CASE stream[fds[k]] = <<>> /\ HangUp(k)
      <4>1. fds[k] # Server
        BY <1>1, NamesAssumption, Buffers DEF LoopInv
      <4>2. Closed(fds[k])
        BY <1>1, <3>2, <3>4, <4>1 DEF LoopInv, Traffic, StaysReady
      <4>3. fds[k] # c
        BY <1>1, <4>2 DEF Closed
      <4>4. Range(fds') = Range(fds) \ {fds[k]}
        BY <1>1, <3>4, HangUpRemoves DEF LoopInv, Traffic
      <4> QED BY <1>1, <3>1, <4>3, <4>4 DEF Held, Range
    <3> QED BY <3>2, <3>3, <3>4
  <2>5. CASE WriteToNobody
    <3>1. UNCHANGED <<fds, backlog>>
      BY <1>1, <2>5 DEF WriteToNobody, Die, Wrote, conns
    <3> QED BY <2>1, <3>1
  <2> QED BY <1>1, <2>1, <2>2, <2>3, <2>4, <2>5 DEF Next, Loop, Cli, vars, socket, conns, loop,
       daemonLoop, Refused, Send, Read, Eof, Leave, Select, Interrupted, CheckTimers,
       CheckTimersThenErrno, Served, Exit, Die, TakeLine, NoLine, HandleCommand, SyncDone,
       WriteAnswer, Wrote, Restart, ThreadLocks, ThreadDone
<1>2. LoopInv /\ [Next]_vars =>
        \A c \in Clients : Waits(c) => Held(c)' \/ Len(fds) = MaxClients
  BY <1>1
<1>3. LoopInv /\ [Next]_vars =>
        [\A c \in Clients :
           cli[c] = "open" /\ Held(c) /\ pc' # "down" => Held(c)' \/ Len(fds) = MaxClients]_vars
  BY <1>2
<1> QED BY <1>3, LoopInvariant, PTL DEF Spec, NeverHangsUp

=============================================================================
