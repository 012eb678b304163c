------------------------------ MODULE EventLoop ------------------------------
(***************************************************************************)
(* How `remind` and reminderd talk: one CLI process per command, a Unix    *)
(* stream socket each, and on the other side one thread that waits in      *)
(* select(), fires timers, accepts, reads, executes and answers, while a   *)
(* second thread contends with it for g_reminders_mutex to sync.           *)
(*                                                                         *)
(* A command is a line.  The loop reads what has arrived, which may be     *)
(* less than a line, so a line travels in pieces; the last one carries the *)
(* newline.  What a command does to a reminder is RemindrSync's subject:   *)
(* here ADD stands for those that change the list, LIST for those that do  *)
(* not, SYNC for the one that calls the API from within the loop.          *)
(*                                                                         *)
(* save_reminders truncates reminders_v2.json and writes it again, and     *)
(* nobody looks at its result: a save can fail, or be cut off by the end   *)
(* of the process, and a file cut off reads as an empty store.             *)
(*                                                                         *)
(* Sockets hold what is written to them: an answer never fills one, since  *)
(* each client reads its single answer.  g_sync_requested only shortens a  *)
(* sleep that ends anyway, so the sync thread here may wake at any time.   *)
(***************************************************************************)
EXTENDS Naturals, Sequences, FiniteSets, SequencesExt

CONSTANTS
  Clients,     \* BOUND: runs of the CLI at a time, one command each
  Command,     \* what each sends: "ADD", "LIST" or "SYNC"
  Pieces,      \* in how many pieces its line arrives
  Impatient,   \* BOUND: those whose user may interrupt them
  MaxClients,  \* connections the loop keeps
  Server,      \* the listening socket, among the descriptors select watches
  Nobody       \* no client

ASSUME CommandAssumption == Command \in [Clients -> {"ADD", "LIST", "SYNC"}]
ASSUME PiecesAssumption == Pieces \in [Clients -> Nat \ {0}]
ASSUME MaxClientsAssumption == MaxClients \in Nat \ {0}
ASSUME NamesAssumption == Server \notin Clients /\ Nobody \notin Clients /\ Server # Nobody

VARIABLES
  cli,       \* where each CLI process is
  unsent,    \* pieces of its line it has still to write
  stream,    \* per connection, what was written and not yet received
  answers,   \* per connection, what the daemon wrote and the CLI has yet to read
  backlog,   \* connections the kernel queues for accept
  fds,       \* client_fds
  bufs,      \* client_bufs
  ready,     \* what the last select reported, less what was served since
  pc,        \* where the loop is
  line,      \* the command it is executing, as pieces
  asker,     \* who sent it
  mutex,     \* who has g_reminders_mutex
  thread,    \* where the sync thread is
  list,      \* whose reminders g_reminders has
  file,      \* whose reminders are in reminders_v2.json
  unsaved,   \* the last save failed, or is not finished (history)
  forfeit,   \* whose reminders were in the list when a daemon ended so (history)
  runs       \* how often each client's command was executed (history)

client == <<cli, unsent>>
socket == <<stream, answers, backlog>>
conns  == <<fds, bufs>>
saved  == <<file, unsaved, forfeit>>
store  == <<list, saved, runs>>
vars == <<client, socket, conns, ready, pc, line, asker, mutex, thread, store>>

-----------------------------------------------------------------------------
Piece == [from: Clients, n: Nat]

Line(c) == [k \in 1 .. Pieces[c] |-> [from |-> c, n |-> k]]

Newline(p) == p.n = Pieces[p.from]

Complete(buf) == \E k \in DOMAIN buf : Newline(buf[k])

(* Where the first line of buf ends.                                       *)
LineEnd(buf) == CHOOSE k \in DOMAIN buf :
  Newline(buf[k]) /\ \A j \in 1 .. k - 1 : ~Newline(buf[j])

(* Whose connection is still on the daemon's side of the socket.           *)
Held(c) == c \in Range(backlog) \cup Range(fds)

(* The CLI has closed its end.                                             *)
Closed(c) == cli[c] # "open"

Readable(c) == stream[c] # <<>> \/ Closed(c)

(* The answer to a line: the client whose command it is, or nobody's if it *)
(* does not parse.                                                         *)
AnswerTo(l) == IF \E c \in Clients : l = Line(c) THEN l[1].from ELSE Nobody

Init ==
  /\ cli = [c \in Clients |-> "idle"]
  /\ unsent = [c \in Clients |-> 0]
  /\ stream = [c \in Clients |-> <<>>]
  /\ answers = [c \in Clients |-> <<>>]
  /\ backlog = <<>>
  /\ fds = <<>>
  /\ bufs = <<>>
  /\ ready = {}
  /\ pc = "select"
  /\ line = <<>>
  /\ asker = Nobody
  /\ mutex = "free"
  /\ thread = "awake"
  /\ list = {}
  /\ file = {}
  /\ unsaved = FALSE
  /\ forfeit = {}
  /\ runs = [c \in Clients |-> 0]

-----------------------------------------------------------------------------
(* The CLI.                                                                *)

loop == <<conns, ready, pc, line, asker, mutex, thread, store>>

(* A new run of the CLI, with a connection and a reminder of its own.      *)
Connect(c) ==
  /\ Closed(c)
  /\ ~Held(c)
  /\ pc # "down"
  /\ cli' = [cli EXCEPT ![c] = "open"]
  /\ unsent' = [unsent EXCEPT ![c] = Pieces[c]]
  /\ stream' = [stream EXCEPT ![c] = <<>>]
  /\ backlog' = Append(backlog, c)
  /\ list' = list \ {c}
  /\ file' = file \ {c}
  /\ forfeit' = forfeit \ {c}
  /\ runs' = [runs EXCEPT ![c] = 0]
  /\ UNCHANGED <<unsaved, answers, conns, ready, pc, line, asker, mutex, thread>>

(* "reminderd is not running."                                             *)
Refused(c) ==
  /\ Closed(c)
  /\ pc = "down"
  /\ cli' = [cli EXCEPT ![c] = "idle"]
  /\ UNCHANGED <<unsent, socket, loop>>

Send(c) ==
  /\ cli[c] = "open"
  /\ unsent[c] > 0
  /\ Held(c)
  /\ stream' = [stream EXCEPT ![c] =
                  Append(@, [from |-> c, n |-> Pieces[c] - unsent[c] + 1])]
  /\ unsent' = [unsent EXCEPT ![c] = @ - 1]
  /\ UNCHANGED <<cli, answers, backlog, loop>>

(* The CLI reads one answer and closes.                                    *)
Read(c) ==
  /\ cli[c] = "open"
  /\ unsent[c] = 0
  /\ answers[c] # <<>>
  /\ cli' = [cli EXCEPT ![c] = IF Head(answers[c]) = c THEN "answered" ELSE "confused"]
  /\ answers' = [answers EXCEPT ![c] = <<>>]
  /\ UNCHANGED <<unsent, stream, backlog, loop>>

(* End of file, or a write to a socket closed by the daemon.               *)
Eof(c) ==
  /\ cli[c] = "open"
  /\ ~Held(c)
  /\ answers[c] = <<>>
  /\ cli' = [cli EXCEPT ![c] = "idle"]
  /\ UNCHANGED <<unsent, socket, loop>>

(* The user interrupts it.                                                 *)
Leave(c) ==
  /\ c \in Impatient
  /\ cli[c] = "open"
  /\ cli' = [cli EXCEPT ![c] = "idle"]
  /\ answers' = [answers EXCEPT ![c] = <<>>]
  /\ UNCHANGED <<unsent, stream, backlog, loop>>

-----------------------------------------------------------------------------
(* The loop.                                                               *)

ReadySetSkippingLast ==
  {fds[k] : k \in {j \in 1 .. Len(fds) - 1 : Readable(fds[j])}}
    \cup (IF backlog # <<>> THEN {Server} ELSE {})

ReadySet ==
  {fds[k] : k \in {j \in DOMAIN fds : Readable(fds[j])}}
    \cup (IF backlog # <<>> THEN {Server} ELSE {})

SelectWithTimersOnTimeout ==
  /\ pc = "select"
  /\ ready' = ReadySet
  /\ pc' = IF ReadySet = {} THEN "timers"
           ELSE IF Server \in ReadySet THEN "accept" ELSE "serve"
  /\ UNCHANGED <<client, socket, conns, line, asker, mutex, thread, store>>

(* select returns what is ready, or nothing: the second is over.           *)
Select ==
  /\ pc = "select"
  /\ ready' = ReadySet
  /\ pc' = "timers"
  /\ UNCHANGED <<client, socket, conns, line, asker, mutex, thread, store>>

(* select fails: a signal interrupts it, or it returns another error.      *)
Interrupted ==
  /\ pc = "select"
  /\ ready' = {}
  /\ pc' = "failed"
  /\ UNCHANGED <<client, socket, conns, line, asker, mutex, thread, store>>

(* save_reminders: the file holds the list; or it could not be opened; or  *)
(* the write failed and left it cut off.                                   *)
Save(l) ==
  /\ \/ file' = l /\ unsaved' = FALSE
     \/ file' \in {file, {}} /\ unsaved' = TRUE
  /\ UNCHANGED forfeit

(* The process ends: the kernel closes its sockets, and both threads die.  *)
(* A save the sync thread is in stays where it got to.                     *)
Die ==
  /\ pc' = "down"
  /\ fds' = <<>>
  /\ bufs' = <<>>
  /\ backlog' = <<>>
  /\ ready' = {}
  /\ line' = <<>>
  /\ asker' = Nobody
  /\ mutex' = "free"
  /\ thread' = "awake"
  /\ list' = {}
  /\ unsaved' = FALSE
  /\ forfeit' = IF unsaved THEN forfeit \cup list ELSE forfeit
  /\ UNCHANGED <<client, stream, answers, file, runs>>

(* check_timers has the mutex for no longer than it runs, and saves the    *)
(* list if a reminder was due.                                             *)
Timers ==
  /\ mutex = "free"
  /\ UNCHANGED saved \/ (list # {} /\ Save(list))

AfterTimers ==
  IF ready = {} THEN "select" ELSE IF Server \in ready THEN "accept" ELSE "serve"

CheckTimers ==
  /\ pc = "timers"
  /\ Timers
  /\ pc' = AfterTimers
  /\ UNCHANGED <<client, socket, conns, ready, line, asker, mutex, thread, list, runs>>

(* After a failed select errno is looked at only when the timers have      *)
(* been checked, which may have changed it: the loop goes on with EINTR    *)
(* alone, and main returns otherwise.                                      *)
CheckTimersThenErrno ==
  /\ pc = "failed"
  /\ Timers
  /\ pc' \in {"select", "exit"}
  /\ UNCHANGED <<client, socket, conns, ready, line, asker, mutex, thread, list, runs>>

Exit == pc = "exit" /\ Die

AcceptBeyond ==
  /\ pc = "accept"
  /\ backlog' = Tail(backlog)
  /\ fds' = Append(fds, Head(backlog))
  /\ bufs' = Append(bufs, <<>>)
  /\ ready' = ready \ {Server}
  /\ pc' = "serve"
  /\ UNCHANGED <<client, stream, answers, line, asker, mutex, thread, store>>

(* One connection an iteration; its descriptor is not in this one's set.   *)
(* One too many is closed at once, unread.                                 *)
Accept ==
  /\ pc = "accept"
  /\ backlog' = Tail(backlog)
  /\ IF Len(fds) < MaxClients
     THEN fds' = Append(fds, Head(backlog)) /\ bufs' = Append(bufs, <<>>)
     ELSE UNCHANGED conns
  /\ ready' = ready \ {Server}
  /\ pc' = "serve"
  /\ UNCHANGED <<client, stream, answers, line, asker, mutex, thread, store>>

(* The loop serves the ready connections in the order of client_fds.       *)
ServesNext(k) == fds[k] \in ready /\ \A j \in 1 .. k - 1 : fds[j] \notin ready

Served ==
  /\ pc = "serve"
  /\ ready = {}
  /\ pc' = "select"
  /\ UNCHANGED <<client, socket, conns, ready, line, asker, mutex, thread, store>>

DropLastBuffer(k) ==
  /\ fds' = RemoveAt(fds, k)
  /\ bufs' = Front(bufs)

(* close, and both vectors erased at the same index.                       *)
HangUp(k) ==
  /\ fds' = RemoveAt(fds, k)
  /\ bufs' = RemoveAt(bufs, k)

(* recv on the next ready connection: some of what has arrived, or 0.      *)
Recv ==
  /\ pc = "serve"
  /\ \E k \in DOMAIN fds :
       LET c == fds[k]
       IN  /\ ServesNext(k)
           /\ ready' = ready \ {c}
           /\ \/ /\ stream[c] = <<>>
                 /\ HangUp(k)
                 /\ UNCHANGED <<stream, pc, asker>>
              \/ \E n \in 1 .. Len(stream[c]) :
                   /\ bufs' = [bufs EXCEPT ![k] = @ \o SubSeq(stream[c], 1, n)]
                   /\ stream' = [stream EXCEPT ![c] = SubSeq(@, n + 1, Len(@))]
                   /\ asker' = c
                   /\ pc' = "lines"
                   /\ UNCHANGED fds
  /\ UNCHANGED <<client, answers, backlog, line, mutex, thread, store>>

(* The index of the connection being served.                               *)
Serving == CHOOSE k \in DOMAIN fds : fds[k] = asker

RestAfterKeepingLine(buf) == buf

RestAfter(buf) == SubSeq(buf, LineEnd(buf) + 1, Len(buf))

(* The first line of its buffer becomes the command.                       *)
TakeLine ==
  /\ pc = "lines"
  /\ Complete(bufs[Serving])
  /\ line' = SubSeq(bufs[Serving], 1, LineEnd(bufs[Serving]))
  /\ bufs' = [bufs EXCEPT ![Serving] = RestAfter(@)]
  /\ pc' = "command"
  /\ UNCHANGED <<client, socket, fds, ready, asker, mutex, thread, store>>

NoLineSoHangUp ==
  /\ pc = "lines"
  /\ ~Complete(bufs[Serving])
  /\ HangUp(Serving)
  /\ asker' = Nobody
  /\ pc' = "serve"
  /\ UNCHANGED <<client, socket, ready, line, mutex, thread, store>>

(* What is left waits for its newline.                                     *)
NoLine ==
  /\ pc = "lines"
  /\ ~Complete(bufs[Serving])
  /\ asker' = Nobody
  /\ pc' = "serve"
  /\ UNCHANGED <<client, socket, conns, ready, line, mutex, thread, store>>

ExecuteUnsaved(c) ==
  /\ runs' = [runs EXCEPT ![c] = @ + 1]
  /\ list' = IF Command[c] = "ADD" THEN list \cup {c} ELSE list
  /\ UNCHANGED saved

(* What handle_command does to the list.  A change is saved before the     *)
(* answer is made, which is the same if the save fails.                    *)
Execute(c) ==
  /\ runs' = [runs EXCEPT ![c] = @ + 1]
  /\ IF Command[c] = "ADD"
     THEN list' = list \cup {c} /\ Save(list \cup {c})
     ELSE UNCHANGED <<list, saved>>

(* handle_command, under the mutex.  SYNC keeps it for its HTTP requests.  *)
HandleCommand ==
  /\ pc = "command"
  /\ mutex = "free"
  /\ IF AnswerTo(line) = Nobody THEN UNCHANGED store ELSE Execute(AnswerTo(line))
  /\ IF AnswerTo(line) # Nobody /\ Command[AnswerTo(line)] = "SYNC"
     THEN mutex' = "loop" /\ pc' = "sync"
     ELSE UNCHANGED mutex /\ pc' = "write"
  /\ UNCHANGED <<client, socket, conns, ready, line, asker, thread>>

(* The round ends, or fails, or there were no credentials: the list is     *)
(* saved if it succeeded.                                                  *)
SyncDone ==
  /\ pc = "sync"
  /\ mutex' = "free"
  /\ pc' = "write"
  /\ UNCHANGED saved \/ Save(list)
  /\ UNCHANGED <<client, socket, conns, ready, line, asker, thread, list, runs>>

Wrote ==
  /\ line' = <<>>
  /\ pc' = "lines"
  /\ UNCHANGED <<client, stream, backlog, conns, ready, asker, mutex, thread, store>>

(* write_line(fd, resp).                                                   *)
WriteAnswer ==
  /\ pc = "write"
  /\ ~Closed(asker)
  /\ answers' = [answers EXCEPT ![asker] = Append(@, AnswerTo(line))]
  /\ Wrote

(* The client is gone: SIGPIPE, which nobody ignores but libcurl, while it *)
(* performs a request on the sync thread.                                  *)
WriteToNobody ==
  /\ pc = "write"
  /\ Closed(asker)
  /\ \/ Die
     \/ thread = "http" /\ UNCHANGED answers /\ Wrote

(* launchd and systemd start it again; it loads the list.                  *)
Restart ==
  /\ pc = "down"
  /\ pc' = "select"
  /\ list' = file
  /\ UNCHANGED <<client, socket, conns, ready, line, asker, mutex, thread, saved, runs>>

-----------------------------------------------------------------------------
(* The sync thread.                                                        *)

daemonLoop == <<client, socket, conns, ready, line, asker, pc>>

(* Nobody is logged in, and it sleeps again, or it waits for the mutex and *)
(* makes its requests with it.                                             *)
ThreadLocks ==
  /\ pc # "down"
  /\ thread = "awake"
  /\ mutex = "free"
  /\ mutex' = "thread"
  /\ thread' = "http"
  /\ UNCHANGED <<daemonLoop, store>>

(* The round failed, or its save could not open the file.                  *)
ThreadFails ==
  /\ thread = "http"
  /\ mutex' = "free"
  /\ thread' = "awake"
  /\ UNCHANGED <<file, forfeit>>
  /\ unsaved' \in {unsaved, TRUE}

(* The round succeeded: the save opens the file, which truncates it ...    *)
ThreadTruncates ==
  /\ thread = "http"
  /\ thread' = "saving"
  /\ file' = {}
  /\ unsaved' = TRUE
  /\ UNCHANGED <<mutex, forfeit>>

(* ... and writes it.                                                      *)
ThreadSaves ==
  /\ thread = "saving"
  /\ mutex' = "free"
  /\ thread' = "awake"
  /\ Save(list)

ThreadDone ==
  /\ pc # "down"
  /\ ThreadFails \/ ThreadTruncates \/ ThreadSaves
  /\ UNCHANGED <<daemonLoop, list, runs>>

-----------------------------------------------------------------------------
Cli(c) == Connect(c) \/ Refused(c) \/ Send(c) \/ Read(c) \/ Eof(c)

Loop ==
  \/ Select \/ CheckTimers \/ CheckTimersThenErrno \/ Exit \/ Accept \/ Recv \/ Served \/ TakeLine \/ NoLine
  \/ HandleCommand \/ SyncDone \/ WriteAnswer \/ WriteToNobody

Next ==
  \/ \E c \in Clients : Cli(c) \/ Leave(c)
  \/ Loop \/ Interrupted \/ Restart
  \/ ThreadLocks \/ ThreadDone

Spec == Init /\ [][Next]_vars

(***************************************************************************)
(* Fairness.  A CLI that is not interrupted writes its line and reads.     *)
(* The loop waits for nothing but the mutex, and gets it although the      *)
(* sync thread wants it too: that thread sleeps up to a minute after each  *)
(* round.  An interrupted select is tried again.  A round ends, by its     *)
(* timeouts at the latest, and the service manager restarts the daemon.    *)
(***************************************************************************)
Fairness ==
  /\ \A c \in Clients : WF_vars(Send(c) \/ Read(c) \/ Eof(c))
  /\ SF_vars(Loop)
  /\ SF_vars(Select)
  /\ WF_vars(ThreadDone)
  /\ WF_vars(Restart)

FairSpec == Spec /\ Fairness

-----------------------------------------------------------------------------
(* Every variable keeps to its type; client_fds and client_bufs go         *)
(* together, and never exceed MAX_CLIENTS.                                 *)
TypeOK ==
  /\ cli \in [Clients -> {"idle", "open", "answered", "confused"}]
  /\ unsent \in [Clients -> Nat]
  /\ stream \in [Clients -> Seq(Piece)]
  /\ answers \in [Clients -> Seq(Clients \cup {Nobody})]
  /\ backlog \in Seq(Clients)
  /\ fds \in Seq(Clients)
  /\ bufs \in Seq(Seq(Piece))
  /\ Len(bufs) = Len(fds)
  /\ Len(fds) <= MaxClients
  /\ ready \subseteq Range(fds) \cup {Server}
  /\ pc \in {"select", "timers", "failed", "exit", "accept", "serve", "lines", "command", "sync",
             "write", "down"}
  /\ line \in Seq(Piece)
  /\ asker \in Clients \cup {Nobody}
  /\ mutex \in {"free", "loop", "thread"}
  /\ thread \in {"awake", "http", "saving"}
  /\ list \subseteq Clients
  /\ file \subseteq Clients
  /\ unsaved \in BOOLEAN
  /\ forfeit \subseteq Clients
  /\ runs \in [Clients -> Nat]

(***************************************************************************)
(* Safety.                                                                 *)
(***************************************************************************)

(* However lines are cut, connections come and go and descriptors move     *)
(* down in client_fds, each CLI is answered for its own command.           *)
AnswersGoToAsker ==
  \A c \in Clients :
    /\ cli[c] # "confused"
    /\ \A k \in DOMAIN answers[c] : answers[c][k] = c

(* A command is executed at most once, and never before all of it was      *)
(* sent: a CLI that is interrupted halfway changes nothing, one that is    *)
(* interrupted later changes the list once.                                *)
ExecutedOnceAndWhole ==
  \A c \in Clients :
    /\ runs[c] <= 1
    /\ runs[c] = 1 => unsent[c] = 0
    /\ cli[c] = "answered" => runs[c] = 1

(* A reminder whose ADD was answered is in the list of the daemon, through *)
(* any number of ends and restarts, and in its file whenever the last save *)
(* went well.  Nothing takes it but an end that comes after a failed save  *)
(* and before one that succeeds, or in the middle of one.                  *)
AnsweredAddsSurvive ==
  \A c \in Clients :
    cli[c] = "answered" /\ Command[c] = "ADD" /\ c \notin forfeit =>
      /\ pc # "down" => c \in list
      /\ ~unsaved => c \in file

(* The loop never hangs up on a CLI that is waiting, unless the table of   *)
(* connections is full.                                                    *)
NeverHangsUp ==
  [][\A c \in Clients :
       cli[c] = "open" /\ Held(c) /\ pc' # "down" =>
         Held(c)' \/ Len(fds) = MaxClients]_vars

(***************************************************************************)
(* Liveness.                                                               *)
(***************************************************************************)

(* No CLI waits for ever: it is answered or told that it will not be.      *)
EveryCommandSettled == \A c \in Clients : []<>(cli[c] # "open")

(* The timers are checked again and again, whatever syncs, commands and    *)
(* crashes come between.                                                   *)
TimersKeepTicking == []<>(pc = "timers") /\ []<>(pc = "select")
=============================================================================
