------------------------------ MODULE LogFiles ------------------------------
(***************************************************************************)
(* The log files of one process, for one of its two streams: out.log, its  *)
(* numbered rotations and its dated ones, written by the LogWriter of each *)
(* run of the process.  A writer that is dropped loses what it had not     *)
(* fetched, but a write or a daily rotation that it had handed to a        *)
(* blocking thread goes on beside its successor.                           *)
(*                                                                         *)
(* Lines are numbered as the process prints them.  An open file is known   *)
(* by its inode, which outlives its name.                                  *)
(***************************************************************************)
EXTENDS Integers, Sequences

CONSTANTS
  MaxLines,    \* bound: lines printed
  MaxWriters,  \* bound: runs of the process
  MaxSize,     \* lines after which a file is rotated (max_log_size_mb)
  MaxFiles,    \* numbered rotations that are kept (5)
  MaxQueue,    \* lines the channel holds for a writer (1024)
  MaxDates,    \* bound: dates
  KeepDates,   \* days a dated rotation is kept (30)
  MaxErrors    \* bound: failing file operations

VARIABLES
  log, numbered, dated,  \* inodes of out.log, out.log.i and out.log.date; 0 is none
  dir,       \* the process's log directory exists
  data,      \* the lines in each inode
  inodes,    \* inodes created so far
  phase,     \* the process: "down", "up", or "claimed" by an automatic restart
  writers,   \* each LogWriter: its file handle, its channel and its jobs
  live,      \* the writer of the running process, 0 for none
  deletion,  \* of the log directory: "none", "asked" or "done"
  printed,   \* lines printed so far
  today,     \* the date
  lost,      \* history: lines that may be missing
  beside,    \* history: two writers had the files open at the same time
  errors     \* failures so far

ASSUME LogAssumption ==
  /\ {MaxLines, MaxWriters, KeepDates, MaxErrors} \subseteq Nat
  /\ {MaxSize, MaxFiles, MaxQueue, MaxDates} \subseteq Nat \ {0}

logVars == <<log, numbered, dated, dir, data, inodes, phase, writers, live,
             deletion, printed, today, lost, beside, errors>>
fileVars == <<log, numbered, dated, dir, data, inodes>>

Inodes  == 1..(MaxWriters + MaxLines + MaxDates)
Room    == inodes + 1 \in Inodes    \* bound; the runs never reach it
Writers == 1..MaxWriters
Closed  == [inode |-> 0, written |-> 0, queue |-> <<>>, job |-> 0, turn |-> 0]
LinesOf(s) == {s[i] : i \in DOMAIN s}
Content(i) == IF i = 0 THEN <<>> ELSE data[i]
Named      == {log} \union {numbered[i] : i \in 1..MaxFiles}
                    \union {dated[d] : d \in 1..MaxDates}

LogTypeOK ==
  /\ {log} \union Named \subseteq Inodes \union {0} /\ inodes \in 0..Len(data)
  /\ phase \in {"down", "up", "claimed"} /\ live \in Writers \union {0}
  /\ lost \subseteq 1..MaxLines /\ printed \in 0..MaxLines
  /\ today \in 1..MaxDates /\ {dir, beside} \subseteq BOOLEAN
  /\ deletion \in {"none", "asked", "done"}

LogInit ==
  /\ log = 0 /\ numbered = [i \in 1..MaxFiles |-> 0]
  /\ dated = [d \in 1..MaxDates |-> 0] /\ dir = FALSE
  /\ data = [i \in Inodes |-> <<>>] /\ inodes = 0
  /\ phase = "down" /\ writers = [w \in Writers |-> Closed] /\ live = 0
  /\ deletion = "none" /\ printed = 0 /\ today = 1 /\ lost = {} /\ beside = FALSE
  /\ errors = 0

Error   == errors < MaxErrors /\ errors' = errors + 1
NoError == UNCHANGED errors

-----------------------------------------------------------------------------
(* FileHandle::open: the directory is made, out.log is appended to.  A      *)
(* request to start waits for a deletion under way, a restart does not.     *)
NewWriter(w) ==
  /\ live = 0 /\ writers[w] = Closed /\ \A v \in 1..(w - 1) : writers[v] # Closed
  /\ phase = "claimed" \/ (phase = "down" /\ deletion # "asked")
  /\ log = 0 => Room
  /\ LET i == IF log = 0 THEN inodes + 1 ELSE log IN
       /\ log' = i /\ inodes' = IF log = 0 THEN i ELSE inodes
       /\ writers' = [writers EXCEPT ![w].inode = i, ![w].written = Len(data[i])]
  /\ dir' = TRUE /\ live' = w /\ phase' = "up"
  /\ beside' = (beside \/ \E v \in Writers : writers[v].job # 0 \/ writers[v].turn # 0)
  /\ UNCHANGED <<numbered, dated, data, deletion, printed, today, lost, errors>>

(* The process ends: it is stopped, or a restart claims it.  Its writer is  *)
(* dropped, and both tasks of the writer are aborted.                       *)
DropWriter ==
  /\ live # 0 /\ live' = 0 /\ phase' \in {"down", "claimed"}
  /\ lost' = lost \union LinesOf(writers[live].queue)
  /\ writers' = [writers EXCEPT ![live].queue = <<>>]
  /\ UNCHANGED <<fileVars, deletion, printed, today, beside, errors>>

Abandon ==
  /\ phase = "claimed" /\ phase' = "down"
  /\ UNCHANGED <<fileVars, writers, live, deletion, printed, today, lost, beside, errors>>

(* A line is broadcast; a channel that is full drops its oldest line, and   *)
(* without a writer nobody receives it.                                     *)
EmitLogLine ==
  /\ printed < MaxLines /\ printed' = printed + 1
  /\ IF live = 0
     THEN lost' = lost \union {printed'} /\ UNCHANGED writers
     ELSE LET q == writers[live].queue
              full == Len(q) = MaxQueue IN
          /\ writers' = [writers EXCEPT ![live].queue =
                           Append(IF full THEN Tail(q) ELSE q, printed')]
          /\ lost' = IF full THEN lost \union {Head(q)} ELSE lost
  /\ UNCHANGED <<fileVars, phase, live, deletion, today, beside, errors>>

ReceiveLine ==
  /\ live # 0 /\ writers[live].job = 0 /\ writers[live].queue # <<>>
  /\ writers' = [writers EXCEPT ![live].job = Head(writers[live].queue),
                              ![live].queue = Tail(@)]
  /\ UNCHANGED <<fileVars, phase, live, deletion, printed, today, lost, beside, errors>>

-----------------------------------------------------------------------------
(* rotate_if_needed moves every file up by one number, the last one out.    *)
Shifted == [i \in 1..MaxFiles |-> IF i = 1 THEN log ELSE numbered[i - 1]]
Oldest  == LinesOf(Content(numbered[MaxFiles]))

(* FileHandle::write_line, up to the size at which the file is rotated.     *)
WriteLine(w) ==
  /\ writers[w].job # 0
  /\ LET i == writers[w].inode
         j == writers[w].job
         full == writers[w].written >= MaxSize /\ Len(Content(log)) >= MaxSize IN
       \/ /\ ~full /\ NoError /\ data' = [data EXCEPT ![i] = Append(@, j)]
          /\ writers' = [writers EXCEPT ![w].job = 0, ![w].written = @ + 1]
          /\ lost' = IF i \in Named THEN lost ELSE lost \union {j}
          /\ UNCHANGED <<log, numbered, inodes>>
       \/ /\ full /\ NoError /\ Room /\ log' = inodes + 1 /\ inodes' = inodes + 1
          /\ numbered' = Shifted /\ lost' = lost \union Oldest
          /\ data' = [data EXCEPT ![log'] = <<j>>]
          /\ writers' = [writers EXCEPT ![w].job = 0, ![w].written = 1,
                                        ![w].inode = log']
       \/ /\ Error /\ writers' = [writers EXCEPT ![w].job = 0]
          /\ \/ lost' = lost \union {j} /\ UNCHANGED <<log, numbered>>
             \/ /\ full /\ lost' = lost \union {j} \union Oldest
                /\ \/ numbered' = [Shifted EXCEPT ![1] = 0] /\ UNCHANGED log
                   \/ numbered' = Shifted /\ log' = 0
          /\ UNCHANGED <<data, inodes>>
  /\ UNCHANGED <<dated, dir, phase, live, deletion, printed, today, beside>>

(* The timer of a writer, set for the end of the local day, fires; after a  *)
(* change of the clocks it may do so again for the same date.               *)
Midnight ==
  /\ live # 0 /\ writers[live].turn = 0
  /\ \E d \in {today, today + 1} \intersect (1..MaxDates) :
       today' = d /\ writers' = [writers EXCEPT ![live].turn = d]
  /\ UNCHANGED <<fileVars, phase, live, deletion, printed, lost, beside, errors>>

(* Slip: the file of a date is replaced if there is one already. *)
MoveReplacing(d) ==
  /\ dated' = [e \in 1..MaxDates |-> IF e = d THEN log ELSE dated[e]]
  /\ UNCHANGED <<data, lost>>

(* rotate_by_date: to the file of that date, or to its end, and the files   *)
(* that are too old are removed.                                            *)
Outdated(d) == {e \in 1..MaxDates : e < d - KeepDates}

MoveToDate(d) ==
  /\ data' = IF dated[d] = 0 THEN data
             ELSE [data EXCEPT ![dated[d]] = @ \o data[log]]
  /\ dated' = [e \in 1..MaxDates |-> IF e = d /\ dated[d] = 0 THEN log
                                     ELSE IF e \in Outdated(d) THEN 0 ELSE dated[e]]
  /\ lost' = lost \union UNION {LinesOf(Content(dated[e])) : e \in Outdated(d)}

(* FileHandle::reopen follows in any case; it cannot without the directory. *)
RotateByDate(w) ==
  /\ writers[w].turn # 0
  /\ LET d == writers[w].turn
         moves == Content(log) # <<>> IN
       /\ \/ moves /\ NoError /\ MoveToDate(d)
          \/ moves /\ Error /\ UNCHANGED <<dated, lost>>
             /\ data' \in {data, IF dated[d] = 0 THEN data
                                 ELSE [data EXCEPT ![dated[d]] = @ \o data[log]]}
          \/ ~moves /\ NoError /\ UNCHANGED <<data, dated, lost>>
       /\ IF dir /\ (log = 0 \/ (moves /\ errors' = errors))
          THEN Room /\ log' = inodes + 1 /\ inodes' = inodes + 1
          ELSE UNCHANGED <<log, inodes>>
       /\ writers' = [writers EXCEPT ![w].turn = 0,
                        ![w].inode = IF log' = 0 THEN @ ELSE log',
                        ![w].written = IF log' = 0 THEN @ ELSE Len(data'[log'])]
  /\ UNCHANGED <<numbered, dir, phase, live, deletion, printed, today, beside>>

-----------------------------------------------------------------------------
(* delete_logs is refused for an active process, which a restart that has   *)
(* claimed the process is not; the directory goes file by file.             *)
AskDelete ==
  /\ phase # "up" /\ deletion = "none" /\ deletion' = "asked"
  /\ UNCHANGED <<fileVars, phase, writers, live, printed, today, lost, beside, errors>>

DeleteLogs ==
  /\ deletion = "asked" /\ deletion' = "done"
  /\ \E gone \in SUBSET {"log", "numbered", "dated"} :
       /\ log' = IF "log" \in gone THEN 0 ELSE log
       /\ numbered' = [i \in 1..MaxFiles |-> IF "numbered" \in gone THEN 0 ELSE numbered[i]]
       /\ dated' = [d \in 1..MaxDates |-> IF "dated" \in gone THEN 0 ELSE dated[d]]
       /\ dir' = (dir /\ gone # {"log", "numbered", "dated"})
  /\ lost' = 1..printed
  /\ UNCHANGED <<data, inodes, phase, writers, live, printed, today, beside, errors>>

LogNext ==
  \/ \E w \in Writers : NewWriter(w) \/ WriteLine(w) \/ RotateByDate(w)
  \/ DropWriter \/ Abandon \/ EmitLogLine \/ ReceiveLine \/ Midnight
  \/ AskDelete \/ DeleteLogs

LogSpec == LogInit /\ [][LogNext]_logVars

-----------------------------------------------------------------------------
Pending(n)  == \E w \in Writers : writers[w].job = n \/ n \in LinesOf(writers[w].queue)
Holding(n)  == {i \in Named \ {0} : n \in LinesOf(data[i])}
Rising(s)   == \A i \in 1..(Len(s) - 1) : s[i] < s[i + 1]

(* "stop the process before deleting its logs so active writers can close    *)
(* safely": what a running process prints goes to files that can be read.    *)
(* (delete_logs, do_spawn_with_event_inner.)                                 *)
LogsReachable == live # 0 /\ deletion # "asked" => writers[live].inode \in Named

(* No line is lost but to the bounds of the channel and of the rotations, to *)
(* the end of its writer, to an error or to a deletion; no line is in two    *)
(* files, and each file is in the order of printing, unless an error cut a   *)
(* rotation short or a writer met the last job of the one before.            *)
(* (LogWriter, rotate_if_needed, rotate_by_date.)                            *)
LinesKept ==
  /\ \A n \in 1..printed : n \in lost \/ Pending(n) \/ Holding(n) # {}
  /\ errors = 0 => \A i, j \in Named \ {0} :
       i # j => LinesOf(data[i]) \intersect LinesOf(data[j]) = {}
  /\ errors = 0 /\ ~beside => \A i \in Named \ {0} : Rising(data[i])
  /\ deletion = "none" /\ ~beside => LogsReachable
=============================================================================
