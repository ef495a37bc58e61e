---------------------------- MODULE RemoteAgent ----------------------------
(***************************************************************************)
(* File operations on a remote host: the gateway's side (session.rs, the    *)
(* channel of ssh.rs) and the shell script it runs there (agent.rs), while   *)
(* users of the host move links about and the connection may break.         *)
(*                                                                          *)
(* One path is asked for.  Its directory resolves to one of Dirs, and its    *)
(* last component is absent, a file, or a link to the same name in the other *)
(* directory.  The scripts run over a connection of SshTransport.  Exec, which *)
(* keeps no state on the host, is left out.                                  *)
(***************************************************************************)
EXTENDS SshTransport

CONSTANTS Invocations,  \* runs of the script, of one gateway or of several
          Jobs,         \* what they may be asked for
          MaxChanges,   \* how often others change the paths
          Link,         \* a link to the same name in the other directory
          Exit,         \* a script that ended without output
          Failure       \* an error of the gateway

Inside == "inside"      \* a directory under an allowed root
Outside == "outside"
Dirs == {Inside, Outside}
Other(d) == CHOOSE e \in Dirs : e # d

Old == <<"old1", "old2">>    \* a file's bytes, in base64 groups
Whole == <<"new1", "new2">>  \* what a write is to store

ASSUME AgentAssumption ==
    /\ Jobs \subseteq [op : {"read", "download", "create", "truncate", "append"},
                       policy : BOOLEAN]
    /\ MaxChanges \in Nat
    /\ None \notin Dirs \cup {Link, Exit, Failure}

VARIABLES fs,        \* for each directory: a file's bytes, a link, or nothing
          parent,    \* what the path's directory resolves to
          changes,
          job, pc,   \* what an invocation is for, and where its script is
          fd,        \* the file it has open
          input,     \* what it got on its standard input
          out, got,  \* what it wrote to the channel; how much of it arrived
          result,    \* what the gateway reports
          local,     \* a download's destination, None as it was, and temporary file
          touched    \* history: what an invocation did in a directory

host == <<fs, parent, changes>>
script == <<job, fd, input>>
vars == <<link, host, script, pc, out, got, result, local, touched>>

up == conn.stage = "up"

Files == Seq({"old1", "old2", "new1", "new2"})

\* An invocation used the bytes of a file of d, or created an empty one there.
Used(i, d) == <<i, d, "bytes">> \in touched
Created(i, d) == <<i, d, "name">> \in touched
Use(i, d) == touched' = touched \cup {<<i, d, "bytes">>}

TypeOK ==
    /\ fs \in [Dirs -> Files \cup {Link, None}]
    /\ parent \in Dirs \cup {None}
    /\ changes \in 0 .. MaxChanges
    /\ job \in [Invocations -> Jobs \cup {None}]
    /\ pc \in [Invocations -> {"idle", "start", "parent", "open", "check", "store", "emit",
                               "rename", "done"}]
    /\ fd \in [Invocations -> [dir : Dirs \cup {None}, bytes : Files \cup {None}]]
    /\ input \in [Invocations -> {None, Whole, SubSeq(Whole, 1, 1), <<>>}]
    /\ out \in [Invocations -> {None} \cup [code : {0, 1, 17, 77}, body : Files] \cup {Exit}]
    /\ got \in [Invocations -> 0 .. 9]
    /\ result \in [Invocations -> {None, Failure} \cup [code : {0, 1, 17, 77}, body : Files]]
    /\ local \in [Invocations -> [dst : Files \cup {None}, temp : Files \cup {None}]]
    /\ touched \subseteq Invocations \X Dirs \X {"bytes", "name"}

Init ==
    /\ LinkInit
    /\ fs \in [Dirs -> {Old, Link, None}]
    /\ parent \in Dirs \cup {None}
    /\ changes = 0
    /\ job = [i \in Invocations |-> None]
    /\ pc = [i \in Invocations |-> "idle"]
    /\ fd = [i \in Invocations |-> [dir |-> None, bytes |-> None]]
    /\ input = [i \in Invocations |-> None]
    /\ out = [i \in Invocations |-> None]
    /\ got = [i \in Invocations |-> 0]
    /\ result = [i \in Invocations |-> None]
    /\ local = [i \in Invocations |-> [dst |-> None, temp |-> None]]
    /\ touched = {}

-----------------------------------------------------------------------------
(* The host's file system                                                    *)

\* Where an open of the name in d ends, links followed; two links are a loop.
Resolve(d) ==
    IF d = None THEN None
    ELSE IF fs[d] # Link THEN d
    ELSE IF fs[Other(d)] # Link THEN Other(d) ELSE None

Present(d) == d # None /\ fs[d] # None

\* An open file keeps its bytes when its name is taken away: fd.bytes is None
\* for as long as the name leads to it.
FileOf(i) == IF fd[i].bytes = None THEN fs[fd[i].dir] ELSE fd[i].bytes

Store(i, bytes) ==
    IF fd[i].bytes = None
    THEN fs' = [fs EXCEPT ![fd[i].dir] = bytes] /\ UNCHANGED fd
    ELSE fd' = [fd EXCEPT ![i].bytes = bytes] /\ UNCHANGED fs

\* Somebody else swaps the directory, or replaces what is at the name (what they
\* did before there was a connection, Init covers).
Change ==
    /\ changes < MaxChanges /\ conn.stage \in {"up", "closed"}
    /\ changes' = changes + 1
    /\ \/ \E d \in Dirs : parent' = d
          /\ UNCHANGED <<fs, fd>>
       \/ \E d \in Dirs, new \in {Old, Link, None} :
             /\ fs[d] # new
             /\ fs' = [fs EXCEPT ![d] = new]
             /\ fd' = [i \in Invocations |->
                          IF fd[i] = [dir |-> d, bytes |-> None] /\ pc[i] \in {"check", "store"}
                          THEN [fd[i] EXCEPT !.bytes = fs[d]] ELSE fd[i]]
          /\ UNCHANGED parent
    /\ UNCHANGED <<job, input, pc, out, got, link, result, local, touched>>

-----------------------------------------------------------------------------
(* The script                                                                *)

Emit(i, code, body) ==
    /\ out' = [out EXCEPT ![i] = [code |-> code, body |-> body]]
    /\ pc' = [pc EXCEPT ![i] = "emit"]

\* A redirection of exec that fails ends a POSIX shell at once; others go on
\* and report the code.
OpenFails(i, code) ==
    \/ Emit(i, code, <<>>)
    \/ out' = [out EXCEPT ![i] = Exit] /\ pc' = [pc EXCEPT ![i] = "emit"]

Goto(i, label) == pc' = [pc EXCEPT ![i] = label] /\ UNCHANGED out

Writes(i) == job[i].op \in {"create", "truncate", "append"}

\* invoke_agent: a channel is opened for an operation, and the script asked for.
Begin(i) ==
    /\ pc[i] = "idle" /\ up
    /\ \E j \in Jobs : job' = [job EXCEPT ![i] = j]
    /\ Goto(i, "start")
    /\ UNCHANGED <<host, fd, input, got, link, result, local, touched>>

\* cat > input_file: everything, or what had been sent when the connection broke.
TakeInput(i) ==
    /\ pc[i] = "start" /\ Writes(i)
    /\ \E n \in 0 .. Len(Whole) :
          /\ up => n = Len(Whole)
          /\ input' = [input EXCEPT ![i] = SubSeq(Whole, 1, n)]
    /\ Goto(i, "parent")
    /\ UNCHANGED <<host, job, fd, got, link, result, local, touched>>

\* run_read: cat -- path.
Read(i) ==
    /\ pc[i] = "start" /\ ~Writes(i) /\ ~job[i].policy
    /\ LET d == Resolve(parent)
       IN  IF Present(d)
           THEN Emit(i, 0, fs[d]) /\ Use(i, d)
           ELSE Emit(i, 1, <<>>) /\ UNCHANGED touched
    /\ UNCHANGED <<host, script, got, link, result, local>>

\* run_read_policy: the file is opened first ...
OpenRead(i) ==
    /\ pc[i] = "start" /\ ~Writes(i) /\ job[i].policy
    /\ LET d == Resolve(parent)
       IN  IF Present(d)
           THEN fd' = [fd EXCEPT ![i].dir = d] /\ Goto(i, "check")
           ELSE OpenFails(i, 1) /\ UNCHANGED fd
    /\ UNCHANGED <<host, job, input, got, link, result, local, touched>>

\* Mutated form: the check looks at the path again, not at what was opened.
ReadCheckingPath(i) ==
    /\ pc[i] = "check" /\ ~Writes(i)
    /\ IF parent = Inside
       THEN Emit(i, 0, FileOf(i)) /\ Use(i, fd[i].dir)
       ELSE Emit(i, 77, <<>>) /\ UNCHANGED touched
    /\ UNCHANGED <<host, script, got, link, result, local>>

\* ... and read if path_allowed_fd finds what was opened under a root.
CheckedRead(i) ==
    /\ pc[i] = "check" /\ ~Writes(i)
    /\ IF fd[i].dir = Inside
       THEN Emit(i, 0, FileOf(i)) /\ Use(i, fd[i].dir)
       ELSE Emit(i, 77, <<>>) /\ UNCHANGED touched
    /\ UNCHANGED <<host, script, got, link, result, local>>

\* run_write: mkdir -p makes a directory that is missing, if it can.
MakeParent(i) ==
    /\ pc[i] = "parent" /\ ~job[i].policy
    /\ parent' \in IF parent = None THEN {None} \cup {d \in Dirs : fs[d] = None} ELSE {parent}
    /\ Goto(i, "open")
    /\ UNCHANGED <<fs, changes, script, got, link, result, local, touched>>

\* create looks whether the path is free, and two may find it so.
WriteLook(i) ==
    /\ pc[i] = "open" /\ ~job[i].policy /\ job[i].op = "create"
    /\ IF Present(Resolve(parent)) THEN Emit(i, 17, <<>>) ELSE Goto(i, "store")
    /\ UNCHANGED <<host, script, got, link, result, local, touched>>

\* The path is opened and the input stored.
Write(i) ==
    /\ \/ pc[i] = "open" /\ job[i].op # "create"
       \/ pc[i] = "store" /\ job[i].op = "create"
    /\ ~job[i].policy
    /\ LET d == Resolve(parent)
           before == IF job[i].op = "append" /\ Present(d) THEN fs[d] ELSE <<>>
       IN  IF d = None THEN Emit(i, 1, <<>>) /\ UNCHANGED <<fs, touched>>
           ELSE /\ fs' = [fs EXCEPT ![d] = before \o input[i]]
                /\ Use(i, d)
                /\ Emit(i, 0, <<>>)
    /\ UNCHANGED <<parent, changes, script, got, link, result, local>>

\* run_write_policy: the directory is opened and checked ...
OpenParent(i) ==
    /\ pc[i] = "parent" /\ job[i].policy
    /\ IF parent = None THEN Emit(i, 77, <<>>) /\ UNCHANGED fd
       ELSE fd' = [fd EXCEPT ![i].dir = parent] /\ Goto(i, "open")
    /\ UNCHANGED <<host, job, input, got, link, result, local, touched>>

\* ... the name in it is opened, and created if need be: create insists on
\* that (noclobber), the others append.  What they create is checked only once it
\* is there: behind a link, outside the roots too ...
OpenTarget(i) ==
    /\ pc[i] = "open" /\ job[i].policy
    /\ LET d == IF job[i].op = "create"
                THEN IF fs[fd[i].dir] = None THEN fd[i].dir ELSE None
                ELSE Resolve(fd[i].dir)
       IN  IF fd[i].dir # Inside THEN Emit(i, 77, <<>>) /\ UNCHANGED <<fs, fd, touched>>
           ELSE IF d = None
           THEN /\ OpenFails(i, IF job[i].op = "create" THEN 17 ELSE 1)
                /\ UNCHANGED <<fs, fd, touched>>
           ELSE /\ fs' = [fs EXCEPT ![d] = IF @ = None THEN <<>> ELSE @]
                /\ touched' = IF fs[d] = None THEN touched \cup {<<i, d, "name">>} ELSE touched
                /\ fd' = [fd EXCEPT ![i].dir = d]
                /\ Goto(i, "check")
    /\ UNCHANGED <<parent, changes, job, input, got, link, result, local>>

\* ... what was opened is checked, and emptied ...
CheckedTruncate(i) ==
    /\ pc[i] = "check" /\ Writes(i)
    /\ IF fd[i].dir = Inside
       THEN /\ Goto(i, "store")
            /\ IF job[i].op = "truncate"
               THEN Store(i, <<>>) /\ Use(i, fd[i].dir)
               ELSE UNCHANGED <<fs, fd, touched>>
       ELSE Emit(i, 77, <<>>) /\ UNCHANGED <<fs, fd, touched>>
    /\ UNCHANGED <<parent, changes, job, input, got, link, result, local>>

\* ... and the input added at its end.
CheckedStore(i) ==
    /\ pc[i] = "store" /\ job[i].policy
    /\ Store(i, FileOf(i) \o input[i])
    /\ Use(i, fd[i].dir)
    /\ Emit(i, 0, <<>>)
    /\ UNCHANGED <<parent, changes, job, input, got, link, result, local>>

-----------------------------------------------------------------------------
(* The gateway                                                               *)

\* How many pieces the output has: the line with the code, and the body.
Length(o) == IF o = Exit THEN 0 ELSE 1 + Len(o.body)

\* The messages of the channel arrive in order.
Receive(i) ==
    /\ up /\ pc[i] = "emit" /\ got[i] < Length(out[i])
    /\ got' = [got EXCEPT ![i] = @ + 1]
    /\ UNCHANGED <<host, script, pc, out, link, result, local, touched>>

\* The loop of run_command ends when the channel closes or the session behind
\* it is gone; the exit status plays no part.
Ended(i) ==
    /\ result[i] = None /\ pc[i] # "idle"
    /\ \/ ~up
       \/ pc[i] = "emit" /\ got[i] = Length(out[i])

\* Mutated form: an empty output counts as code 0.
ParseLeniently(i) ==
    IF got[i] = 0 THEN {[code |-> 0, body |-> <<>>]}
    ELSE {[out[i] EXCEPT !.body = SubSeq(@, 1, got[i] - 1)]}

\* parse_agent_output: without the line with the code there is no answer; a
\* body that breaks off between two groups decodes, within one it does not.
parse_agent_output(i) ==
    IF got[i] = 0 THEN {Failure}
    ELSE {[out[i] EXCEPT !.body = SubSeq(@, 1, got[i] - 1)]}
         \cup (IF got[i] < Length(out[i]) THEN {Failure} ELSE {})

\* read and write return; download goes on if the answer is good.
Finish(i) ==
    /\ Ended(i)
    /\ \E answer \in parse_agent_output(i) :
          /\ result' = [result EXCEPT ![i] = answer]
          /\ IF job[i].op = "download" /\ answer # Failure /\ answer.code = 0
             THEN /\ local' = [local EXCEPT ![i].temp = answer.body]
                  /\ pc' = [pc EXCEPT ![i] = "rename"]
             ELSE pc' = [pc EXCEPT ![i] = IF pc[i] = "emit" THEN "done" ELSE @]
                  /\ UNCHANGED local
    /\ UNCHANGED <<host, script, out, got, link, touched>>

\* atomic_write: the temporary file, written and synced, takes the place of the
\* destination; an error on the way removes it.
Save(i) ==
    /\ pc[i] = "rename"
    /\ \/ /\ local' = [local EXCEPT ![i] = [dst |-> @.temp, temp |-> None]]
          /\ UNCHANGED result
       \/ /\ local' = [local EXCEPT ![i].temp = None]
          /\ result' = [result EXCEPT ![i] = Failure]
    /\ pc' = [pc EXCEPT ![i] = "done"]
    /\ UNCHANGED <<host, script, out, got, link, touched>>

-----------------------------------------------------------------------------
\* Scripts that run when the connection breaks go on, and see the end of their
\* input.
Next ==
    \/ LinkStep /\ UNCHANGED <<host, script, pc, out, got, result, local, touched>>
    \/ Change
    \/ \E i \in Invocations :
          \/ Begin(i) \/ TakeInput(i) \/ Read(i) \/ OpenRead(i) \/ CheckedRead(i)
          \/ MakeParent(i) \/ WriteLook(i) \/ Write(i) \/ OpenParent(i) \/ OpenTarget(i)
          \/ CheckedTruncate(i) \/ CheckedStore(i)
          \/ Receive(i) \/ Finish(i) \/ Save(i)

Spec == Init /\ [][Next]_vars

-----------------------------------------------------------------------------
\* What chatgpt.md says of restricted file operations: they validate the opened
\* file descriptor, so that symlink changes cannot redirect the reading or writing,
\* whenever they happen: the bytes of no file outside the roots are read, added to
\* or emptied, and an operation that was denied used those of no file at all.
\* The name is another matter: what agent.rs opens to truncate or append it may
\* have created, empty, outside the roots, behind a link to nothing; such an
\* operation is denied, never reported as done, but the empty file stays.
PolicyConfined ==
    \A i \in Invocations :
        /\ job[i] # None /\ job[i].policy => ~Used(i, Outside)
        /\ out[i] \notin {None, Exit} /\ out[i].code = 77 => \A d \in Dirs : ~Used(i, d)
        /\ Created(i, Outside) =>
               /\ job[i].op \in {"truncate", "append"}
               /\ out[i] # None => out[i] = [code |-> 77, body |-> <<>>]

\* A write that is reported as done stored all of its bytes, although the
\* script cannot tell the end of the input from a broken connection.
ReportedWritesWhole ==
    \A i \in Invocations :
        result[i] \notin {None, Failure} /\ Writes(i) /\ result[i].code = 0 =>
            input[i] = Whole

\* What README.md says of downloads: the destination is replaced "only after
\* the complete content has been received and synced".
DownloadsComplete ==
    \A i \in Invocations : local[i].dst # None => local[i].dst = out[i].body

=============================================================================
