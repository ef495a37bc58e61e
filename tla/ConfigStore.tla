----------------------------- MODULE ConfigStore -----------------------------
(***************************************************************************)
(* The configuration file (config.rs, execute_profile_mutation of           *)
(* service.rs): gateway processes that create and delete profiles in it,    *)
(* people who edit it, processes that die and machines that lose power.     *)
(*                                                                          *)
(* Within a process the write guard lets one mutation run at a time, so a    *)
(* writer is a process.  The hash of a file is its content: what has the     *)
(* same hash is the same.  The sessions a deletion asks for are Gateway's.   *)
(***************************************************************************)
EXTENDS ProfileConfig

CONSTANTS Writers,
          Starts,      \* what the file may hold at first
          Samples,     \* configurations that are only loaded and shown
          Edits,       \* what others may save
          Requests,    \* the mutations: [op, profile or name]
          MaxFaults    \* edits, crashes and power losses

\* A file that does not parse, for instance half of one: it has no profiles.
Broken == [torn |-> TRUE]

ASSUME StoreAssumption ==
    /\ None \notin Writers
    /\ \A content \in Starts \cup Samples \cup Edits : content = Broken \/ IsConfig(content)
    /\ \A r \in Requests : IsProfile(r.profile)

VARIABLES file,      \* what the path leads to: [content, gen, by, synced, link]
          disk,      \* what it leads to for certain after a loss of power
          temp,      \* each writer's temporary file
          pc, request, loaded, new,
          mine,      \* history: the generation of the file that a writer made
          raced,     \* history: the file changed after a writer's last look
          faults

local == <<request, loaded, new>>
vars == <<file, disk, temp, pc, local, mine, raced, faults>>

Generations == 0 .. MaxFaults + Cardinality(Writers) * (MaxFaults + 1)

TypeOK ==
    /\ file.gen \in Generations /\ disk.gen \in Generations
    /\ file.by \in Writers \cup {None} /\ file.synced \in BOOLEAN /\ file.link \in BOOLEAN
    /\ \A w \in Writers : temp[w] \in {None} \cup [content : {Broken, new[w]}, synced : BOOLEAN]
    /\ pc \in [Writers -> {"idle", "check", "create", "write", "sync", "recheck", "rename",
                           "syncdir", "remove", "ok", "failed"}]
    /\ request \in [Writers -> Requests \cup {None}]
    /\ mine \in [Writers -> Generations]
    /\ raced \in [Writers -> BOOLEAN]
    /\ faults \in 0 .. MaxFaults

Init ==
    /\ \E content \in Starts \cup Samples :
          file = [content |-> content, gen |-> 0, by |-> None, synced |-> TRUE, link |-> FALSE]
    /\ disk = file
    /\ temp = [w \in Writers |-> None]
    /\ pc = [w \in Writers |-> "idle"]
    /\ request = [w \in Writers |-> None]
    /\ loaded = [w \in Writers |-> None]
    /\ new = [w \in Writers |-> None]
    /\ mine = [w \in Writers |-> 0]
    /\ raced = [w \in Writers |-> FALSE]
    /\ faults = IF file.content \in Starts THEN 0 ELSE MaxFaults

Goto(w, label) == pc' = [pc EXCEPT ![w] = label]

\* Whoever is past the last look at the file is overtaken.
Overtake(w) ==
    raced' = [v \in Writers |-> raced[v] \/ (v # w /\ pc[v] = "rename")]

-----------------------------------------------------------------------------
(* A mutation                                                                *)

\* parse_config, for YAML and TOML.
Parses(content) == content # Broken

\* reload_if_file_backed.
Loads(content) == Parses(content) /\ validate(content)

require_mutable_yaml == ~file.link

\* The SHA-256 of the profile, whose value is its profile.
FingerprintMatches(config, profile) == profile \in ElementsOf(config.profiles)

ensure_profile_deletable(config, name) ==
    /\ name \in NamesOf(config)
    /\ Len(config.profiles) # 1
    /\ \A p \in ElementsOf(config.profiles) : p.via # name

\* profiles.retain(|item| item.name != name)
Without(profiles, name) ==
    LET kept[n \in 0 .. Len(profiles)] ==
            IF n = 0 THEN <<>>
            ELSE IF profiles[n].name = name THEN kept[n - 1]
            ELSE Append(kept[n - 1], profiles[n])
    IN  kept[Len(profiles)]

Mutated(config, r) ==
    IF r.op = "create" THEN [config EXCEPT !.profiles = Append(@, r.profile)]
    ELSE [config EXCEPT !.profiles = Without(@, r.profile.name)]

\* execute_profile_mutation up to the writing of the file.  A deletion names the
\* profile as it was when the request was made.
MutationAllowed(config, r) ==
    /\ config.management
    /\ IF r.op = "create" THEN r.profile.name \notin NamesOf(config)
       ELSE ensure_profile_deletable(config, r.profile.name)
            /\ FingerprintMatches(config, r.profile)
    /\ validate(Mutated(config, r))

Prepare(w) ==
    /\ pc[w] = "idle"
    /\ \E r \in Requests :
          IF Loads(file.content) /\ require_mutable_yaml /\ MutationAllowed(file.content, r)
          THEN /\ request' = [request EXCEPT ![w] = r]
               /\ loaded' = [loaded EXCEPT ![w] = file.content]
               /\ new' = [new EXCEPT ![w] = Mutated(file.content, r)]
               /\ Goto(w, "check")
          ELSE Goto(w, "failed") /\ UNCHANGED local
    /\ UNCHANGED <<file, disk, temp, mine, raced, faults>>

\* write_yaml_atomic: the file is as it was read, and no symbolic link.
Check(w) ==
    /\ pc[w] = "check"
    /\ Goto(w, IF file.content = loaded[w] /\ require_mutable_yaml THEN "create" ELSE "failed")
    /\ UNCHANGED <<file, disk, temp, local, mine, raced, faults>>

\* Each of the following steps may fail; the temporary file is then removed.
Fail(w) ==
    /\ pc[w] \in {"create", "write", "sync", "recheck", "rename", "syncdir"}
    /\ Goto(w, "remove")
    /\ UNCHANGED <<file, disk, temp, local, mine, raced, faults>>

CreateTemp(w) ==
    /\ pc[w] = "create"
    /\ temp' = [temp EXCEPT ![w] = [content |-> Broken, synced |-> FALSE]]
    /\ Goto(w, "write")
    /\ UNCHANGED <<file, disk, local, mine, raced, faults>>

WriteTemp(w) ==
    /\ pc[w] = "write"
    /\ temp' = [temp EXCEPT ![w].content = new[w]]
    /\ Goto(w, "sync")
    /\ UNCHANGED <<file, disk, local, mine, raced, faults>>

\* Mutated form: the file is flushed, not synced.
SyncNothing(w) ==
    /\ pc[w] = "sync"
    /\ Goto(w, "recheck")
    /\ UNCHANGED <<file, disk, temp, local, mine, raced, faults>>

SyncTemp(w) ==
    /\ pc[w] = "sync"
    /\ temp' = [temp EXCEPT ![w].synced = TRUE]
    /\ Goto(w, "recheck")
    /\ UNCHANGED <<file, disk, local, mine, raced, faults>>

\* Mutated form: one look at the file was enough.
RecheckNothing(w) ==
    /\ pc[w] = "recheck"
    /\ Goto(w, "rename")
    /\ raced' = [raced EXCEPT ![w] = FALSE]
    /\ UNCHANGED <<file, disk, temp, local, mine, faults>>

\* The permissions are copied and the file is looked at once more.
Recheck(w) ==
    /\ pc[w] = "recheck"
    /\ Goto(w, IF file.content = loaded[w] THEN "rename" ELSE "remove")
    /\ raced' = [raced EXCEPT ![w] = FALSE]
    /\ UNCHANGED <<file, disk, temp, local, mine, faults>>

\* Mutated form: the directory is not synced.
RenameAndReturn(w) ==
    /\ pc[w] = "rename"
    /\ file' = [content |-> temp[w].content, gen |-> file.gen + 1, by |-> w,
                synced |-> temp[w].synced, link |-> FALSE]
    /\ mine' = [mine EXCEPT ![w] = file.gen + 1]
    /\ temp' = [temp EXCEPT ![w] = None]
    /\ Overtake(w)
    /\ Goto(w, "ok")
    /\ UNCHANGED <<disk, local, faults>>

Rename(w) ==
    /\ pc[w] = "rename"
    /\ file' = [content |-> temp[w].content, gen |-> file.gen + 1, by |-> w,
                synced |-> temp[w].synced, link |-> FALSE]
    /\ mine' = [mine EXCEPT ![w] = file.gen + 1]
    /\ temp' = [temp EXCEPT ![w] = None]
    /\ Overtake(w)
    /\ Goto(w, "syncdir")
    /\ UNCHANGED <<disk, local, faults>>

\* The directory is synced, with whatever the path leads to by now.
SyncDir(w) ==
    /\ pc[w] = "syncdir"
    /\ disk' = file
    /\ Goto(w, "ok")
    /\ UNCHANGED <<file, temp, local, mine, raced, faults>>

RemoveTemp(w) ==
    /\ pc[w] = "remove"
    /\ temp' = [temp EXCEPT ![w] = None]
    /\ Goto(w, "failed")
    /\ UNCHANGED <<file, disk, local, mine, raced, faults>>

-----------------------------------------------------------------------------
(* What happens to the file and to the processes                             *)

Edit ==
    /\ faults < MaxFaults
    /\ faults' = faults + 1
    /\ \E content \in Edits, link \in BOOLEAN :
          file' = [content |-> content, gen |-> file.gen + 1, by |-> None,
                   synced |-> FALSE, link |-> link]
    /\ Overtake(None)
    /\ UNCHANGED <<disk, temp, pc, local, mine>>

Forget(ws) ==
    /\ pc' = [w \in Writers |-> IF w \in ws THEN "idle" ELSE pc[w]]
    /\ temp' = [w \in Writers |-> IF w \in ws THEN None ELSE temp[w]]
    /\ request' = [w \in Writers |-> IF w \in ws THEN None ELSE request[w]]
    /\ loaded' = [w \in Writers |-> IF w \in ws THEN None ELSE loaded[w]]
    /\ new' = [w \in Writers |-> IF w \in ws THEN None ELSE new[w]]

\* A process dies, or a request's future is dropped: its temporary file stays
\* for good, under a name nobody uses again, and is not tracked any more.
Crash(w) ==
    /\ faults < MaxFaults /\ pc[w] \notin {"idle", "ok", "failed"}
    /\ faults' = faults + 1
    /\ Forget({w})
    /\ UNCHANGED <<file, disk, mine, raced>>

\* The machine stops.  The path leads to what was there at the last sync of the
\* directory or to a later file; what was not synced may be lost.
PowerLoss ==
    /\ faults < MaxFaults
    /\ faults' = faults + 1
    /\ \E f \in {file, disk} :
          /\ \/ file' = f
             \/ ~f.synced /\ file' = [f EXCEPT !.content = Broken]
          /\ disk' = [file' EXCEPT !.synced = TRUE]
    /\ Forget({w \in Writers : pc[w] \notin {"ok", "failed"}})
    /\ UNCHANGED <<mine, raced>>

Next ==
    \/ Edit \/ PowerLoss
    \/ \E w \in Writers :
          \/ Prepare(w) \/ Check(w) \/ CreateTemp(w) \/ WriteTemp(w) \/ SyncTemp(w)
          \/ Recheck(w) \/ Rename(w) \/ SyncDir(w) \/ RemoveTemp(w) \/ Fail(w) \/ Crash(w)

Spec == Init /\ [][Next]_vars

-----------------------------------------------------------------------------
\* What the gateway put at the path always parses and validates, whenever the
\* power was lost and whoever edited the file meanwhile.
GatewayFilesLoad == file.by # None => Loads(file.content)

\* A mutation that was reported as done is on the disk: no loss of power takes
\* the file back to before it.
DoneIsDurable == \A w \in Writers : pc[w] = "ok" => disk.gen >= mine[w]

\* A file that somebody else changed while a mutation was prepared is not
\* overwritten, except in the moment between the second look and the rename.
OverwritesWhatItRead ==
    \A w \in Writers : pc[w] = "rename" => file.content = loaded[w] \/ raced[w]

\* The validation, which resolves every profile along its chain of via_profile,
\* accepts exactly the sound configurations: names are unique, chains end, and
\* every hop has one credential; and every profile of a configuration that loads
\* can be shown, although the summary takes its own way through the profile.
AcceptsSound ==
    file.content # Broken =>
        /\ validate(file.content) <=> Sound(file.content)
        /\ validate(file.content) =>
               \A name \in NamesOf(file.content) : profile_summary(file.content, name)
=============================================================================
