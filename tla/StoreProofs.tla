----------------------------- MODULE StoreProofs -----------------------------
(***************************************************************************)
(* The configuration file, for any number of gateway processes, faults and *)
(* configurations: what a gateway put at the path loads, a mutation that    *)
(* was reported as done is on the disk, a file that changed meanwhile is    *)
(* not overwritten, and what loads is exactly what is sound.                *)
(*                                                                         *)
(* That a half-written file never shows, even after a loss of power, rests *)
(* on the state of the temporary file at every step: TempInv says where its *)
(* content is whole and where it is synced.  Durability rests on the        *)
(* generations: what is on the disk is never ahead of the path, and a       *)
(* writer that waits for the sync of the directory is behind the path.      *)
(* That the validation is exact rests on what lies ahead of a profile along *)
(* its delegations: it is never the profile itself, unless some profiles    *)
(* delegate only among themselves.                                          *)
(***************************************************************************)
EXTENDS ConfigStore, FiniteSetTheorems, TLAPS

IsFile(f) ==
    f = [content |-> f.content, gen |-> f.gen, by |-> f.by, synced |-> f.synced, link |-> f.link]

\* A file is a configuration or does not parse; what a gateway wrote loads and
\* is synced.
Sane(f) ==
    /\ IsFile(f)
    /\ f.content = Broken \/ IsConfig(f.content)
    /\ f.gen \in Nat
    /\ f.by # None => Loads(f.content) /\ f.synced

\* The temporary file and the variables of a writer, step by step.
TempInv(w) ==
    /\ pc[w] \in {"check", "create", "write", "sync", "recheck", "rename", "syncdir"} =>
           Loads(new[w]) /\ IsConfig(new[w])
    /\ pc[w] = "write" => temp[w] = [content |-> Broken, synced |-> FALSE]
    /\ pc[w] = "sync" => temp[w] = [content |-> new[w], synced |-> FALSE]
    /\ pc[w] \in {"recheck", "rename"} => temp[w] = [content |-> new[w], synced |-> TRUE]

Arrays ==
    /\ pc = [w \in Writers |-> pc[w]]
    /\ temp = [w \in Writers |-> temp[w]]
    /\ request = [w \in Writers |-> request[w]]
    /\ loaded = [w \in Writers |-> loaded[w]]
    /\ new = [w \in Writers |-> new[w]]
    /\ mine \in [Writers -> Nat]
    /\ raced = [w \in Writers |-> raced[w]]

FileInv ==
    /\ Arrays
    /\ Sane(file) /\ Sane(disk)
    /\ \A w \in Writers : TempInv(w)

\* What is durable: the disk lags behind the path, and a writer that is done
\* behind the disk.
DiskInv ==
    /\ disk.gen <= file.gen
    /\ \A w \in Writers :
          /\ pc[w] = "syncdir" => mine[w] <= file.gen
          /\ pc[w] = "ok" => mine[w] <= disk.gen

StoreInv == FileInv /\ DiskInv /\ OverwritesWhatItRead

-----------------------------------------------------------------------------
(* Lists                                                                     *)

\* A set of numbers that is not empty has a least one.
LEMMA LeastOf ==
    ASSUME NEW S \in SUBSET Nat, S # {}
    PROVE  \E i \in S : \A j \in S : i <= j
<1>1. PICK i \in S : \A j \in S : ~ (<<j, i>> \in OpToRel(<, Nat))
    BY NatLessThanWellFounded, WFMin
<1>2. \A j \in S : ~ (j < i) BY <1>1 DEF OpToRel
<1> QED BY <1>2

\* The elements of a list are as many as its places if and only if no two places
\* hold the same.
LEMMA DistinctPlaces ==
    ASSUME NEW seq, IsList(seq)
    PROVE  /\ IsFiniteSet(ElementsOf(seq))
           /\ Distinct(seq) <=> \A m, n \in 1 .. Len(seq) : seq[m] = seq[n] => m = n
<1> DEFINE P == 1 .. Len(seq)
           E == ElementsOf(seq)
<1>1. Len(seq) \in Nat /\ seq \in [P -> E] /\ E = {seq[n] : n \in P}
    BY DEF IsList, ElementsOf
<1>2. IsFiniteSet(P) /\ Cardinality(P) = Len(seq)
    <2> DEFINE l == Len(seq)
    <2>1. l \in Nat BY <1>1
    <2> HIDE DEF l
    <2>2. IsFiniteSet(1 .. l) /\ Cardinality(1 .. l) = IF 1 > l THEN 0 ELSE l - 1 + 1
        BY <2>1, FS_Interval
    <2>3. IsFiniteSet(1 .. l) /\ Cardinality(1 .. l) = l BY <2>1, <2>2
    <2> QED BY <2>3 DEF l
<1>3. seq \in Surjection(P, E)
    BY <1>1 DEF Surjection
<1>4. IsFiniteSet(E) /\ (Cardinality(E) = Cardinality(P) <=> seq \in Injection(P, E))
    BY <1>2, <1>3, FS_Surjection
<1>5. seq \in Injection(P, E) <=> \A m, n \in P : seq[m] = seq[n] => m = n
    BY <1>1 DEF Injection, IsInjective
<1> QED BY <1>2, <1>4, <1>5 DEF Distinct

\* The profiles have as many names as there are profiles if and only if no two have
\* the same.
LEMMA NamesDistinct ==
    ASSUME NEW config, IsList(config.profiles)
    PROVE  /\ IsFiniteSet(NamesOf(config))
           /\ Cardinality(NamesOf(config)) = Len(config.profiles) <=>
                 \A m, n \in 1 .. Len(config.profiles) :
                     config.profiles[m].name = config.profiles[n].name => m = n
<1> DEFINE ps == config.profiles
           names == [n \in 1 .. Len(ps) |-> ps[n].name]
<1>1. Len(ps) \in Nat BY DEF IsList
<1>2. IsList(names) /\ Len(names) = Len(ps) /\ ElementsOf(names) = NamesOf(config)
    <2>1. names \in Seq(ElementsOf(names)) /\ Len(names) = Len(ps)
        <3>1. \A n \in 1 .. Len(ps) : names[n] = ps[n].name OBVIOUS
        <3>2. Len(names) = Len(ps) BY <1>1
        <3>3. names \in [1 .. Len(ps) -> ElementsOf(names)]
            BY <1>1, <3>2 DEF ElementsOf
        <3> QED BY <1>1, <3>2, <3>3
    <2>2. ElementsOf(names) = NamesOf(config)
        BY <1>1, <2>1 DEF ElementsOf, NamesOf
    <2> QED BY <2>1, <2>2 DEF IsList
<1>3. \A n \in 1 .. Len(ps) : names[n] = ps[n].name OBVIOUS
<1> HIDE DEF names
<1> QED BY <1>2, <1>3, DistinctPlaces DEF Distinct

\* A sequence is a list of its own elements.
LEMMA ListOf ==
    ASSUME NEW S, NEW seq \in Seq(S)
    PROVE  IsList(seq) /\ ElementsOf(seq) \subseteq S
<1>1. Len(seq) \in Nat /\ seq \in [1 .. Len(seq) -> ElementsOf(seq)] BY DEF ElementsOf
<1>2. seq \in Seq(ElementsOf(seq)) BY <1>1
<1> QED BY <1>1, <1>2 DEF IsList, ElementsOf

\* What retain keeps of the first n profiles, where g holds it for fewer.
Retained(g, profiles, name, n) ==
    IF n = 0 THEN <<>>
    ELSE IF profiles[n].name = name THEN g[n - 1]
    ELSE Append(g[n - 1], profiles[n])

Retains(g, profiles, name, m) == g = [n \in 0 .. m |-> Retained(g, profiles, name, n)]

\* The recursive definition has a solution, from no profiles to all of them.
LEMMA RetainedExists ==
    ASSUME NEW S, NEW profiles \in Seq(S), NEW name
    PROVE  \E g : Retains(g, profiles, name, Len(profiles))
<1> DEFINE Good(m) == \E g : Retains(g, profiles, name, m) /\ g \in [0 .. m -> Seq(S)]
           Bad == {m \in 0 .. Len(profiles) : ~ Good(m)}
<1>a. Len(profiles) \in Nat OBVIOUS
<1>1. Good(0)
    <2> DEFINE g == [n \in 0 .. 0 |-> <<>>]
    <2>1. g = [n \in 0 .. 0 |-> Retained(g, profiles, name, n)]
        <3>1. \A n \in 0 .. 0 : Retained(g, profiles, name, n) = <<>> BY DEF Retained
        <3> QED BY <3>1
    <2>2. g \in [0 .. 0 -> Seq(S)] OBVIOUS
    <2> HIDE DEF g
    <2> QED BY <2>1, <2>2 DEF Retains
<1>2. ASSUME NEW m \in Nat, m < Len(profiles), Good(m)
      PROVE  Good(m + 1)
    <2>1. PICK g : Retains(g, profiles, name, m) /\ g \in [0 .. m -> Seq(S)] BY <1>2
    <2> DEFINE h == [n \in 0 .. m + 1 |-> IF n = m + 1 THEN Retained(g, profiles, name, n) ELSE g[n]]
    <2>2. \A n \in 0 .. m : h[n] = g[n] OBVIOUS
    <2>3. h[m + 1] = Retained(g, profiles, name, m + 1) OBVIOUS
    <2>4. ASSUME NEW n \in 0 .. m + 1
          PROVE  h[n] = Retained(h, profiles, name, n)
        <3>1. n = 0 \/ n - 1 \in 0 .. m OBVIOUS
        <3>2. n # 0 => h[n - 1] = g[n - 1] BY <2>2, <3>1
        <3>3. Retained(h, profiles, name, n) = Retained(g, profiles, name, n)
            <4> HIDE DEF h
            <4> QED BY <3>1, <3>2 DEF Retained
        <3>4. CASE n = m + 1
            <4> HIDE DEF h
            <4> QED BY <2>3, <3>3, <3>4
        <3>5. CASE n \in 0 .. m
            <4>1. g[n] = Retained(g, profiles, name, n)
                <5>1. g = [i \in 0 .. m |-> Retained(g, profiles, name, i)] BY <2>1 DEF Retains
                <5> QED BY <3>5, <5>1
            <4> HIDE DEF h
            <4> QED BY <2>2, <3>3, <3>5, <4>1
        <3> QED BY <3>4, <3>5
    <2>5. h[m + 1] \in Seq(S)
        <3>1. m + 1 \in 1 .. Len(profiles) /\ (m + 1) - 1 = m /\ m \in 0 .. m /\ m + 1 # 0
            BY <1>a, <1>2
        <3>2. g[m] \in Seq(S) /\ profiles[m + 1] \in S BY <2>1, <3>1
        <3>3. Append(g[m], profiles[m + 1]) \in Seq(S) BY <3>2
        <3>4. h[m + 1] = g[m] \/ h[m + 1] = Append(g[m], profiles[m + 1])
            <4> HIDE DEF h
            <4> QED BY <2>3, <3>1 DEF Retained
        <3> HIDE DEF h
        <3> QED BY <3>2, <3>3, <3>4
    <2>6. h \in [0 .. m + 1 -> Seq(S)]
        <3>1. \A n \in 0 .. m + 1 : n = m + 1 \/ n \in 0 .. m OBVIOUS
        <3>2. h = [n \in 0 .. m + 1 |-> h[n]] OBVIOUS
        <3> HIDE DEF h
        <3> QED BY <2>1, <2>2, <2>5, <3>1, <3>2
    <2>7. h = [n \in 0 .. m + 1 |-> Retained(h, profiles, name, n)]
        <3>1. h = [n \in 0 .. m + 1 |-> h[n]] OBVIOUS
        <3> HIDE DEF h
        <3> QED BY <2>4, <3>1
    <2> HIDE DEF h
    <2> QED BY <2>6, <2>7 DEF Retains
<1> HIDE DEF Good
<1>3. Bad = {}
    <2> SUFFICES ASSUME Bad # {} PROVE FALSE
        OBVIOUS
    <2>1. Bad \in SUBSET Nat OBVIOUS
    <2>2. PICK m \in Bad : \A n \in Bad : m <= n
        <3> HIDE DEF Bad
        <3> QED BY <2>1, LeastOf
    <2>3. m \in Nat /\ m # 0 /\ m <= Len(profiles) BY <1>a, <1>1
    <2>4. m - 1 \in Nat /\ m - 1 < Len(profiles) /\ (m - 1) + 1 = m BY <1>a, <2>3
    <2>5. Good(m - 1)
        <3>1. m - 1 \notin Bad
            <4> HIDE DEF Bad
            <4> QED BY <2>2, <2>3, <2>4
        <3>2. m - 1 \in 0 .. Len(profiles) BY <1>a, <2>4
        <3> QED BY <3>1, <3>2
    <2>6. Good((m - 1) + 1) BY <1>2, <2>4, <2>5
    <2> QED BY <2>4, <2>6
<1>4. Good(Len(profiles)) BY <1>a, <1>3
<1> QED BY <1>a, <1>4 DEF Good

\* What retain keeps is a list of what was there.
LEMMA WithoutIsList ==
    ASSUME NEW S, NEW profiles \in Seq(S), NEW name
    PROVE  Without(profiles, name) \in Seq(S)
<1> DEFINE g == CHOOSE g : Retains(g, profiles, name, Len(profiles))
           Bad == {n \in 0 .. Len(profiles) : g[n] \notin Seq(S)}
<1>a. Len(profiles) \in Nat OBVIOUS
<1>1. Without(profiles, name) = g[Len(profiles)]
    BY DEF Without, Retains, Retained
<1>2. Retains(g, profiles, name, Len(profiles)) BY RetainedExists
<1> HIDE DEF g
<1>3. \A n \in 0 .. Len(profiles) : g[n] = Retained(g, profiles, name, n) BY <1>2 DEF Retains
<1>4. Bad = {}
    <2> SUFFICES ASSUME Bad # {} PROVE FALSE
        OBVIOUS
    <2>1. Bad \in SUBSET Nat OBVIOUS
    <2>2. PICK n \in Bad : \A m \in Bad : n <= m
        <3> HIDE DEF Bad
        <3> QED BY <2>1, LeastOf
    <2>3. n \in 0 .. Len(profiles) /\ g[n] \notin Seq(S) /\ n \in Nat BY <1>a
    <2>4. n # 0
        <3>1. <<>> \in Seq(S) OBVIOUS
        <3> QED BY <1>3, <2>3, <3>1 DEF Retained
    <2>5. n - 1 \in 0 .. Len(profiles) /\ n \in 1 .. Len(profiles) BY <1>a, <2>3, <2>4
    <2>6. n - 1 \notin Bad
        <3> HIDE DEF Bad
        <3> QED BY <2>2, <2>3, <2>5
    <2>7. g[n - 1] \in Seq(S) /\ profiles[n] \in S BY <2>5, <2>6
    <2>8. Append(g[n - 1], profiles[n]) \in Seq(S) BY <2>7
    <2>9. g[n] = g[n - 1] \/ g[n] = Append(g[n - 1], profiles[n])
        BY <1>3, <2>3, <2>4 DEF Retained
    <2> QED BY <2>3, <2>7, <2>8, <2>9
<1> QED BY <1>1, <1>4, <1>a

-----------------------------------------------------------------------------
(* The files that are written                                                *)

\* A mutation makes a configuration of a configuration.
LEMMA MutatedHolds ==
    ASSUME NEW config, IsConfig(config), NEW r, IsProfile(r.profile)
    PROVE  IsConfig(Mutated(config, r)) /\ Mutated(config, r) # Broken
<1> DEFINE ps == config.profiles
           S == ElementsOf(ps) \cup {r.profile}
<1>1. ps \in Seq(S) /\ \A p \in S : IsProfile(p)
    <2>1. ps \in Seq(ElementsOf(ps)) BY DEF IsConfig, IsList
    <2>2. ps \in Seq(S) BY <2>1
    <2> QED BY <2>2 DEF IsConfig
<1>2. PICK qs \in Seq(S) : Mutated(config, r) = [config EXCEPT !.profiles = qs]
    <2>1. CASE r.op = "create"
        <3>1. Append(ps, r.profile) \in Seq(S) BY <1>1
        <3> QED BY <2>1, <3>1 DEF Mutated
    <2>2. CASE r.op # "create"
        <3>1. Without(ps, r.profile.name) \in Seq(S) BY <1>1, WithoutIsList
        <3> QED BY <2>2, <3>1 DEF Mutated
    <2> QED BY <2>1, <2>2
<1>3. IsList(qs) /\ ElementsOf(qs) \subseteq S BY ListOf
<1> DEFINE made == [config EXCEPT !.profiles = qs]
<1>4. DOMAIN made = DOMAIN config /\ made.profiles = qs /\ made.tenants = config.tenants
    BY DEF IsConfig
<1>5. IsConfig(made)
    <2> HIDE DEF made, S
    <2> QED BY <1>1, <1>3, <1>4 DEF IsConfig
<1>6. made # Broken
    <2>1. "profiles" \in DOMAIN made BY <1>4 DEF IsConfig
    <2> HIDE DEF made
    <2> QED BY <2>1 DEF Broken
<1> QED BY <1>2, <1>5, <1>6

\* At first the file is what it was before the gateway ran.
LEMMA FileInit ==
    ASSUME Init
    PROVE  FileInv
<1>1. Arrays BY DEF Init, Arrays
<1>2. Sane(file) BY StoreAssumption DEF Init, Sane, IsFile
<1>3. Sane(disk) BY <1>2 DEF Init
<1>4. ASSUME NEW w \in Writers PROVE TempInv(w) BY DEF Init, TempInv
<1> QED BY <1>1, <1>2, <1>3, <1>4 DEF FileInv

\* Every step keeps the arrays of the writers.
LEMMA ArraysStep ==
    ASSUME FileInv, [Next]_vars
    PROVE  Arrays'
<1> USE DEF FileInv, Arrays
<1>1. ASSUME NEW w \in Writers,
             \/ Prepare(w) \/ Check(w) \/ CreateTemp(w) \/ WriteTemp(w)
             \/ SyncTemp(w) \/ Recheck(w) \/ SyncDir(w) \/ RemoveTemp(w) \/ Fail(w)
      PROVE  Arrays'
    BY <1>1 DEF Prepare, Check, CreateTemp, WriteTemp, SyncTemp, Recheck, SyncDir, RemoveTemp,
                Fail, Goto, local
<1>2. ASSUME NEW w \in Writers, Rename(w) PROVE Arrays'
    <2>1. file.gen + 1 \in Nat BY DEF Sane
    <2>2. mine' \in [Writers -> Nat] BY <1>2, <2>1 DEF Rename
    <2> QED BY <1>2, <2>2 DEF Rename, Goto, Overtake, local
<1>3. ASSUME NEW w \in Writers, Crash(w) PROVE Arrays'
    BY <1>3 DEF Crash, Forget
<1>4. CASE Edit BY <1>4 DEF Edit, Overtake, local
<1>5. CASE PowerLoss BY <1>5 DEF PowerLoss, Forget
<1>6. CASE UNCHANGED vars BY <1>6 DEF vars, local
<1> QED BY <1>1, <1>2, <1>3, <1>4, <1>5, <1>6 DEF Next

\* A writer's files stay as they are where the writer does not move.
LEMMA WriterStill ==
    ASSUME FileInv, NEW v \in Writers, pc'[v] = pc[v], temp'[v] = temp[v], new'[v] = new[v]
    PROVE  TempInv(v)'
BY DEF FileInv, TempInv

\* Every step of a writer leaves its temporary file as the next one needs it.
LEMMA TempStep ==
    ASSUME FileInv, [Next]_vars, NEW v \in Writers
    PROVE  TempInv(v)'
<1> USE DEF FileInv
<1>1. ASSUME NEW w \in Writers, w # v,
             \/ Prepare(w) \/ Check(w) \/ CreateTemp(w) \/ WriteTemp(w)
             \/ SyncTemp(w) \/ Recheck(w) \/ Rename(w) \/ SyncDir(w) \/ RemoveTemp(w)
             \/ Fail(w) \/ Crash(w)
      PROVE  TempInv(v)'
    <2>1. pc'[v] = pc[v] /\ temp'[v] = temp[v] /\ new'[v] = new[v]
        BY <1>1 DEF Prepare, Check, CreateTemp, WriteTemp, SyncTemp, Recheck, Rename, SyncDir,
                    RemoveTemp, Fail, Crash, Forget, Goto, local, Arrays
    <2> QED BY <2>1, WriterStill
<1>2. CASE Prepare(v)
    <2>1. CASE pc'[v] = "failed" BY <2>1 DEF TempInv
    <2>2. CASE pc'[v] # "failed"
        <3>1. PICK r \in Requests :
                  /\ Loads(file.content) /\ MutationAllowed(file.content, r)
                  /\ new' = [new EXCEPT ![v] = Mutated(file.content, r)]
                  /\ pc' = [pc EXCEPT ![v] = "check"]
            BY <1>2, <2>2 DEF Prepare, Goto, Arrays
        <3>2. IsConfig(file.content)
            BY <3>1 DEF Sane, Loads, Parses
        <3>3. new'[v] = Mutated(file.content, r) /\ pc'[v] = "check" BY <3>1 DEF Arrays
        <3>4. Loads(new'[v]) /\ IsConfig(new'[v])
            BY <3>1, <3>2, <3>3, MutatedHolds, StoreAssumption DEF Loads, Parses, MutationAllowed
        <3> QED BY <3>3, <3>4 DEF TempInv
    <2> QED BY <2>1, <2>2
<1>3. CASE Check(v) \/ CreateTemp(v)
    BY <1>3 DEF Check, CreateTemp, Goto, local, Arrays, TempInv
<1>9. CASE WriteTemp(v)
    <2>1. temp[v] = [content |-> Broken, synced |-> FALSE] BY <1>9 DEF WriteTemp, TempInv
    <2>2. temp'[v] = [temp[v] EXCEPT !.content = new[v]] /\ pc'[v] = "sync" /\ new' = new
        BY <1>9 DEF WriteTemp, Goto, local, Arrays
    <2>3. temp'[v] = [content |-> new[v], synced |-> FALSE]
        <3>1. temp[v] \in [content : {Broken}, synced : {FALSE}] BY <2>1
        <3>2. temp'[v] \in [content : {new[v]}, synced : {FALSE}] BY <2>2, <3>1
        <3> QED BY <3>2
    <2>4. Loads(new[v]) /\ IsConfig(new[v]) BY <1>9 DEF WriteTemp, TempInv
    <2> QED BY <2>2, <2>3, <2>4 DEF TempInv
<1>10. CASE SyncTemp(v)
    <2>1. temp[v] = [content |-> new[v], synced |-> FALSE] BY <1>10 DEF SyncTemp, TempInv
    <2>2. temp'[v] = [temp[v] EXCEPT !.synced = TRUE] /\ pc'[v] = "recheck" /\ new' = new
        BY <1>10 DEF SyncTemp, Goto, local, Arrays
    <2>3. temp'[v] = [content |-> new[v], synced |-> TRUE]
        <3>1. temp[v] \in [content : {new[v]}, synced : {FALSE}] BY <2>1
        <3>2. temp'[v] \in [content : {new[v]}, synced : {TRUE}] BY <2>2, <3>1
        <3> QED BY <3>2
    <2>4. Loads(new[v]) /\ IsConfig(new[v]) BY <1>10 DEF SyncTemp, TempInv
    <2> QED BY <2>2, <2>3, <2>4 DEF TempInv
<1>4. CASE Recheck(v) \/ Rename(v) \/ SyncDir(v) \/ RemoveTemp(v) \/ Fail(v)
    BY <1>4 DEF Recheck, Rename, SyncDir, RemoveTemp, Fail, Goto, local, Arrays, TempInv
<1>5. CASE Crash(v) BY <1>5 DEF Crash, Forget, TempInv
<1>6. CASE Edit BY <1>6, WriterStill DEF Edit, local
<1>7. CASE PowerLoss
    <2>1. pc'[v] \in {"idle", "ok", "failed"} BY <1>7 DEF PowerLoss, Forget
    <2> QED BY <2>1 DEF TempInv
<1>8. CASE UNCHANGED vars BY <1>8, WriterStill DEF vars, local
<1> QED BY <1>1, <1>2, <1>3, <1>4, <1>5, <1>6, <1>7, <1>8, <1>9, <1>10 DEF Next

\* Every step leaves a sane file at the path and a sane file on the disk: what
\* was not synced and may be lost is none of the gateway's.
LEMMA SaneStep ==
    ASSUME FileInv, [Next]_vars
    PROVE  Sane(file)' /\ Sane(disk)'
<1> USE DEF FileInv
<1>1. ASSUME NEW w \in Writers,
             \/ Prepare(w) \/ Check(w) \/ CreateTemp(w) \/ WriteTemp(w)
             \/ SyncTemp(w) \/ Recheck(w) \/ SyncDir(w) \/ RemoveTemp(w) \/ Fail(w) \/ Crash(w)
      PROVE  file' = file /\ disk' \in {file, disk}
    BY <1>1 DEF Prepare, Check, CreateTemp, WriteTemp, SyncTemp, Recheck, SyncDir, RemoveTemp,
                Fail, Crash
<1>2. ASSUME NEW w \in Writers, Rename(w) PROVE Sane(file)' /\ Sane(disk)'
    <2>1. temp[w] = [content |-> new[w], synced |-> TRUE] /\ Loads(new[w])
          /\ IsConfig(new[w])
        BY <1>2 DEF Rename, TempInv
    <2>2. file' = [content |-> new[w], gen |-> file.gen + 1, by |-> w, synced |-> TRUE,
                   link |-> FALSE]
        BY <1>2, <2>1 DEF Rename
    <2>3. Sane(file)' BY <2>1, <2>2 DEF Sane, IsFile
    <2> QED BY <1>2, <2>3 DEF Rename
<1>3. CASE Edit
    <2>1. PICK content \in Edits, link \in BOOLEAN :
              file' = [content |-> content, gen |-> file.gen + 1, by |-> None,
                       synced |-> FALSE, link |-> link]
        BY <1>3 DEF Edit
    <2>2. Sane(file)' BY <2>1, StoreAssumption DEF Sane, IsFile
    <2> QED BY <1>3, <2>2 DEF Edit
<1>4. CASE PowerLoss
    <2>1. PICK f \in {file, disk} :
              /\ \/ file' = f
                 \/ ~f.synced /\ file' = [f EXCEPT !.content = Broken]
              /\ disk' = [file' EXCEPT !.synced = TRUE]
        BY <1>4 DEF PowerLoss
    <2>2. Sane(f) BY <2>1
    <2>3. Sane(file)' BY <2>1, <2>2 DEF Sane, IsFile
    <2>4. Sane(disk)' BY <2>1, <2>3 DEF Sane, IsFile
    <2> QED BY <2>3, <2>4
<1>5. CASE UNCHANGED vars BY <1>5 DEF vars
<1> QED BY <1>1, <1>2, <1>3, <1>4, <1>5 DEF Next

\* Every step, faults included, keeps the files and the temporary files sane.
LEMMA FileStep ==
    ASSUME FileInv, [Next]_vars
    PROVE  FileInv'
BY ArraysStep, TempStep, SaneStep DEF FileInv

\* What write_yaml_atomic put at the path loads, also after a crash or a loss of
\* power at any of its steps: GatewayFilesLoad.
THEOREM GatewayFilesAreWhole == Spec => []GatewayFilesLoad
<1>1. FileInv => GatewayFilesLoad BY DEF FileInv, Sane, GatewayFilesLoad
<1> QED BY FileInit, FileStep, <1>1, PTL DEF Spec

-----------------------------------------------------------------------------
(* What is on the disk                                                       *)

\* Every step keeps the disk behind the path and a writer that is done behind
\* the disk. The sync of the directory is the step that lets the disk catch up.
LEMMA DiskStep ==
    ASSUME FileInv, DiskInv, [Next]_vars
    PROVE  DiskInv'
<1> USE DEF DiskInv
<1>t. file.gen \in Nat /\ disk.gen \in Nat /\ \A w \in Writers : mine[w] \in Nat
    BY DEF FileInv, Sane, Arrays
<1>1. ASSUME NEW w \in Writers,
             \/ Prepare(w) \/ Check(w) \/ CreateTemp(w) \/ WriteTemp(w)
             \/ SyncTemp(w) \/ Recheck(w) \/ RemoveTemp(w) \/ Fail(w) \/ Crash(w)
      PROVE  DiskInv'
    <2>1. UNCHANGED <<file, disk, mine>>
        BY <1>1 DEF Prepare, Check, CreateTemp, WriteTemp, SyncTemp, Recheck, RemoveTemp, Fail,
                    Crash
    <2>2. \A v \in Writers : pc'[v] = pc[v] \/ pc'[v] \notin {"syncdir", "ok"}
        BY <1>1 DEF FileInv, Arrays, Prepare, Check, CreateTemp, WriteTemp, SyncTemp, Recheck,
                    RemoveTemp, Fail, Crash, Forget, Goto
    <2> QED BY <2>1, <2>2
<1>2. ASSUME NEW w \in Writers, Rename(w) PROVE DiskInv'
    <2>1. file'.gen = file.gen + 1 /\ disk' = disk BY <1>2 DEF Rename
    <2>2. \A v \in Writers : v # w => pc'[v] = pc[v] /\ mine'[v] = mine[v]
        BY <1>2 DEF Rename, Goto, FileInv, Arrays
    <2>3. pc'[w] = "syncdir" /\ mine'[w] = file.gen + 1
        BY <1>2 DEF Rename, Goto, FileInv, Arrays
    <2> QED BY <1>t, <2>1, <2>2, <2>3
<1>3. ASSUME NEW w \in Writers, SyncDir(w) PROVE DiskInv'
    <2>1. disk' = file /\ file' = file /\ mine' = mine /\ pc[w] = "syncdir" BY <1>3 DEF SyncDir
    <2>2. \A v \in Writers : pc'[v] = IF v = w THEN "ok" ELSE pc[v]
        BY <1>3 DEF SyncDir, Goto, FileInv, Arrays
    <2> QED BY <1>t, <2>1, <2>2
<1>4. CASE Edit
    <2>1. file'.gen = file.gen + 1 /\ UNCHANGED <<disk, pc, mine>> BY <1>4 DEF Edit
    <2> QED BY <1>t, <2>1
<1>5. CASE PowerLoss
    <2>1. file'.gen \in {file.gen, disk.gen} /\ disk'.gen = file'.gen
        BY <1>5 DEF PowerLoss, FileInv, Sane, IsFile
    <2>2. \A v \in Writers : (pc'[v] = pc[v] /\ pc[v] \in {"ok", "failed"}) \/ pc'[v] = "idle"
        BY <1>5 DEF PowerLoss, Forget
    <2>3. mine' = mine BY <1>5 DEF PowerLoss
    <2> QED BY <1>t, <2>1, <2>2, <2>3
<1>6. CASE UNCHANGED vars BY <1>6 DEF vars
<1> QED BY <1>1, <1>2, <1>3, <1>4, <1>5, <1>6 DEF Next

\* A mutation that execute_profile_mutation reported as done is on the disk, or
\* something written after it is: DoneIsDurable.
THEOREM DoneStaysDone == Spec => []DoneIsDurable
<1>1. Init => DiskInv BY DEF Init, DiskInv
<1>2. FileInv /\ DiskInv => DoneIsDurable
    BY DEF FileInv, DiskInv, DoneIsDurable, Sane, Arrays
<1> QED BY FileInit, FileStep, <1>1, DiskStep, <1>2, PTL DEF Spec

-----------------------------------------------------------------------------
(* What is overwritten                                                       *)

\* A writer gets to the rename only by comparing the file once more, and every
\* change after that comparison marks it as overtaken.
LEMMA OverwriteStep ==
    ASSUME Arrays, OverwritesWhatItRead, [Next]_vars
    PROVE  OverwritesWhatItRead'
<1> USE DEF OverwritesWhatItRead, Arrays
<1>1. ASSUME NEW w \in Writers,
             \/ Prepare(w) \/ Check(w) \/ CreateTemp(w) \/ WriteTemp(w)
             \/ SyncTemp(w) \/ SyncDir(w) \/ RemoveTemp(w) \/ Fail(w) \/ Crash(w)
      PROVE  OverwritesWhatItRead'
    <2>1. UNCHANGED <<file, raced>>
        BY <1>1 DEF Prepare, Check, CreateTemp, WriteTemp, SyncTemp, SyncDir, RemoveTemp, Fail,
                    Crash
    <2>2. \A v \in Writers : pc'[v] = "rename" => pc[v] = "rename" /\ loaded'[v] = loaded[v]
        BY <1>1 DEF Prepare, Check, CreateTemp, WriteTemp, SyncTemp, SyncDir, RemoveTemp, Fail,
                    Crash, Forget, Goto, local
    <2> QED BY <2>1, <2>2
<1>2. ASSUME NEW w \in Writers, Recheck(w) PROVE OverwritesWhatItRead'
    BY <1>2 DEF Recheck, Goto, local
<1>3. ASSUME NEW w \in Writers, Rename(w) PROVE OverwritesWhatItRead'
    BY <1>3 DEF Rename, Goto, Overtake
<1>4. CASE Edit
    <2>1. UNCHANGED <<pc, loaded>> BY <1>4 DEF Edit, local
    <2>2. \A v \in Writers : v # None /\ pc[v] = "rename" => raced'[v]
        BY <1>4 DEF Edit, Overtake
    <2> QED BY <2>1, <2>2, StoreAssumption
<1>5. CASE PowerLoss
    <2>1. \A v \in Writers : pc'[v] # "rename" BY <1>5 DEF PowerLoss, Forget
    <2> QED BY <2>1
<1>6. CASE UNCHANGED vars BY <1>6 DEF vars, local
<1> QED BY <1>1, <1>2, <1>3, <1>4, <1>5, <1>6 DEF Next

\* A writer about to rename replaces the file it read, unless that file was
\* changed between the second comparison of write_yaml_atomic and its rename:
\* OverwritesWhatItRead.
THEOREM ChangesAreSeen == Spec => []OverwritesWhatItRead
<1>1. Init => OverwritesWhatItRead BY DEF Init, OverwritesWhatItRead
<1>2. FileInv => Arrays BY DEF FileInv
<1> QED BY FileInit, FileStep, <1>1, <1>2, OverwriteStep, PTL DEF Spec

-----------------------------------------------------------------------------
(* What loads                                                                *)

\* resolve accepts exactly one credential, with a type that says so, and what it
\* accepts has a summary.
LEMMA CredentialsSound ==
    ASSUME NEW a \in Auths
    PROVE  /\ resolve_auth(a) <=> OneCredential(a)
           /\ resolve_auth(a) => summary(a)
<1> DEFINE kp == "key_path" \in a.fields
           pp == "passphrase" \in a.fields
           pw == "password" \in a.fields
           id == "credential_id" \in a.fields
<1>1. a.kind \in Kinds \cup {None} /\ a.fields \subseteq Fields BY DEF Auths
<1>2. /\ a.fields = {"key_path"} <=> kp /\ ~pp /\ ~pw /\ ~id
      /\ a.fields = {"key_path", "passphrase"} <=> kp /\ pp /\ ~pw /\ ~id
      /\ a.fields = {"password"} <=> ~kp /\ ~pp /\ pw /\ ~id
      /\ a.fields = {"credential_id"} <=> ~kp /\ ~pp /\ ~pw /\ id
    BY <1>1 DEF Fields
<1>3. /\ a.fields \cap {"credential_id", "password"} = {} <=> ~id /\ ~pw
      /\ a.fields \cap {"credential_id", "key_path", "passphrase"} = {} <=> ~id /\ ~kp /\ ~pp
      /\ a.fields \cap {"key_path", "passphrase"} # {} <=> kp \/ pp
    OBVIOUS
<1>4. None \notin {"key", "password", "external"} BY ConfigAssumption DEF Kinds
<1>5. a.kind \in {"key", "password", "external", None} BY <1>1 DEF Kinds
<1>6. /\ infer_kind(a) = "key" <=>
            a.kind = "key" \/ (a.kind = None /\ (kp \/ pp) /\ ~pw /\ ~id)
      /\ infer_kind(a) = "password" <=>
            a.kind = "password" \/ (a.kind = None /\ ~kp /\ ~pp /\ pw /\ ~id)
    <2> HIDE DEF kp, pp, pw, id
    <2>1. CASE a.kind = "external"
        BY <1>4, <2>1 DEF infer_kind
    <2>2. CASE a.kind \in {"key", "password"}
        BY <1>4, <2>2 DEF infer_kind
    <2>3. CASE a.kind = None
        <3>1. infer_kind(a) =
                 CASE (kp \/ pp) /\ ~pw /\ ~id -> "key"
                   [] ~(kp \/ pp) /\ pw /\ ~id -> "password"
                   [] ~(kp \/ pp) /\ ~pw /\ id -> "external"
                   [] OTHER -> None
            BY <1>3, <1>4, <2>3 DEF infer_kind, kp, pp, pw, id
        <3> QED BY <1>4, <2>3, <3>1
    <2> QED BY <1>5, <2>1, <2>2, <2>3
<1>7. resolve_auth(a) <=>
        \/ infer_kind(a) = "key" /\ kp /\ ~id /\ ~pw
        \/ infer_kind(a) = "password" /\ pw /\ ~id /\ ~kp /\ ~pp
    BY <1>3 DEF resolve_auth
<1>8. OneCredential(a) <=>
        \/ kp /\ ~pw /\ ~id /\ a.kind \in {None, "key"}
        \/ ~kp /\ ~pp /\ pw /\ ~id /\ a.kind \in {None, "password"}
    BY <1>2 DEF OneCredential
<1> HIDE DEF kp, pp, pw, id
<1> QED BY <1>4, <1>5, <1>6, <1>7, <1>8 DEF summary

\* What Sound asks of one profile.
SoundPart(p) ==
    /\ p.complete
    /\ \A m, n \in 1 .. Len(p.rules) : p.rules[m] = p.rules[n] => m = n
    /\ LET auths == {Or(a, p.auth) : a \in {p.target_auth} \cup ElementsOf(p.bastions)}
       IN  IF p.via = None THEN None \notin auths /\ \A a \in auths : OneCredential(a)
           ELSE auths = {None} /\ p.bastions = <<>>

\* What resolving asks of a profile itself is what Sound asks of it, and a profile that
\* has it can be shown.
LEMMA OwnPartsSound ==
    ASSUME NEW p, IsProfile(p)
    PROVE  /\ OwnPartValid(p) <=> SoundPart(p)
           /\ OwnPartValid(p) /\ p.via = None =>
                 /\ endpoint_summary(p.target_auth, p.auth)
                 /\ \A bastion \in ElementsOf(p.bastions) : endpoint_summary(bastion, p.auth)
<1> DEFINE E == {p.target_auth} \cup ElementsOf(p.bastions)
           auths == {Or(a, p.auth) : a \in E}
<1>1. validate_common(p) <=>
        p.complete /\ \A m, n \in 1 .. Len(p.rules) : p.rules[m] = p.rules[n] => m = n
    BY DistinctPlaces DEF IsProfile, validate_common
<1>2. \A a \in E : Or(a, p.auth) \in Auths \cup {None} BY DEF IsProfile, Or
<1>3. \A a \in E : /\ endpoint_valid(a, p.auth) <=>
                         Or(a, p.auth) # None /\ OneCredential(Or(a, p.auth))
                   /\ endpoint_valid(a, p.auth) => endpoint_summary(a, p.auth)
    BY <1>2, CredentialsSound DEF endpoint_valid, endpoint_summary
<1>4. CASE p.via = None
    <2>1. OwnPartValid(p) <=> validate_common(p) /\ \A a \in E : endpoint_valid(a, p.auth)
        BY <1>4 DEF OwnPartValid
    <2>2. (\A a \in E : endpoint_valid(a, p.auth)) <=>
              None \notin auths /\ \A a \in auths : OneCredential(a)
        BY <1>3
    <2>3. SoundPart(p) <=>
             /\ p.complete
             /\ \A m, n \in 1 .. Len(p.rules) : p.rules[m] = p.rules[n] => m = n
             /\ None \notin auths /\ \A a \in auths : OneCredential(a)
        BY <1>4 DEF SoundPart
    <2>4. (\A a \in E : endpoint_valid(a, p.auth)) =>
              /\ endpoint_summary(p.target_auth, p.auth)
              /\ \A bastion \in ElementsOf(p.bastions) : endpoint_summary(bastion, p.auth)
        BY <1>3
    <2> HIDE DEF auths
    <2> QED BY <1>1, <2>1, <2>2, <2>3, <2>4
<1>5. CASE p.via # None
    <2>1. p.bastions = <<>> => (auths = {None} <=> p.auth = None /\ p.target_auth = None)
        <3>1. ElementsOf(<<>>) = {} BY DEF ElementsOf
        <3> QED BY <3>1 DEF Or
    <2>2. SoundPart(p) <=>
             /\ p.complete
             /\ \A m, n \in 1 .. Len(p.rules) : p.rules[m] = p.rules[n] => m = n
             /\ auths = {None} /\ p.bastions = <<>>
        BY <1>5 DEF SoundPart
    <2>3. OwnPartValid(p) <=>
             /\ validate_common(p)
             /\ p.bastions = <<>> /\ p.auth = None /\ p.target_auth = None
        BY <1>5 DEF OwnPartValid
    <2> HIDE DEF auths
    <2> QED BY <1>1, <1>5, <2>1, <2>2, <2>3
<1> QED BY <1>4, <1>5

\* What resolving makes of a name and of the names met before it, where f holds what
\* it makes of the others.
Turn(f, config, at) ==
    /\ at.name \notin at.stack
    /\ \E p \in ElementsOf(config.profiles) :
          /\ p.name = at.name
          /\ OwnPartValid(p)
          /\ p.via # None => f[[name |-> p.via, stack |-> at.stack \cup {at.name}]]

Visits == [name : Names, stack : SUBSET Names]

Resolves(f, config) == f = [at \in Visits |-> Turn(f, config, at)]

\* The recursive definition has a solution: what an accepting set of visits holds.
LEMMA ResolutionExists ==
    ASSUME NEW config, IsConfig(config)
    PROVE  \E f : Resolves(f, config)
<1> DEFINE Then(p, at) == [name |-> p.via, stack |-> at.stack \cup {at.name}]
           Takes(p, at, X) == /\ p.name = at.name /\ OwnPartValid(p)
                              /\ p.via # None => Then(p, at) \in X
           Accepts(X) == \A at \in X : /\ at.name \notin at.stack
                                      /\ \E p \in ElementsOf(config.profiles) : Takes(p, at, X)
           f == [at \in Visits |-> \E X \in SUBSET Visits : at \in X /\ Accepts(X)]
<1>1. ASSUME NEW at \in Visits
      PROVE  f[at] = Turn(f, config, at)
    <2>1. f[at] <=> \E X \in SUBSET Visits : at \in X /\ Accepts(X)
        <3> HIDE DEF Accepts
        <3> QED OBVIOUS
    <2>2. \A p \in ElementsOf(config.profiles) : p.via # None => Then(p, at) \in Visits
        BY DEF IsConfig, IsProfile, Visits
    <2>3. ASSUME NEW X \in SUBSET Visits, at \in X, Accepts(X)
          PROVE  Turn(f, config, at)
        <3>1. at.name \notin at.stack BY <2>3
        <3>2. PICK p \in ElementsOf(config.profiles) : Takes(p, at, X) BY <2>3
        <3>3. p.via # None => f[Then(p, at)]
            <4> SUFFICES ASSUME p.via # None PROVE f[Then(p, at)]
                OBVIOUS
            <4>1. Then(p, at) \in X /\ Then(p, at) \in Visits BY <3>2, <2>2
            <4> HIDE DEF Then, Accepts
            <4> QED BY <2>3, <4>1
        <3> HIDE DEF f
        <3> QED BY <3>1, <3>2, <3>3 DEF Turn
    <2>4. ASSUME Turn(f, config, at)
          PROVE  \E X \in SUBSET Visits : at \in X /\ Accepts(X)
        <3>1. at.name \notin at.stack BY <2>4 DEF Turn
        <3>2. PICK p \in ElementsOf(config.profiles) :
                  /\ p.name = at.name /\ OwnPartValid(p)
                  /\ p.via # None => f[Then(p, at)]
            <4> HIDE DEF f
            <4> QED BY <2>4 DEF Turn
        <3>3. CASE p.via = None
            <4>1. Takes(p, at, {at}) BY <3>2, <3>3
            <4>2. Accepts({at})
                <5> HIDE DEF Takes
                <5> QED BY <3>1, <4>1
            <4> HIDE DEF Accepts
            <4> QED BY <4>2
        <3>4. CASE p.via # None
            <4>1. PICK X \in SUBSET Visits : Then(p, at) \in X /\ Accepts(X)
                <5>1. Then(p, at) \in Visits /\ f[Then(p, at)] BY <2>2, <3>2, <3>4
                <5> HIDE DEF Then, Accepts
                <5> QED BY <5>1
            <4> DEFINE Y == X \cup {at}
            <4>2. Takes(p, at, Y)
                <5>1. Then(p, at) \in Y BY <4>1
                <5> HIDE DEF Then, Y
                <5> QED BY <3>2, <3>4, <5>1
            <4>3. ASSUME NEW x \in X
                  PROVE  /\ x.name \notin x.stack
                         /\ \E q \in ElementsOf(config.profiles) : Takes(q, x, Y)
                <5>1. PICK q \in ElementsOf(config.profiles) : Takes(q, x, X) BY <4>1
                <5>2. X \subseteq Y OBVIOUS
                <5>3. Takes(q, x, Y)
                    <6> HIDE DEF Then, Y
                    <6> QED BY <5>1, <5>2
                <5>4. x.name \notin x.stack BY <4>1
                <5> HIDE DEF Takes
                <5> QED BY <5>3, <5>4
            <4>4. Accepts(Y)
                <5> HIDE DEF Takes
                <5>1. \A x \in Y : x = at \/ x \in X OBVIOUS
                <5> HIDE DEF Y
                <5> QED BY <3>1, <4>2, <4>3, <5>1
            <4>5. Y \in SUBSET Visits /\ at \in Y OBVIOUS
            <4> HIDE DEF Accepts, Y
            <4> QED BY <4>4, <4>5
        <3> QED BY <3>3, <3>4
    <2>5. f[at] \in BOOLEAN
        <3> HIDE DEF Accepts
        <3> QED OBVIOUS
    <2>6. Turn(f, config, at) \in BOOLEAN BY DEF Turn
    <2> HIDE DEF f, Accepts
    <2>7. f[at] <=> Turn(f, config, at) BY <2>1, <2>3, <2>4
    <2> QED BY <2>5, <2>6, <2>7
<1>2. f = [at \in Visits |-> f[at]] OBVIOUS
<1> HIDE DEF f
<1>3. f = [at \in Visits |-> Turn(f, config, at)] BY <1>1, <1>2
<1> QED BY <1>3 DEF Resolves

\* What a resolution says of a name and of the names met on the way to it.
Found(f, name, stack) == f[[name |-> name, stack |-> stack]]

\* resolve_profile_with asks a solution.
LEMMA ResolutionOf ==
    ASSUME NEW config, IsConfig(config)
    PROVE  \E f : /\ Resolves(f, config)
                  /\ \A name, stack :
                        resolve_profile_with(config, name, stack) <=> Found(f, name, stack)
<1> DEFINE f == CHOOSE g : Resolves(g, config)
<1>1. Resolves(f, config) BY ResolutionExists
<1>2. \A name, stack : resolve_profile_with(config, name, stack) <=> Found(f, name, stack)
    BY DEF Found, resolve_profile_with, Resolves, Turn, Visits
<1> QED BY <1>1, <1>2

\* A name resolves as the next one on its way does.
LEMMA ResolutionStep ==
    ASSUME NEW config, IsConfig(config), NEW f, Resolves(f, config),
           NEW n \in Names, NEW stack \in SUBSET Names
    PROVE  Found(f, n, stack) <=>
              /\ n \notin stack
              /\ \E p \in ElementsOf(config.profiles) :
                    /\ p.name = n
                    /\ OwnPartValid(p)
                    /\ p.via # None => Found(f, p.via, stack \cup {n})
<1> DEFINE at == [name |-> n, stack |-> stack]
<1>1. at \in Visits /\ at.name = n /\ at.stack = stack BY DEF Visits
<1>2. f[at] = Turn(f, config, at)
    <2> HIDE DEF at
    <2> QED BY <1>1 DEF Resolves
<1>3. Turn(f, config, at) <=>
        /\ n \notin stack
        /\ \E p \in ElementsOf(config.profiles) :
              /\ p.name = n
              /\ OwnPartValid(p)
              /\ p.via # None => Found(f, p.via, stack \cup {n})
    <2> HIDE DEF at
    <2> QED BY <1>1 DEF Turn, Found
<1> HIDE DEF at
<1>4. f[at] <=> Turn(f, config, at) BY <1>2
<1>5. f[at] <=> Found(f, n, stack) BY DEF Found, at
<1> QED BY <1>3, <1>4, <1>5

\* A name that resolves is in the file, and where no two profiles have a name, a
\* profile's name resolves with its own part and, behind a delegation, the rest.
LEMMA ResolutionOfProfile ==
    ASSUME NEW config, IsConfig(config), NEW f, Resolves(f, config), NEW stack \in SUBSET Names,
           \A p, q \in ElementsOf(config.profiles) : p.name = q.name => p = q
    PROVE  /\ \A n \in Names : Found(f, n, stack) => n \in NamesOf(config)
           /\ \A p \in ElementsOf(config.profiles) :
                 Found(f, p.name, stack) <=>
                    /\ p.name \notin stack /\ OwnPartValid(p)
                    /\ p.via # None => Found(f, p.via, stack \cup {p.name})
<1>1. ASSUME NEW n \in Names
      PROVE  Found(f, n, stack) <=>
                /\ n \notin stack
                /\ \E p \in ElementsOf(config.profiles) :
                      /\ p.name = n
                      /\ OwnPartValid(p)
                      /\ p.via # None => Found(f, p.via, stack \cup {n})
    BY ResolutionStep
<1>2. ASSUME NEW n \in Names, Found(f, n, stack)
      PROVE  n \in NamesOf(config)
    BY <1>1, <1>2 DEF NamesOf
<1>3. ASSUME NEW p \in ElementsOf(config.profiles)
      PROVE  Found(f, p.name, stack) <=>
                /\ p.name \notin stack /\ OwnPartValid(p)
                /\ p.via # None => Found(f, p.via, stack \cup {p.name})
    <2>1. p.name \in Names BY DEF IsConfig, IsProfile
    <2> QED BY <1>1, <2>1
<1> QED BY <1>2, <1>3

\* Resolving walks along via_profile to profiles it has not met: where all names
\* resolve, no set of profiles delegates within itself.
LEMMA ResolvedEnds ==
    ASSUME NEW config, IsConfig(config), IsFiniteSet(NamesOf(config)),
           \A p, q \in ElementsOf(config.profiles) : p.name = q.name => p = q,
           \A name \in NamesOf(config) : resolve_profile_with(config, name, {})
    PROVE  DelegationsEnd(config)
<1> DEFINE ps == ElementsOf(config.profiles)
           names == NamesOf(config)
<1>1. PICK f : /\ Resolves(f, config)
               /\ \A name, stack : resolve_profile_with(config, name, stack) <=> Found(f, name, stack)
    BY ResolutionOf
<1>2. names = {p.name : p \in ps} /\ names \subseteq Names BY DEF NamesOf, IsConfig, IsProfile
<1>3. ASSUME NEW n \in names, NEW stack \in SUBSET Names, Found(f, n, stack),
             NEW p \in ps, p.name = n
      PROVE  /\ n \notin stack /\ OwnPartValid(p)
             /\ p.via # None => p.via \in Names /\ Found(f, p.via, stack \cup {n})
    <2>1. p.via \in Names \cup {None} BY DEF IsConfig, IsProfile
    <2> QED BY <1>1, <1>3, <2>1, ResolutionOfProfile
<1>4. \A p \in ps : p.via # None => p.via \in names
    <2> TAKE p \in ps
    <2> SUFFICES ASSUME p.via # None PROVE p.via \in names
        OBVIOUS
    <2>1. p.name \in names BY <1>2
    <2>2. Found(f, p.name, {}) BY <1>1, <2>1
    <2>3. p.via \in Names /\ Found(f, p.via, {} \cup {p.name})
        BY <1>3, <2>1, <2>2
    <2>4. {} \cup {p.name} \in SUBSET Names BY <1>2, <2>1
    <2> QED BY <1>1, <2>3, <2>4, ResolutionOfProfile
<1>5. ASSUME NEW S \in SUBSET ps, S # {}, \A p \in S : p.via \in {q.name : q \in S}
      PROVE  FALSE
    <2> DEFINE T == {stack \in SUBSET Names :
                        \E p \in S : Found(f, p.name, stack)}
               A == {Cardinality(names \ stack) : stack \in T}
    <2>1. T # {}
        <3>1. PICK p \in S : TRUE BY <1>5
        <3>2. p.name \in names BY <1>2
        <3>3. Found(f, p.name, {}) BY <1>1, <3>2
        <3>4. {} \in SUBSET Names OBVIOUS
        <3>5. {} \in T BY <3>3, <3>4
        <3> HIDE DEF T
        <3> QED BY <3>5
    <2>2. ASSUME NEW stack \in T
          PROVE  \E n \in names : n \notin stack /\ stack \cup {n} \in T
        <3>1. PICK p \in S : Found(f, p.name, stack) OBVIOUS
        <3>2. p \in ps /\ p.name \in names /\ stack \in SUBSET Names BY <1>2
        <3>3. PICK q \in S : q.name = p.via BY <1>5
        <3>4. q \in ps /\ q.name # None BY <1>2, ConfigAssumption
        <3>5. p.name \notin stack /\ Found(f, q.name, stack \cup {p.name})
            BY <1>3, <3>1, <3>2, <3>3, <3>4
        <3>6. stack \cup {p.name} \in SUBSET Names BY <1>2, <3>2
        <3>7. stack \cup {p.name} \in T BY <3>5, <3>6
        <3> HIDE DEF T
        <3> QED BY <3>2, <3>5, <3>7
    <2>3. \A stack \in T : IsFiniteSet(names \ stack) /\ Cardinality(names \ stack) \in Nat
        BY FS_Difference, FS_CardinalityType
    <2>4. PICK stack \in T : \A other \in T :
              Cardinality(names \ stack) <= Cardinality(names \ other)
        <3> HIDE DEF T
        <3>1. A \in SUBSET Nat /\ A # {} BY <2>1, <2>3
        <3>2. PICK a \in A : \A b \in A : a <= b
            <4> HIDE DEF A
            <4> QED BY <3>1, LeastOf
        <3>3. PICK stack \in T : a = Cardinality(names \ stack) OBVIOUS
        <3>4. \A other \in T : Cardinality(names \ other) \in A OBVIOUS
        <3> HIDE DEF A
        <3> QED BY <3>2, <3>3, <3>4
    <2> HIDE DEF T, A
    <2>5. PICK n \in names : n \notin stack /\ stack \cup {n} \in T BY <2>2
    <2>6. names \ (stack \cup {n}) = (names \ stack) \ {n} OBVIOUS
    <2>7. Cardinality((names \ stack) \ {n}) = Cardinality(names \ stack) - 1
        BY <2>3, <2>5, FS_RemoveElement
    <2>8. Cardinality(names \ stack) <= Cardinality(names \ stack) - 1
        BY <2>4, <2>5, <2>6, <2>7
    <2> QED BY <2>3, <2>8
<1> QED BY <1>4, <1>5 DEF DelegationsEnd

\* What is closed under delegation, and what every closed set with n contains.
Closed(config, C) ==
    \A p \in ElementsOf(config.profiles) : p.name \in C /\ p.via # None => p.via \in C
Ahead(config, n) ==
    {m \in NamesOf(config) :
        \A C \in SUBSET NamesOf(config) : Closed(config, C) /\ n \in C => m \in C}

\* Where the delegations end, every name of the file resolves: a profile is not met
\* again on the way from it, since those from which it is met would delegate
\* within themselves.
LEMMA EndedResolves ==
    ASSUME NEW config, IsConfig(config), DelegationsEnd(config),
           \A p, q \in ElementsOf(config.profiles) : p.name = q.name => p = q,
           \A p \in ElementsOf(config.profiles) : OwnPartValid(p)
    PROVE  \A name \in NamesOf(config) : resolve_profile_with(config, name, {})
<1> DEFINE ps == ElementsOf(config.profiles)
           names == NamesOf(config)
<1>1. PICK f : /\ Resolves(f, config)
               /\ \A name, stack : resolve_profile_with(config, name, stack) <=> Found(f, name, stack)
    BY ResolutionOf
<1>2. names = {p.name : p \in ps} /\ names \subseteq Names BY DEF NamesOf, IsConfig, IsProfile
<1>3. \A p \in ps : p.via # None => p.via \in names BY DEF DelegationsEnd
<1>4. \A S \in SUBSET ps : S # {} => \E p \in S : p.via \notin {q.name : q \in S}
    BY DEF DelegationsEnd
<1>5. \A n \in names : n \in Ahead(config, n) BY DEF Ahead
<1>6. ASSUME NEW p \in ps, p.via # None
      PROVE  Ahead(config, p.via) \subseteq Ahead(config, p.name)
    <2> SUFFICES ASSUME NEW m \in Ahead(config, p.via) PROVE m \in Ahead(config, p.name)
        OBVIOUS
    <2>1. ASSUME NEW C \in SUBSET names, Closed(config, C), p.name \in C
          PROVE  m \in C
        <3>1. p.via \in C BY <1>6, <2>1 DEF Closed
        <3> QED BY <2>1, <3>1 DEF Ahead
    <2> QED BY <2>1 DEF Ahead
<1>7. ASSUME NEW n \in names, NEW q \in ps, q.name \in Ahead(config, n), q.via # None
      PROVE  q.via \in Ahead(config, n)
    <2>1. ASSUME NEW C \in SUBSET names, Closed(config, C), n \in C
          PROVE  q.via \in C
        <3>1. q.name \in C
            BY <1>7, <2>1 DEF Ahead
        <3> QED BY <1>7, <2>1, <3>1 DEF Closed
    <2> QED BY <1>3, <1>7, <2>1 DEF Ahead
<1>8. ASSUME NEW m \in names, NEW n \in names, m \in Ahead(config, n), m # n
      PROVE  \E q \in ps : q.name = n /\ q.via # None /\ m \in Ahead(config, q.via)
    <2>1. PICK q \in ps : q.name = n BY <1>2
    <2>2. ASSUME NEW C \in SUBSET names, Closed(config, C), q.via # None => q.via \in C
          PROVE  m \in C
        <3>1. Closed(config, C \cup {n}) BY <2>1, <2>2 DEF Closed
        <3>2. C \cup {n} \in SUBSET names /\ n \in C \cup {n} OBVIOUS
        <3>3. m \in C \cup {n} BY <1>8, <3>1, <3>2 DEF Ahead
        <3> QED BY <1>8, <3>3
    <2>3. q.via # None
        <3> SUFFICES ASSUME q.via = None PROVE FALSE
            OBVIOUS
        <3>1. Closed(config, {}) BY DEF Closed
        <3>2. {} \in SUBSET names OBVIOUS
        <3>3. m \in {} BY <2>2, <3>1, <3>2
        <3> QED BY <3>3
    <2>4. m \in Ahead(config, q.via) BY <2>2 DEF Ahead
    <2> QED BY <2>1, <2>3, <2>4
<1>9. ASSUME NEW p \in ps, p.via # None
      PROVE  p.name \notin Ahead(config, p.via)
    <2> SUFFICES ASSUME p.name \in Ahead(config, p.via) PROVE FALSE
        OBVIOUS
    <2> DEFINE S == {q \in ps : q.via # None /\ p.name \in Ahead(config, q.via)}
    <2>1. S \in SUBSET ps /\ S # {} BY <1>9
    <2>2. ASSUME NEW q \in S
          PROVE  q.via \in {r.name : r \in S}
        <3>1. q.via \in names /\ p.name \in names BY <1>2, <1>3
        <3>2. CASE p.name = q.via BY <1>9, <3>2
        <3>3. CASE p.name # q.via
            <4>1. PICK r \in ps : r.name = q.via /\ r.via # None /\ p.name \in Ahead(config, r.via)
                BY <1>8, <3>1, <3>3
            <4> QED BY <4>1
        <3> QED BY <3>2, <3>3
    <2> HIDE DEF S
    <2> QED BY <1>4, <2>1, <2>2
<1> DEFINE Bad == {p \in ps : \E stack \in SUBSET Names :
                       /\ stack \cap Ahead(config, p.name) = {}
                       /\ ~ Found(f, p.name, stack)}
<1>10. ASSUME NEW p \in Bad
       PROVE  p.via \in {q.name : q \in Bad}
    <2>1. PICK stack \in SUBSET Names : /\ stack \cap Ahead(config, p.name) = {}
                                        /\ ~ Found(f, p.name, stack)
        OBVIOUS
    <2>2. p \in ps /\ p.name \in names /\ p.name \in Names BY <1>2
    <2>3. p.name \notin stack BY <1>5, <2>1, <2>2
    <2>4. p.via # None /\ ~ Found(f, p.via, stack \cup {p.name})
        BY <1>1, <2>1, <2>2, <2>3, ResolutionOfProfile
    <2>5. PICK q \in ps : q.name = p.via BY <1>2, <1>3, <2>2, <2>4
    <2>6. (stack \cup {p.name}) \cap Ahead(config, q.name) = {}
        BY <1>6, <1>9, <2>1, <2>2, <2>4, <2>5
    <2>7. stack \cup {p.name} \in SUBSET Names BY <2>2
    <2>8. q \in Bad BY <2>4, <2>5, <2>6, <2>7
    <2> HIDE DEF Bad
    <2> QED BY <2>5, <2>8
<1>11. Bad = {}
    <2>1. Bad \in SUBSET ps OBVIOUS
    <2> HIDE DEF Bad
    <2> QED BY <1>4, <1>10, <2>1
<1>12. ASSUME NEW n \in names
       PROVE  resolve_profile_with(config, n, {})
    <2>1. PICK p \in ps : p.name = n BY <1>2
    <2>2. {} \in SUBSET Names /\ {} \cap Ahead(config, p.name) = {} OBVIOUS
    <2>3. Found(f, p.name, {}) BY <1>11, <2>2
    <2> QED BY <1>1, <2>1, <2>3
<1> QED BY <1>12

\* validate accepts exactly what is sound, and what it accepts can be shown.
LEMMA ValidIsSound ==
    ASSUME NEW config, IsConfig(config)
    PROVE  /\ validate(config) <=> Sound(config)
           /\ validate(config) => \A name \in NamesOf(config) : profile_summary(config, name)
<1> DEFINE ps == ElementsOf(config.profiles)
           Unique == \A m, n \in 1 .. Len(config.profiles) :
                         config.profiles[m].name = config.profiles[n].name => m = n
           Resolved == \A name \in NamesOf(config) : resolve_profile_with(config, name, {})
<1>1. /\ IsFiniteSet(NamesOf(config))
      /\ Cardinality(NamesOf(config)) = Len(config.profiles) <=> Unique
    BY NamesDistinct DEF IsConfig
<1>2. Distinct(config.tenants) <=>
        \A m, n \in 1 .. Len(config.tenants) : config.tenants[m] = config.tenants[n] => m = n
    BY DistinctPlaces DEF IsConfig
<1>3. \A p \in ps : IsProfile(p) BY DEF IsConfig
<1>4. Unique => \A p, q \in ps : p.name = q.name => p = q BY DEF ElementsOf
<1>5. ASSUME Unique, Resolved
      PROVE  \A p \in ps :
                /\ OwnPartValid(p)
                /\ p.via # None => resolve_profile_with(config, p.via, {p.name})
    <2> TAKE p \in ps
    <2>1. PICK f : /\ Resolves(f, config)
                   /\ \A name, stack :
                        resolve_profile_with(config, name, stack) <=> Found(f, name, stack)
        BY ResolutionOf
    <2>2. p.name \in NamesOf(config) /\ p.name \in Names BY <1>3 DEF NamesOf, IsProfile
    <2>3. Found(f, p.name, {}) BY <1>5, <2>1, <2>2
    <2>4. OwnPartValid(p) /\ (p.via # None => Found(f, p.via, {} \cup {p.name}))
        BY <1>4, <1>5, <2>1, <2>3, ResolutionOfProfile
    <2>5. {} \cup {p.name} = {p.name} OBVIOUS
    <2> QED BY <2>1, <2>4, <2>5
<1>6. Unique => (Resolved <=> DelegationsEnd(config) /\ \A p \in ps : OwnPartValid(p))
    <2>1. ASSUME Unique, Resolved
          PROVE  DelegationsEnd(config) /\ \A p \in ps : OwnPartValid(p)
        BY <1>1, <1>4, <1>5, <2>1, ResolvedEnds
    <2>2. ASSUME Unique, DelegationsEnd(config), \A p \in ps : OwnPartValid(p)
          PROVE  Resolved
        BY <1>4, <2>2, EndedResolves
    <2> HIDE DEF Unique, Resolved, ps
    <2> QED BY <2>1, <2>2
<1>7. \A p \in ps : OwnPartValid(p) <=> SoundPart(p) BY <1>3, OwnPartsSound
<1>8. validate(config) <=>
        /\ config.profiles # <<>> \/ config.tenants # <<>>
        /\ validate_mcp(config) /\ config.complete /\ Unique /\ Resolved
    BY <1>1 DEF validate
<1>9. Sound(config) <=>
        /\ config.profiles # <<>> \/ config.tenants # <<>>
        /\ validate_mcp(config) /\ config.complete /\ Unique
        /\ DelegationsEnd(config) /\ \A p \in ps : SoundPart(p)
    <2>1. validate_mcp(config) <=>
            /\ config.auth \in {"bearer", "oauth_jwt"}
            /\ config.auth = "oauth_jwt" =>
                  /\ config.oauth_complete
                  /\ \A m, n \in 1 .. Len(config.tenants) :
                        config.tenants[m] = config.tenants[n] => m = n
        BY <1>2 DEF validate_mcp
    <2> HIDE DEF Resolved
    <2> QED BY <2>1 DEF Sound, SoundPart
<1>10. validate(config) <=> Sound(config)
    <2> HIDE DEF Unique, Resolved, ps
    <2> QED BY <1>6, <1>7, <1>8, <1>9
<1>11. ASSUME validate(config), NEW name \in NamesOf(config)
       PROVE  profile_summary(config, name)
    <2>1. Unique /\ Resolved
        <3> HIDE DEF Unique, Resolved
        <3> QED BY <1>8, <1>11
    <2>2. PICK p \in ps : p.name = name BY DEF NamesOf
    <2>3. OwnPartValid(p) /\ (p.via # None => resolve_profile_with(config, p.via, {name}))
        BY <1>5, <2>1, <2>2
    <2>4. p.via = None =>
            /\ endpoint_summary(p.target_auth, p.auth)
            /\ \A bastion \in ElementsOf(p.bastions) : endpoint_summary(bastion, p.auth)
        BY <1>3, <2>3, OwnPartsSound
    <2> QED BY <2>2, <2>3, <2>4 DEF profile_summary
<1> QED BY <1>10, <1>11

\* validate accepts the file's content exactly when it is sound, and then every
\* profile can be shown: AcceptsSound.
THEOREM SoundFilesLoad == Spec => []AcceptsSound
<1>1. FileInv => AcceptsSound
    BY ValidIsSound DEF FileInv, Sane, AcceptsSound
<1> QED BY FileInit, FileStep, <1>1, PTL DEF Spec
=============================================================================
