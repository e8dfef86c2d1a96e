------------------------- MODULE OfficialRun_proofs -------------------------
(* Theorems about the directory of an official run, for any number of tasks, *)
(* starts and configurations: what is saved is kept and belongs together,    *)
(* what is published is cleaned up, and what is complete is readable.        *)
EXTENDS OfficialRun, FiniteSetTheorems, SequenceTheorems, TLAPS

-----------------------------------------------------------------------------
(* The order of the range *)

\* Sets of tasks are finite.
LEMMA TasksFinite ==
    ASSUME NEW S \in SUBSET Tasks
    PROVE  /\ IsFiniteSet(S)
           /\ Cardinality(S) \in 0..N
<1>1. IsFiniteSet(Tasks) /\ Cardinality(Tasks) = N
  BY RunDirectoryAssumption, FS_Interval DEF Tasks
<1>2. IsFiniteSet(S) /\ Cardinality(S) <= N
  BY <1>1, FS_Subset
<1>3. Cardinality(S) \in Nat
  BY <1>2, FS_CardinalityType
<1>. QED
  BY <1>2, <1>3, RunDirectoryAssumption

\* Only the whole range has as many tasks as the range.
LEMMA WholeRange ==
    ASSUME NEW S \in SUBSET Tasks, Cardinality(S) = N
    PROVE  S = Tasks
<1>1. SUFFICES ASSUME NEW i \in Tasks \ S PROVE FALSE
  OBVIOUS
<1>2. S \cup {i} \in SUBSET Tasks /\ i \notin S
  BY <1>1
<1>3. Cardinality(S \cup {i}) = N + 1
  BY <1>2, TasksFinite, FS_AddElement
<1>4. Cardinality(S \cup {i}) \in 0..N
  BY <1>2, TasksFinite
<1>. QED
  BY <1>3, <1>4, RunDirectoryAssumption

\* The ranks of S are 1 to its size.
LEMMA RankBounds ==
    ASSUME NEW S \in SUBSET Tasks, NEW i \in S
    PROVE  Rank(S, i) \in 1..Cardinality(S)
<1>. DEFINE B == {j \in S : j <= i}
<1>1. IsFiniteSet(S) /\ Cardinality(S) \in Nat
  BY TasksFinite
<1>2. B \in SUBSET S /\ i \in B
  BY DEF Tasks
<1>3. IsFiniteSet(B) /\ Cardinality(B) <= Cardinality(S)
  BY <1>1, <1>2, FS_Subset
<1>4. Cardinality(B) \in Nat /\ Cardinality(B) # 0
  BY <1>2, <1>3, FS_CardinalityType, FS_EmptySet
<1>5. Rank(S, i) = Cardinality(B)
  BY DEF Rank
<1>. HIDE DEF B
<1>. QED
  BY <1>1, <1>3, <1>4, <1>5

\* The later of two tasks has the higher rank.
LEMMA RankGrows ==
    ASSUME NEW S \in SUBSET Tasks, NEW i \in S, NEW j \in S, i < j
    PROVE  Rank(S, i) < Rank(S, j)
<1>. DEFINE B == {k \in S : k <= i}
            C == {k \in S : k <= j}
<1>0. \A k \in S : k \in Int
  BY DEF Tasks
<1>1. B \cup {j} \in SUBSET C /\ j \notin B /\ B \in SUBSET Tasks /\ C \in SUBSET Tasks
  <2>1. \A k \in S : k <= i => k <= j
    BY <1>0
  <2>2. ~(j <= i) /\ j <= j
    BY <1>0
  <2>. QED
    BY <2>1, <2>2
<1>2. IsFiniteSet(B) /\ IsFiniteSet(C) /\ Cardinality(B) \in Nat /\ Cardinality(C) \in Nat
  BY <1>1, TasksFinite
<1>3. Cardinality(B \cup {j}) = Cardinality(B) + 1
  BY <1>1, <1>2, FS_AddElement
<1>4. Cardinality(B \cup {j}) <= Cardinality(C)
  BY <1>1, <1>2, FS_Subset
<1>. QED
  BY <1>2, <1>3, <1>4 DEF Rank

\* No two tasks share a rank.
LEMMA RankInjective ==
    ASSUME NEW S \in SUBSET Tasks, NEW i \in S, NEW j \in S, Rank(S, i) = Rank(S, j)
    PROVE  i = j
<1>1. i \in Int /\ j \in Int
  BY DEF Tasks
<1>2. Rank(S, i) \in Int /\ Rank(S, j) \in Int
  BY RankBounds
<1>3. ~(i < j) /\ ~(j < i)
  BY <1>2, RankGrows
<1>. QED
  BY <1>1, <1>3

\* Every rank is that of a task: otherwise as many tasks would share fewer ranks.
LEMMA RankOnto ==
    ASSUME NEW S \in SUBSET Tasks, NEW k \in 1..Cardinality(S)
    PROVE  \E i \in S : Rank(S, i) = k
<1>1. SUFFICES ASSUME \A i \in S : Rank(S, i) # k PROVE FALSE
  OBVIOUS
<1>. DEFINE n == Cardinality(S)
            T == (1..n) \ {k}
            f == [i \in S |-> Rank(S, i)]
<1>2. IsFiniteSet(S) /\ n \in Nat
  BY TasksFinite
<1>3. IsFiniteSet(1..n) /\ Cardinality(1..n) = n
  BY <1>2, FS_Interval
<1>4. IsFiniteSet(T) /\ Cardinality(T) = n - 1
  <2>1. k \in 1..n
    OBVIOUS
  <2>. HIDE DEF n
  <2>. QED
    BY <1>3, <2>1, FS_RemoveElement
<1>5. f \in [S -> T]
  BY <1>1, RankBounds
<1>6. Cardinality(T) < Cardinality(S)
  BY <1>2, <1>4
<1>7. \E i, j \in S : i # j /\ f[i] = f[j]
  <2>. HIDE DEF T, f
  <2>. QED
    BY <1>2, <1>4, <1>5, <1>6, FS_PigeonHole
<1>. QED
  BY <1>7, RankInjective

\* The order names every task once and no other.
LEMMA SortedType ==
    ASSUME NEW S \in SUBSET Tasks
    PROVE  /\ Sorted(S) \in Seq(Tasks)
           /\ Len(Sorted(S)) = Cardinality(S)
           /\ DOMAIN Sorted(S) = 1..Cardinality(S)
           /\ \A k \in 1..Cardinality(S) : Sorted(S)[k] \in S /\ Rank(S, Sorted(S)[k]) = k
           /\ \A i \in S : Sorted(S)[Rank(S, i)] = i
<1>1. Cardinality(S) \in Nat
  BY TasksFinite
<1>2. \A k \in 1..Cardinality(S) : Sorted(S)[k] \in S /\ Rank(S, Sorted(S)[k]) = k
  BY RankOnto DEF Sorted
<1>3. \A i \in S : Sorted(S)[Rank(S, i)] = i
  BY <1>2, RankBounds, RankInjective
<1>4. DOMAIN Sorted(S) = 1..Cardinality(S)
  BY DEF Sorted
<1>5. Sorted(S) \in [1..Cardinality(S) -> Tasks]
  BY <1>2 DEF Sorted
<1>6. Sorted(S) \in Seq(Tasks) /\ Len(Sorted(S)) = Cardinality(S)
  BY <1>1, <1>5
<1>. QED
  BY <1>2, <1>3, <1>4, <1>6

\* The whole range, sorted, counts from one.
LEMMA SortedRange == Sorted(Tasks) = [k \in Tasks |-> k]
<1>1. Tasks \in SUBSET Tasks /\ Cardinality(Tasks) = N
  BY RunDirectoryAssumption, FS_Interval DEF Tasks
<1>2. ASSUME NEW i \in Tasks PROVE Rank(Tasks, i) = i
  <2>1. {j \in Tasks : j <= i} = 1..i
    BY RunDirectoryAssumption DEF Tasks
  <2>2. i \in Int /\ i >= 1
    BY DEF Tasks
  <2>3. Cardinality(1..i) = i
    BY <2>2, FS_Interval
  <2>. QED
    BY <2>1, <2>3 DEF Rank
<1>3. DOMAIN Sorted(Tasks) = Tasks
  BY <1>1 DEF Sorted, Tasks
<1>4. \A k \in Tasks : Sorted(Tasks)[k] = k
  BY <1>1, <1>2, SortedType
<1>5. Sorted(Tasks) = [k \in DOMAIN Sorted(Tasks) |-> Sorted(Tasks)[k]]
  BY DEF Sorted
<1>. QED
  BY <1>3, <1>4, <1>5

-----------------------------------------------------------------------------
(* The inductive invariant *)

\* Where the process is, or will be when it has written its state.
Place == IF pc # "write" THEN pc ELSE IF next = "down" THEN "ending" ELSE next

\* Either program keeps to its own places, and to the tasks of the range.
Placed ==
    /\ kind = "shard" => Place \notin {"gate", "reset", "save"}
    /\ kind = "range" =>
          Place \notin {"recover", "recovered", "failed", "commit", "clean", "verify"}
    /\ pc # "down" => run # Null
    /\ Place \in {"down", "recover"} => cursor = 1
    /\ Place \notin {"down", "ending", "loop", "gate"} => cursor \in Tasks

\* A process starts at most one run of each task.
Counted ==
    /\ \A i \in Tasks : att[i] <= starts
    /\ pc # "down" => \A i \in Tasks : i > cursor => att[i] < starts
    /\ Place \in {"recover", "recovered"} => \A i \in Tasks : att[i] < starts
    /\ Place \in {"loop", "gate", "run"} => \A i \in Tasks : i = cursor => att[i] < starts
    /\ Place = "running" => att[cursor] >= 1
    /\ \A i \in late : att[i] >= 1

\* What the next step uses is there.
Present ==
    /\ Place \in {"recover", "recovered"} => mem = task
    /\ Place \in {"recovered", "commit", "clean", "verify", "save"} => mem[cursor] # Null
    /\ Place = "reset" => out[cursor] # Null
    /\ kind = "range" /\ (pc # "down" \/ late # {}) => stamp # Null
    /\ mpc \in {"ckpt", "preds", "validate"} => seen # Null /\ summary # Null
    /\ mpc \in {"private", "finish"} => merged # Null
    /\ merged # Null => merged.preds # <<>>

\* What is left of the files that write_state replaces.
Left ==
    IF kind = "range"
    THEN {<<"preds", "ckpt", "summary", "private">>, <<"ckpt", "summary", "private">>,
          <<"summary", "private">>, <<"private">>,
          <<"preds", "ckpt", "summary">>, <<"ckpt", "summary">>, <<"summary">>,
          <<"pausedCkpt", "pausedSummary">>, <<"pausedSummary">>}
    ELSE IF Status = "complete"
    THEN {<<"preds", "private", "ckpt", "summary">>, <<"private", "ckpt", "summary">>,
          <<"ckpt", "summary">>, <<"summary">>}
    ELSE {<<"preds", "ckpt", "summary">>, <<"ckpt", "summary">>, <<"summary">>}

\* The files there are, in the order they are written in.
Filed ==
    /\ summary # Null => ckpt # Null
    /\ ckpt # Null => preds # Null
    /\ pc \notin {"down", "recover", "recovered", "write"} => summary # Null
    /\ pc = "write" =>
         /\ todo \in Left
         /\ Head(todo) # "preds" => preds # Null
         /\ Head(todo) = "summary" => ckpt # Null
         /\ Head(todo) \in {"pausedCkpt", "pausedSummary"} => summary # Null
         /\ Head(todo) = "private" /\ kind = "range" => summary # Null

Control == TypeOK /\ Placed /\ Counted /\ Present /\ Filed

\* What the process holds is what is saved, but for the result it is about to save;
\* only a result that is being cleaned up is not marked.
Remembered ==
    /\ Place \notin {"down", "commit", "save"} => mem = task
    /\ Place \in {"commit", "save"} =>
         /\ \A i \in Tasks : i # cursor => mem[i] = task[i]
         /\ mem[cursor].verified <=> Place = "save"
    /\ Place \in {"run", "running", "failed", "commit", "reset", "save"} => task[cursor] = Null
    /\ Place \in {"recovered", "clean", "verify"} => ~task[cursor].verified
    /\ \A i \in Tasks : task[i] # Null /\ ~task[i].verified =>
          /\ kind = "shard"
          /\ Place \in {"down", "recover", "recovered", "clean", "verify"}
          /\ Place \in {"clean", "verify"} => i = cursor

\* A marked result left nothing behind on the services.
Gone ==
    /\ \A i \in Cleaned(task) : i \notin sessions /\ dbs[i] # "own"
    /\ Place \in {"recovered", "verify", "save"} => cursor \notin sessions /\ dbs[cursor] # "own"
    /\ kind = "range" => sessions = {}

\* One configuration goes through process, files and results.
Configured ==
    /\ pc # "down" /\ ckpt # Null => ckpt.config = run.config
    /\ kind = "range" =>
         /\ pc # "down" => stamp = run.config
         /\ ckpt # Null => ckpt.config = stamp
         /\ \A i \in Tasks : out[i] # Null => out[i].config = stamp
    /\ Place \in {"commit", "save"} => mem[cursor].res.config = run.config
    /\ summary # Null => summary.config = ckpt.config
    /\ mpc \in {"ckpt", "preds", "validate"} => seen.config = ckpt.config
    /\ OneConfiguration

\* The entries of what is cleaned up among the results r.
Listing(r) == {[index |-> i, res |-> r[i].res] : i \in Cleaned(r)}

\* What is published is saved and cleaned up, and what write_state has already
\* replaced is up to date.
Published ==
    /\ preds # Null => {preds[k] : k \in DOMAIN preds} \subseteq Listing(task)
    /\ pc = "write" =>
         /\ Head(todo) \in {"private", "ckpt", "summary"} => preds = Predictions(mem)
         /\ Head(todo) = "summary" => ckpt.done = Complete(mem)
         /\ kind = "shard" /\ Status = "complete" /\ Head(todo) \in {"ckpt", "summary"}
              => private = preds

\* A complete summary stands for a complete directory.
Finished ==
    summary # Null /\ summary.status = "complete" =>
       /\ Cleaned(task) = Tasks
       /\ preds = Predictions(task)
       /\ summary.sha = Predictions(task)
       /\ ckpt.done = Complete(task)
       /\ kind = "shard" => private = preds

\* A merge that got beyond the summary reads a directory that does not change.
Merging ==
    /\ mpc \in {"ckpt", "preds", "validate"} =>
         /\ Cleaned(task) = Tasks
         /\ seen.sha = Predictions(task)
    /\ merged # Null =>
         /\ Cleaned(task) = Tasks
         /\ merged.preds = Append(Predictions(task), OtherEntry(ckpt.config))
         /\ merged.done \/ mpc = "finish" => merged.private = merged.preds
         /\ ckpt # Null

\* The range runner comes to a task with all results before it, through the gate.
Gated ==
    kind = "range" =>
       /\ Place \in {"gate", "loop", "run", "running", "reset", "save"} =>
            \A i \in Tasks : i < cursor => mem[i] # Null
       /\ Place \in {"loop", "run"} => run.override \/ ~TooFew(mem)

-----------------------------------------------------------------------------
(* What the operators of the model return *)

\* What is complete is the sequence of the tasks that are cleaned up, and it is as long as
\* the range only when all of them are.
LEMMA CompleteType ==
    ASSUME NEW r
    PROVE  /\ Cleaned(r) \in SUBSET Tasks
           /\ Complete(r) \in Seq(Tasks)
           /\ Len(Complete(r)) = Cardinality(Cleaned(r))
           /\ DOMAIN Complete(r) = 1..Cardinality(Cleaned(r))
           /\ \A k \in DOMAIN Complete(r) : Complete(r)[k] \in Cleaned(r)
           /\ \A i \in Cleaned(r) : \E k \in DOMAIN Complete(r) : Complete(r)[k] = i
           /\ Len(Complete(r)) = N => Cleaned(r) = Tasks
           /\ Cleaned(r) = Tasks => Len(Complete(r)) = N /\ Complete(r) = [k \in Tasks |-> k]
<1>. DEFINE C == Cleaned(r)
<1>1. C \in SUBSET Tasks
  BY DEF Cleaned
<1>2. Complete(r) = Sorted(C)
  BY DEF Complete
<1>3. C = Tasks => Cardinality(C) = N
  BY RunDirectoryAssumption, FS_Interval DEF Tasks
<1>. HIDE DEF C
<1>4. \A i \in C : Rank(C, i) \in 1..Cardinality(C)
  BY <1>1, RankBounds
<1>5. /\ Sorted(C) \in Seq(Tasks)
      /\ Len(Sorted(C)) = Cardinality(C)
      /\ DOMAIN Sorted(C) = 1..Cardinality(C)
      /\ \A k \in 1..Cardinality(C) : Sorted(C)[k] \in C /\ Rank(C, Sorted(C)[k]) = k
      /\ \A i \in C : Sorted(C)[Rank(C, i)] = i
  BY <1>1, SortedType
<1>6. Cardinality(C) = N => C = Tasks
  BY <1>1, WholeRange
<1>7. C = Tasks => Sorted(C) = [k \in Tasks |-> k]
  BY SortedRange
<1>. QED
  BY <1>1, <1>2, <1>3, <1>4, <1>5, <1>6, <1>7 DEF C

\* The predictions are the entries of what is cleaned up, each once.
LEMMA PredictionsType ==
    ASSUME NEW r \in [Tasks -> {Null} \cup Saved]
    PROVE  /\ Predictions(r) \in Listings
           /\ Len(Predictions(r)) = Len(Complete(r))
           /\ DOMAIN Predictions(r) = DOMAIN Complete(r)
           /\ {Predictions(r)[k] : k \in DOMAIN Predictions(r)} = Listing(r)
<1>. DEFINE C == Complete(r)
            E(i) == [index |-> i, res |-> r[i].res]
<1>1. /\ C \in Seq(Tasks) /\ DOMAIN C = 1..Len(C)
      /\ \A k \in DOMAIN C : C[k] \in Cleaned(r)
      /\ \A i \in Cleaned(r) : \E k \in DOMAIN C : C[k] = i
  BY CompleteType
<1>2. \A i \in Cleaned(r) : E(i) \in [index : 1..(N + 1), res : Results]
  BY RunDirectoryAssumption, NullAssumption DEF Cleaned, Saved, Tasks
<1>3. Predictions(r) = [k \in DOMAIN C |-> E(C[k])]
  BY DEF Predictions
<1>4. Listing(r) = {E(i) : i \in Cleaned(r)}
  BY DEF Listing
<1>. HIDE DEF C, E
<1>5. Len(C) \in Nat
  BY <1>1
<1>6. Predictions(r) \in [1..Len(C) -> [index : 1..(N + 1), res : Results]]
  BY <1>1, <1>2, <1>3
<1>7. Predictions(r) \in Listings /\ Len(Predictions(r)) = Len(C)
  <2>. DEFINE X == [index : 1..(N + 1), res : Results]
  <2>1. Predictions(r) \in [1..Len(C) -> X]
    BY <1>6
  <2>. HIDE DEF X
  <2>2. Predictions(r) \in Seq(X) /\ Len(Predictions(r)) = Len(C)
    BY <1>5, <2>1
  <2>. QED
    BY <2>2 DEF X, Listings
<1>8. \A k \in DOMAIN C : Predictions(r)[k] = E(C[k])
  BY <1>3
<1>9. DOMAIN Predictions(r) = DOMAIN C
  BY <1>3
<1>10. {Predictions(r)[k] : k \in DOMAIN Predictions(r)} = Listing(r)
  <2>1. \A e \in Listing(r) : \E k \in DOMAIN C : Predictions(r)[k] = e
    BY <1>1, <1>4, <1>8
  <2>2. \A k \in DOMAIN C : Predictions(r)[k] \in Listing(r)
    BY <1>1, <1>4, <1>8
  <2>. QED
    BY <1>9, <2>1, <2>2
<1>. QED
  BY <1>7, <1>9, <1>10 DEF C

\* The checkpoint that is written is one, of the configuration of the process.
LEMMA CheckpointType ==
    ASSUME TypeOK, run # Null
    PROVE  /\ Checkpoint \in Checkpoints
           /\ Checkpoint.config = run.config
           /\ Checkpoint.done = Complete(mem)
<1>1. run.config \in Configs
  BY DEF TypeOK, Runs
<1>2. Status \in {"complete", "in_progress"}
  BY DEF Status
<1>3. Complete(mem) \in Seq(Tasks)
  BY CompleteType
<1>4. (kind = "shard") \in BOOLEAN
  OBVIOUS
<1>. QED
  BY <1>1, <1>2, <1>3, <1>4 DEF TypeOK, Checkpoint, Checkpoints

\* So is the summary; its hash is taken of the predictions there are.
LEMMA SummaryType ==
    ASSUME TypeOK, run # Null, preds # Null
    PROVE  /\ Summary \in Summaries
           /\ Summary.config = run.config
           /\ Summary.sha = preds
           /\ Summary.status = Status
<1>1. run.config \in Configs
  BY DEF TypeOK, Runs
<1>2. Status \in {"complete", "in_progress"}
  BY DEF Status
<1>. QED
  BY <1>1, <1>2 DEF TypeOK, Summary, Summaries

\* The mark of a paused run changes the status only.
LEMMA PausedType ==
    /\ \A c \in Checkpoints : /\ Paused(c) \in Checkpoints
                              /\ Paused(c).config = c.config /\ Paused(c).done = c.done
    /\ \A s \in Summaries : /\ Paused(s) \in Summaries
                            /\ Paused(s).config = s.config /\ Paused(s).status = "paused"
BY DEF Paused, Checkpoints, Summaries

\* The lists of write_state, taken apart.
LEMMA Tuples ==
    /\ \A a : /\ <<a>> # <<>> /\ Head(<<a>>) = a /\ Len(<<a>>) = 1
    /\ \A a, b : /\ <<a, b>> # <<>> /\ Head(<<a, b>>) = a /\ Len(<<a, b>>) = 2
                 /\ Tail(<<a, b>>) = <<b>>
    /\ \A a, b, c : /\ <<a, b, c>> # <<>> /\ Head(<<a, b, c>>) = a /\ Len(<<a, b, c>>) = 3
                    /\ Tail(<<a, b, c>>) = <<b, c>>
    /\ \A a, b, c, d : /\ <<a, b, c, d>> # <<>> /\ Head(<<a, b, c, d>>) = a
                       /\ Len(<<a, b, c, d>>) = 4
                       /\ Tail(<<a, b, c, d>>) = <<b, c, d>>
OBVIOUS

\* What write_state replaces after the next file, if anything.
LEMMA LeftSteps ==
    ASSUME todo \in Left, kind \in {"shard", "range"}
    PROVE  /\ todo # <<>>
           /\ Head(todo) \in Files
           /\ Len(todo) = 1 <=>
                \/ Head(todo) = "pausedSummary"
                \/ Head(todo) = "summary" /\ todo = <<"summary">>
                \/ Head(todo) = "private" /\ kind = "range"
           /\ Len(todo) # 1 =>
                /\ Tail(todo) \in Left
                /\ Tail(todo) # <<>>
                /\ Head(todo) = "preds" =>
                     \/ Head(Tail(todo)) = "private" /\ kind = "shard"
                     \/ Head(Tail(todo)) = "ckpt" /\ (kind = "range" \/ Status # "complete")
                /\ Head(todo) = "private" => Head(Tail(todo)) = "ckpt" /\ kind = "shard"
                /\ Head(todo) = "ckpt" => Head(Tail(todo)) = "summary"
                /\ Head(todo) = "summary" => Head(Tail(todo)) = "private" /\ kind = "range"
                /\ Head(todo) = "pausedCkpt" => Head(Tail(todo)) = "pausedSummary"
<1>1. CASE kind = "range"
  <2>1. CASE todo = <<"preds", "ckpt", "summary", "private">>
    BY <1>1, <2>1, Tuples DEF Left, Files
  <2>2. CASE todo = <<"ckpt", "summary", "private">>
    BY <1>1, <2>2, Tuples DEF Left, Files
  <2>3. CASE todo = <<"summary", "private">>
    BY <1>1, <2>3, Tuples DEF Left, Files
  <2>4. CASE todo = <<"private">>
    BY <1>1, <2>4, Tuples DEF Left, Files
  <2>5. CASE todo = <<"preds", "ckpt", "summary">>
    BY <1>1, <2>5, Tuples DEF Left, Files
  <2>6. CASE todo = <<"ckpt", "summary">>
    BY <1>1, <2>6, Tuples DEF Left, Files
  <2>7. CASE todo = <<"summary">>
    BY <1>1, <2>7, Tuples DEF Left, Files
  <2>8. CASE todo = <<"pausedCkpt", "pausedSummary">>
    BY <1>1, <2>8, Tuples DEF Left, Files
  <2>9. CASE todo = <<"pausedSummary">>
    BY <1>1, <2>9, Tuples DEF Left, Files
  <2>. QED
    BY <1>1, <2>1, <2>2, <2>3, <2>4, <2>5, <2>6, <2>7, <2>8, <2>9 DEF Left
<1>2. CASE kind = "shard" /\ Status = "complete"
  <2>1. CASE todo = <<"preds", "private", "ckpt", "summary">>
    BY <1>2, <2>1, Tuples DEF Left, Files
  <2>2. CASE todo = <<"private", "ckpt", "summary">>
    BY <1>2, <2>2, Tuples DEF Left, Files
  <2>3. CASE todo = <<"ckpt", "summary">>
    BY <1>2, <2>3, Tuples DEF Left, Files
  <2>4. CASE todo = <<"summary">>
    BY <1>2, <2>4, Tuples DEF Left, Files
  <2>. QED
    BY <1>2, <2>1, <2>2, <2>3, <2>4 DEF Left
<1>3. CASE kind = "shard" /\ Status # "complete"
  <2>1. CASE todo = <<"preds", "ckpt", "summary">>
    BY <1>3, <2>1, Tuples DEF Left, Files
  <2>2. CASE todo = <<"ckpt", "summary">>
    BY <1>3, <2>2, Tuples DEF Left, Files
  <2>3. CASE todo = <<"summary">>
    BY <1>3, <2>3, Tuples DEF Left, Files
  <2>. QED
    BY <1>3, <2>1, <2>2, <2>3 DEF Left
<1>. QED
  BY <1>1, <1>2, <1>3

\* write_state begins with the predictions.
LEMMA WriteBegins ==
    ASSUME NEW c \in 0..N, NEW where \in {"down", "loop", "run", "gate"},
           kind \in {"shard", "range"}, kind' = kind,
           \/ kind = "shard" /\ ShardWriteState(c, where)
           \/ kind = "range" /\ RangeWriteState(c, where)
    PROVE  /\ pc' = "write" /\ current' = c /\ next' = where
           /\ todo' \in Left' /\ todo' \in Seq(Files) /\ todo' # <<>> /\ Head(todo') = "preds"
           /\ Place' = IF where = "down" THEN "ending" ELSE where
<1>1. pc' = "write" /\ current' = c /\ next' = where
  BY DEF ShardWriteState, RangeWriteState, WriteState
<1>2. Place' = IF where = "down" THEN "ending" ELSE where
  BY <1>1 DEF Place
<1>5. ASSUME NEW t,
             \/ t = <<"preds", "private", "ckpt", "summary">>
             \/ t = <<"preds", "ckpt", "summary">>
             \/ t = <<"preds", "ckpt", "summary", "private">>
      PROVE  t \in Seq(Files) /\ t # <<>> /\ Head(t) = "preds"
  <2>1. CASE t = <<"preds", "private", "ckpt", "summary">>
    BY <2>1, Tuples DEF Files
  <2>2. CASE t = <<"preds", "ckpt", "summary">>
    BY <2>2, Tuples DEF Files
  <2>3. CASE t = <<"preds", "ckpt", "summary", "private">>
    BY <2>3, Tuples DEF Files
  <2>. QED
    BY <1>5, <2>1, <2>2, <2>3
<1>3. CASE kind = "shard"
  <2>1. Status' = IF Len(Complete(mem')) = N /\ c = 0 THEN "complete" ELSE "in_progress"
    BY <1>1 DEF Status
  <2>2. todo' = ShardFiles(mem', c)
    BY <1>3 DEF ShardWriteState
  <2>3. \/ todo' = <<"preds", "private", "ckpt", "summary">> /\ Status' = "complete"
        \/ todo' = <<"preds", "ckpt", "summary">> /\ Status' # "complete"
    BY <2>1, <2>2 DEF ShardFiles
  <2>4. todo' \in Left'
    BY <1>3, <2>3 DEF Left
  <2>. QED
    BY <1>1, <1>2, <1>5, <2>3, <2>4
<1>4. CASE kind = "range"
  <2>1. \/ todo' = <<"preds", "ckpt", "summary", "private">>
        \/ todo' = <<"preds", "ckpt", "summary">>
    BY <1>4 DEF RangeWriteState, RangeFiles
  <2>2. todo' \in Left'
    BY <1>4, <2>1 DEF Left
  <2>. QED
    BY <1>1, <1>2, <1>5, <2>1, <2>2
<1>. QED
  BY <1>3, <1>4

\* What replacing the next file does to the four files.
Replaced(f) ==
    /\ preds' = IF f = "preds" THEN Predictions(mem) ELSE preds
    /\ private' = IF f = "private" THEN Predictions(mem) ELSE private
    /\ ckpt' = IF f = "ckpt" THEN Checkpoint
               ELSE IF f = "pausedCkpt" THEN Paused(ckpt) ELSE ckpt
    /\ summary' = IF f = "summary" THEN Summary
                  ELSE IF f = "pausedSummary" THEN Paused(summary) ELSE summary

\* And where the process is afterwards: still writing, on its way, or gone.
LEMMA WriteSteps ==
    ASSUME Control, WriteNext
    PROVE  /\ pc = "write" /\ Replaced(Head(todo))
           /\ UNCHANGED <<kind, task, stamp, att, dbs, sessions, late, out, starts>>
           /\ \/ /\ Len(todo) # 1 /\ todo' = Tail(todo)
                 /\ UNCHANGED <<pc, run, cursor, mem, current, next, Place, Status, Left>>
              \/ /\ Len(todo) = 1 /\ pc' = Place /\ Place' = Place /\ todo' = <<>>
                 /\ pc' \in {"loop", "run", "gate"}
                 /\ UNCHANGED <<run, cursor, mem>>
                 /\ current' \in {0, current} /\ next' = "down"
              \/ Len(todo) = 1 /\ Place = "ending" /\ Place' = "down" /\ Down
<1>1. /\ pc = "write" /\ Replaced(Head(todo))
      /\ UNCHANGED <<kind, task, stamp, att, dbs, sessions, late, out, starts>>
  BY DEF WriteNext, Replaced, world
<1>2. next \in {"down", "loop", "run", "gate"}
  BY DEF Control, TypeOK
<1>3. CASE Len(todo) = 1 /\ next = "down"
  <2>1. Down /\ pc' = "down"
    BY <1>3 DEF WriteNext, Written, Down
  <2>. QED
    BY <1>1, <1>3, <2>1 DEF Place
<1>4. CASE Len(todo) = 1 /\ next # "down"
  <2>1. /\ pc' = next /\ todo' = <<>> /\ current' \in {0, current} /\ next' = "down"
        /\ UNCHANGED <<run, cursor, mem>>
    BY <1>4 DEF WriteNext, Written
  <2>. QED
    BY <1>1, <1>2, <1>4, <2>1 DEF Place
<1>5. CASE Len(todo) # 1
  <2>1. todo' = Tail(todo) /\ UNCHANGED <<pc, run, cursor, mem, current, next>>
    BY <1>5 DEF WriteNext
  <2>. QED
    BY <1>1, <1>5, <2>1 DEF Place, Status, Left
<1>. QED
  BY <1>3, <1>4, <1>5

-----------------------------------------------------------------------------
(* The control of the process is invariant *)

\* The directory and the merge begin under control.
LEMMA ControlInit == Init => Control
<1>. SUFFICES ASSUME Init PROVE Control
  OBVIOUS
<1>. USE RunDirectoryAssumption DEF Init, DirectoryInit, MergeInit, NoResults
<1>1. TypeOK
  BY DEF TypeOK
<1>2. Placed
  BY DEF Placed, Place
<1>3. Counted
  BY DEF Counted, Place
<1>4. Present
  BY DEF Present, Place
<1>5. Filed
  BY DEF Filed
<1>. QED
  BY <1>1, <1>2, <1>3, <1>4, <1>5 DEF Control

\* Without a process nothing is held and nothing is written.
LEMMA ControlDown ==
    ASSUME Control, Down, pc # "down",
           UNCHANGED <<kind, files, starts, mergeVars>>,
           att' = att, out' = out,
           dbs' \in [Tasks -> {"none", "own", "late"}], sessions' \subseteq Tasks,
           \/ late' = late
           \/ late' = late \cup {cursor} /\ pc = "running"
    PROVE  Control'
<1>. USE RunDirectoryAssumption DEF files, mergeVars, Control
<1>1. pc' = "down" /\ Place' = "down" /\ cursor' = 1 /\ todo' = <<>>
  BY DEF Down, Place
<1>2. late' \subseteq Tasks
  BY DEF TypeOK, Placed, Place
<1>3. TypeOK'
  BY <1>1, <1>2 DEF TypeOK, Down, NoResults
<1>4. Placed'
  BY <1>1 DEF Placed
<1>5. Counted'
  <2>1. \A i \in late' : att[i] >= 1
    BY DEF Counted, Place
  <2>. QED
    BY <1>1, <2>1 DEF Counted
<1>6. Present'
  BY <1>1 DEF Present
<1>7. Filed'
  BY <1>1 DEF Filed
<1>. QED
  BY <1>3, <1>4, <1>5, <1>6, <1>7

\* Replacing a file keeps the control.
LEMMA ControlWrite ==
    ASSUME Control, WriteNext, UNCHANGED mergeVars
    PROVE  Control'
<1>. DEFINE f == Head(todo)
<1>1. TypeOK /\ Placed /\ Counted /\ Present /\ Filed
  BY DEF Control
<1>2. /\ pc = "write" /\ Replaced(f)
      /\ UNCHANGED <<kind, task, stamp, att, dbs, sessions, late, out, starts>>
  BY WriteSteps
<1>3. kind \in {"shard", "range"} /\ run # Null /\ run \in Runs
  BY <1>1, <1>2 DEF TypeOK, Placed
<1>4. todo \in Left /\ f \in Files
  BY <1>1, <1>2, <1>3, LeftSteps DEF Filed
<1>. HIDE DEF f
<1>5. /\ preds' \in {Null} \cup Listings
      /\ private' \in {Null} \cup Listings
      /\ ckpt' \in {Null} \cup Checkpoints
      /\ summary' \in {Null} \cup Summaries
      /\ preds # Null => preds' # Null
      /\ ckpt # Null => ckpt' # Null
      /\ summary # Null => summary' # Null
      /\ f = "preds" => preds' # Null
      /\ f = "ckpt" => ckpt' # Null
      /\ f = "summary" => summary' # Null
      /\ ckpt' # Null => preds' # Null
      /\ summary' # Null => ckpt' # Null
  <2>1. Predictions(mem) \in Listings /\ Predictions(mem) # Null
    BY <1>1, PredictionsType, NullAssumption DEF TypeOK
  <2>2. Checkpoint \in Checkpoints /\ Checkpoint # Null
    BY <1>1, <1>3, CheckpointType, NullAssumption
  <2>3. f = "summary" => Summary \in Summaries /\ Summary # Null
    BY <1>1, <1>2, <1>3, SummaryType, NullAssumption DEF Filed, f
  <2>4. f \in {"pausedCkpt", "pausedSummary"} =>
          /\ Paused(ckpt) \in Checkpoints /\ Paused(ckpt) # Null
          /\ Paused(summary) \in Summaries /\ Paused(summary) # Null
    BY <1>1, <1>2, PausedType, NullAssumption DEF Filed, TypeOK, f
  <2>5. f = "ckpt" => preds # Null
    BY <1>1, <1>2 DEF Filed, f
  <2>6. f = "summary" => ckpt # Null
    BY <1>1, <1>2 DEF Filed, f
  <2>7. f \in {"pausedCkpt", "pausedSummary"} => summary # Null
    BY <1>1, <1>2 DEF Filed, f
  <2>8. (ckpt # Null => preds # Null) /\ (summary # Null => ckpt # Null)
    BY <1>1 DEF Filed
  <2>9. /\ preds \in {Null} \cup Listings /\ private \in {Null} \cup Listings
        /\ ckpt \in {Null} \cup Checkpoints /\ summary \in {Null} \cup Summaries
    BY <1>1 DEF TypeOK
  <2>. QED
    BY <1>2, <2>1, <2>2, <2>3, <2>4, <2>5, <2>6, <2>7, <2>8, <2>9 DEF Replaced
<1>6. CASE Len(todo) # 1 /\ todo' = Tail(todo)
           /\ UNCHANGED <<pc, run, cursor, mem, current, next, Place, Status, Left>>
  <2>1. /\ Tail(todo) \in Left /\ Tail(todo) \in Seq(Files) /\ Tail(todo) # <<>>
        /\ f = "preds" => Head(Tail(todo)) \in {"private", "ckpt"}
        /\ f = "preds" /\ kind = "range" => Head(Tail(todo)) = "ckpt"
        /\ f = "private" => Head(Tail(todo)) = "ckpt" /\ kind = "shard"
        /\ f = "ckpt" => Head(Tail(todo)) = "summary"
        /\ f = "summary" => Head(Tail(todo)) = "private" /\ kind = "range"
        /\ f = "pausedCkpt" => Head(Tail(todo)) = "pausedSummary"
        /\ f # "pausedSummary"
    BY <1>1, <1>3, <1>4, <1>6, LeftSteps DEF TypeOK, f
  <2>2. TypeOK'
    BY <1>1, <1>2, <1>5, <1>6, <2>1 DEF TypeOK, mergeVars
  <2>3. Placed' /\ Counted'
    BY <1>1, <1>2, <1>6 DEF Placed, Counted
  <2>4. Present'
    BY <1>1, <1>2, <1>5, <1>6 DEF Present, mergeVars
  <2>5. Filed'
    BY <1>1, <1>2, <1>4, <1>5, <1>6, <2>1 DEF Filed, Files, f
  <2>. QED
    BY <2>2, <2>3, <2>4, <2>5 DEF Control
<1>7. CASE /\ Len(todo) = 1 /\ pc' = Place /\ Place' = Place /\ todo' = <<>>
           /\ pc' \in {"loop", "run", "gate"}
           /\ UNCHANGED <<run, cursor, mem>>
           /\ current' \in {0, current} /\ next' = "down"
  <2>1. f \in {"pausedSummary", "summary"} \/ (f = "private" /\ kind = "range")
    BY <1>3, <1>4, <1>7, LeftSteps DEF f
  <2>2. TypeOK'
    BY <1>1, <1>2, <1>5, <1>7, RunDirectoryAssumption DEF TypeOK, mergeVars
  <2>3. Placed' /\ Counted'
    BY <1>1, <1>2, <1>7 DEF Placed, Counted
  <2>4. Present'
    BY <1>1, <1>2, <1>5, <1>7 DEF Present, mergeVars
  <2>5. summary' # Null
    BY <1>1, <1>2, <1>5, <2>1 DEF Filed, f
  <2>6. Filed'
    BY <1>5, <1>7, <2>5 DEF Filed
  <2>. QED
    BY <2>2, <2>3, <2>4, <2>6 DEF Control
<1>8. CASE Len(todo) = 1 /\ Place = "ending" /\ Place' = "down" /\ Down
  <2>1. pc' = "down" /\ todo' = <<>> /\ cursor' = 1
    BY <1>8 DEF Down
  <2>2. TypeOK'
    BY <1>1, <1>2, <1>5, <1>8, RunDirectoryAssumption DEF TypeOK, mergeVars, Down, NoResults
  <2>3. Placed' /\ Counted'
    BY <1>1, <1>2, <1>8, <2>1 DEF Placed, Counted
  <2>4. Present'
    BY <1>1, <1>2, <1>5, <1>8, <2>1 DEF Present, mergeVars
  <2>5. Filed'
    BY <1>5, <2>1 DEF Filed
  <2>. QED
    BY <2>2, <2>3, <2>4, <2>5 DEF Control
<1>. QED
  BY <1>6, <1>7, <1>8, WriteSteps

\* What the merge does to its own variables keeps it, if their types are kept.
LEMMA ControlMerge ==
    ASSUME Control, UNCHANGED runVars,
           mpc' \in {"idle", "ckpt", "preds", "validate", "private", "finish"},
           seen' \in {Null} \cup Summaries, merged' \in {Null} \cup Merged,
           mpc' \in {"ckpt", "preds", "validate"} => seen' # Null /\ summary # Null,
           mpc' \in {"private", "finish"} => merged' # Null,
           merged' # Null => merged'.preds # <<>>
    PROVE  Control'
<1>. USE DEF runVars, process, files, world
<1>1. TypeOK /\ Placed /\ Counted /\ Present /\ Filed
  BY DEF Control
<1>2. UNCHANGED <<Place, Status, Left>>
  BY DEF Place, Status, Left
<1>3. TypeOK'
  BY <1>1 DEF TypeOK
<1>4. Placed' /\ Counted'
  BY <1>1, <1>2 DEF Placed, Counted
<1>5. Present'
  BY <1>1, <1>2 DEF Present
<1>6. Filed'
  BY <1>1, <1>2 DEF Filed
<1>. QED
  BY <1>3, <1>4, <1>5, <1>6 DEF Control

\* The first pending cleanup is one.
LEMMA MinPending ==
    ASSUME NEW S \in SUBSET Tasks, S # {}
    PROVE  Min(S) \in S
<1>1. Cardinality(S) \in Nat /\ Cardinality(S) # 0
  BY TasksFinite, FS_EmptySet
<1>2. PICK i \in S : Rank(S, i) = 1
  BY <1>1, RankOnto
<1>3. ASSUME NEW j \in S PROVE i <= j
  <2>1. i \in Int /\ j \in Int
    BY DEF Tasks
  <2>2. Rank(S, j) >= 1 /\ Rank(S, j) \in Int
    BY <1>1, RankBounds
  <2>3. j < i => Rank(S, j) < Rank(S, i)
    BY RankGrows
  <2>. QED
    BY <1>2, <2>1, <2>2, <2>3
<1>. QED
  BY <1>3 DEF Min

\* The mark is all that is added to a result, and to one only.
LEMMA MarkType ==
    ASSUME NEW r \in [Tasks -> {Null} \cup Saved], NEW i \in Tasks, r[i] # Null
    PROVE  /\ MarkVerified(r, i) \in [Tasks -> {Null} \cup Saved]
           /\ MarkVerified(r, i)[i] \in Saved
           /\ MarkVerified(r, i)[i] # Null
           /\ MarkVerified(r, i)[i].verified
           /\ MarkVerified(r, i)[i].res = r[i].res
           /\ \A j \in Tasks : j # i => MarkVerified(r, i)[j] = r[j]
<1>1. r[i] \in Saved
  OBVIOUS
<1>. DEFINE e == [r[i] EXCEPT !.verified = TRUE]
<1>2. e \in Saved /\ e.verified /\ e.res = r[i].res
  BY <1>1 DEF Saved
<1>3. MarkVerified(r, i) = [r EXCEPT ![i] = e]
  BY DEF MarkVerified
<1>. HIDE DEF e
<1>. QED
  BY <1>2, <1>3, NullAssumption

\* Every step of the shard runner keeps the control.
LEMMA ControlShard ==
    ASSUME Control, kind = "shard", ShardNext, UNCHANGED mergeVars
    PROVE  Control'
<1>. USE RunDirectoryAssumption
<1>1. /\ TypeOK /\ Placed /\ Counted /\ Present /\ Filed
      /\ UNCHANGED <<mpc, seen, merged>>
  BY DEF Control, mergeVars
<1>2. CASE ShardStart
  <2>1. /\ pc = "down" /\ Place = "down" /\ cursor = 1 /\ starts < MaxStarts
        /\ starts' = starts + 1
        /\ UNCHANGED <<kind, cursor, current, todo, next, task, preds, private, ckpt,
                       summary, stamp, att, dbs, sessions, late, out>>
    BY <1>1, <1>2 DEF ShardStart, files, world, Place, Placed
  <2>2. CASE UNCHANGED <<pc, run, mem>>
    <3>1. Place' = Place
      BY <2>1, <2>2 DEF Place
    <3>2. TypeOK'
      BY <1>1, <2>1, <2>2 DEF TypeOK
    <3>3. Placed' /\ Present' /\ Filed'
      BY <1>1, <2>1, <2>2, <3>1 DEF Placed, Present, Filed
    <3>4. Counted'
      BY <1>1, <2>1, <2>2, <3>1 DEF Counted, TypeOK
    <3>. QED
      BY <3>2, <3>3, <3>4 DEF Control
  <2>3. CASE pc' = "recover" /\ mem' = task /\ run' \in Runs
    <3>1. Place' = "recover" /\ pc' = "recover" /\ mem' = task /\ run' \in Runs /\ run' # Null
          /\ cursor \in Tasks
      BY <1>1, <2>1, <2>3, NullAssumption DEF Place, Tasks
    <3>2. TypeOK'
      BY <1>1, <2>1, <3>1 DEF TypeOK
    <3>3. Placed'
      BY <1>1, <2>1, <3>1 DEF Placed, TypeOK
    <3>4. Counted'
      BY <1>1, <2>1, <3>1 DEF Counted, Placed, TypeOK
    <3>5. Present'
      BY <1>1, <2>1, <3>1 DEF Present, Placed, TypeOK
    <3>6. Filed'
      BY <1>1, <2>1, <3>1 DEF Filed
    <3>. QED
      BY <3>2, <3>3, <3>4, <3>5, <3>6 DEF Control
  <2>4. UNCHANGED <<pc, run, mem>> \/ (pc' = "recover" /\ mem' = task /\ run' \in Runs)
    <3>1. PICK c \in Configs :
            IF Resumable(c)
            THEN pc' = "recover" /\ run' = Configuration(c) /\ mem' = Envelopes
            ELSE UNCHANGED <<pc, run, mem>>
      BY <1>2 DEF ShardStart
    <3>2. Configuration(c) \in Runs
      BY DEF Configuration, Runs
    <3>. QED
      BY <3>1, <3>2 DEF Envelopes
  <2>. QED
    BY <2>2, <2>3, <2>4
<1>3. CASE Recover
  <2>0. Min(Pending) \in Tasks /\ mem[Min(Pending)] # Null
    <3>1. Pending \in SUBSET Tasks /\ Pending # {}
      BY <1>3 DEF Recover, Pending
    <3>2. Min(Pending) \in Pending
      BY <3>1, MinPending
    <3>. QED
      BY <3>2 DEF Pending
  <2>1. CASE EnsureCleanup(Min(Pending)) /\ pc' = "recovered" /\ cursor' = Min(Pending)
               /\ UNCHANGED <<run, mem, current, todo, next>>
    <3>1. /\ pc = "recover" /\ Place = "recover" /\ pc' = "recovered" /\ Place' = "recovered"
          /\ cursor' \in Tasks /\ cursor' \in 1..(N + 1) /\ mem[cursor'] # Null
          /\ dbs' \in [Tasks -> {"none", "own", "late"}] /\ sessions' \subseteq Tasks
          /\ UNCHANGED <<kind, run, mem, current, todo, next, task, preds, private, ckpt,
                         summary, stamp, starts, att, late, out>>
      <4>1. pc = "recover" /\ Place = "recover" /\ Place' = "recovered"
        BY <1>1, <1>3, <2>0, <2>1 DEF Recover, Place
      <4>2. cursor' \in Tasks /\ cursor' \in 1..(N + 1)
        BY <1>1, <1>3, <2>0, <2>1 DEF Tasks
      <4>3. /\ dbs' \in [Tasks -> {"none", "own", "late"}] /\ sessions' \subseteq Tasks
            /\ UNCHANGED <<att, late, out>>
        BY <1>1, <1>3, <2>0, <2>1 DEF EnsureCleanup, Dropped, TypeOK
      <4>4. UNCHANGED <<kind, task, preds, private, ckpt, summary, stamp, starts>>
        BY <1>1, <1>3, <2>0, <2>1 DEF Recover, files
      <4>. QED
        BY <1>1, <1>3, <2>0, <2>1, <4>1, <4>2, <4>3, <4>4
    <3>2. TypeOK'
      BY <1>1, <3>1 DEF TypeOK
    <3>3. Placed'
      BY <1>1, <3>1 DEF Placed, TypeOK
    <3>4. Counted'
      BY <1>1, <3>1 DEF Counted, Placed, TypeOK
    <3>5. Present'
      BY <1>1, <3>1 DEF Present, Placed, TypeOK
    <3>6. Filed'
      BY <1>1, <3>1 DEF Filed
    <3>. QED
      BY <3>2, <3>3, <3>4, <3>5, <3>6 DEF Control
  <2>2. CASE CleanupFails(Min(Pending)) /\ Down
    <3>1. /\ UNCHANGED <<att, late, out>>
          /\ dbs' \in [Tasks -> {"none", "own", "late"}] /\ sessions' \subseteq Tasks
      BY <1>1, <2>0, <2>2 DEF CleanupFails, Dropped, TypeOK
    <3>. QED
      BY <1>1, <1>3, <2>2, <3>1, ControlDown DEF Recover, mergeVars
  <2>. QED
    BY <1>3, <2>1, <2>2 DEF Recover
<1>4. CASE Recovered
  <2>1. /\ pc = "recovered" /\ Place = "recovered" /\ pc' = "recover" /\ Place' = "recover"
        /\ cursor' = 1 /\ cursor' \in Tasks /\ cursor' \in 1..(N + 1)
        /\ task' \in [Tasks -> {Null} \cup Saved] /\ mem' = task'
        /\ UNCHANGED <<kind, run, current, todo, next, preds, private, ckpt, summary, stamp,
                       starts, att, dbs, sessions, late, out>>
    BY <1>1, <1>4, MarkType DEF Recovered, Place, world, TypeOK, Tasks, Placed, Present
  <2>2. TypeOK'
    BY <1>1, <2>1 DEF TypeOK
  <2>3. Placed'
    BY <1>1, <2>1 DEF Placed, TypeOK
  <2>4. Counted'
    BY <1>1, <2>1 DEF Counted, Placed, TypeOK
  <2>5. Present'
    BY <1>1, <2>1 DEF Present, Placed, TypeOK
  <2>6. Filed'
    BY <1>1, <2>1 DEF Filed
  <2>. QED
    BY <2>2, <2>3, <2>4, <2>5, <2>6 DEF Control
<1>5. CASE Prepared
  <2>1. /\ pc = "recover" /\ Place = "recover"
        /\ pc' = "write" /\ Place' = "loop" /\ next' = "loop"
        /\ current' \in 0..N /\ todo' \in Left' /\ todo' \in Seq(Files) /\ todo' # <<>>
        /\ Head(todo') = "preds"
        /\ UNCHANGED <<kind, run, cursor, mem, task, preds, private, ckpt, summary, stamp,
                       starts, att, dbs, sessions, late, out>>
    BY <1>1, <1>5, WriteBegins DEF Prepared, Place, files, world, TypeOK
  <2>2. TypeOK'
    BY <1>1, <2>1 DEF TypeOK
  <2>3. Placed'
    BY <1>1, <2>1 DEF Placed, TypeOK
  <2>4. Counted'
    BY <1>1, <2>1 DEF Counted, Placed, TypeOK
  <2>5. Present'
    BY <1>1, <2>1 DEF Present, Placed, TypeOK
  <2>6. Filed'
    BY <1>1, <2>1 DEF Filed
  <2>. QED
    BY <2>2, <2>3, <2>4, <2>5, <2>6 DEF Control
<1>6. CASE ShardLoop
  <2>0. /\ pc = "loop" /\ Place = "loop" /\ run # Null
        /\ UNCHANGED <<kind, task, preds, private, ckpt, summary, stamp, starts, att, dbs,
                       sessions, late, out>>
    BY <1>1, <1>6 DEF ShardLoop, Place, files, world, Placed
  <2>1. CASE Down
    BY <1>1, <2>0, <2>1, ControlDown DEF TypeOK, files, mergeVars
  <2>2. CASE /\ cursor <= N /\ cursor' = cursor + 1
           /\ UNCHANGED <<run, mem, pc, current, todo, next>>
    <3>1. /\ Place' = "loop" /\ pc' = "loop" /\ cursor' = cursor + 1 /\ cursor' \in 1..(N + 1)
          /\ cursor \in Tasks /\ UNCHANGED <<run, mem, pc, current, todo, next>>
      BY <1>1, <2>0, <2>2 DEF Place, TypeOK, Tasks
    <3>2. TypeOK'
      BY <1>1, <2>0, <3>1 DEF TypeOK
    <3>3. Placed'
      BY <1>1, <2>0, <3>1 DEF Placed, TypeOK
    <3>4. Counted'
      BY <1>1, <2>0, <3>1 DEF Counted, Placed, TypeOK
    <3>5. Present'
      BY <1>1, <2>0, <3>1 DEF Present, Placed, TypeOK
    <3>6. Filed'
      BY <1>1, <2>0, <3>1 DEF Filed
    <3>. QED
      BY <3>2, <3>3, <3>4, <3>5, <3>6 DEF Control
  <2>3. CASE /\ cursor <= N /\ UNCHANGED <<run, mem, cursor>>
           /\ ShardWriteState(cursor, "run")
    <3>1. /\ pc' = "write" /\ Place' = "run" /\ next' = "run"
          /\ current' \in 0..N /\ todo' \in Left' /\ todo' \in Seq(Files) /\ todo' # <<>>
          /\ Head(todo') = "preds"
          /\ cursor \in Tasks /\ UNCHANGED <<run, mem, cursor>>
      BY <1>1, <2>0, <2>3, WriteBegins DEF TypeOK, Tasks
    <3>2. TypeOK'
      BY <1>1, <2>0, <3>1 DEF TypeOK
    <3>3. Placed'
      BY <1>1, <2>0, <3>1 DEF Placed, TypeOK
    <3>4. Counted'
      BY <1>1, <2>0, <3>1 DEF Counted, Placed, TypeOK
    <3>5. Present'
      BY <1>1, <2>0, <3>1 DEF Present, Placed, TypeOK
    <3>6. Filed'
      BY <1>1, <2>0, <3>1 DEF Filed
    <3>. QED
      BY <3>2, <3>3, <3>4, <3>5, <3>6 DEF Control
  <2>. QED
    BY <1>6, <2>1, <2>2, <2>3 DEF ShardLoop
<1>7. CASE RunTask
  <2>1. /\ pc = "run" /\ Place = "run"
        /\ pc' = "running" /\ Place' = "running" /\ cursor \in Tasks
        /\ att' = [att EXCEPT ![cursor] = @ + 1] /\ att[cursor] < starts
        /\ dbs' \in [Tasks -> {"none", "own", "late"}] /\ sessions' \subseteq Tasks
        /\ UNCHANGED <<kind, run, cursor, mem, current, todo, next, task, preds, private,
                       ckpt, summary, stamp, starts, late, out>>
    BY <1>1, <1>7 DEF RunTask, Made, Place, files, process, TypeOK, Placed, Counted
  <2>2. TypeOK'
    BY <1>1, <2>1 DEF TypeOK
  <2>3. Placed'
    BY <1>1, <2>1 DEF Placed, TypeOK
  <2>4. Counted'
    BY <1>1, <2>1 DEF Counted, Placed, TypeOK
  <2>5. Present'
    BY <1>1, <2>1 DEF Present, Placed, TypeOK
  <2>6. Filed'
    BY <1>1, <2>1 DEF Filed
  <2>. QED
    BY <2>2, <2>3, <2>4, <2>5, <2>6 DEF Control
<1>8. CASE TaskReturns
  <2>1. /\ pc = "running" /\ Place = "running"
        /\ pc' = "commit" /\ Place' = "commit" /\ cursor \in Tasks
        /\ mem' \in [Tasks -> {Null} \cup Saved] /\ mem'[cursor] # Null
        /\ dbs' \in [Tasks -> {"none", "own", "late"}]
        /\ UNCHANGED <<kind, run, cursor, current, todo, next, task, preds, private, ckpt,
                       summary, stamp, starts, att, sessions, late, out>>
    <3>1. pc = "running" /\ Place = "running" /\ pc' = "commit" /\ Place' = "commit"
      BY <1>1, <1>8 DEF TaskReturns, Place
    <3>2. cursor \in Tasks /\ att[cursor] \in 1..MaxStarts /\ run.config \in Configs
      BY <1>1, <1>8 DEF TaskReturns, Place, Placed, Counted, TypeOK, Runs
    <3>3. [res |-> [att |-> att[cursor], config |-> run.config, p1 |-> TRUE],
           verified |-> FALSE] \in Saved
      BY <1>1, <1>8, <3>2 DEF Saved, Results
    <3>4. mem' \in [Tasks -> {Null} \cup Saved] /\ mem'[cursor] # Null
      BY <1>1, <1>8, <3>2, <3>3, NullAssumption DEF TaskReturns, TypeOK
    <3>5. /\ dbs' \in [Tasks -> {"none", "own", "late"}]
          /\ UNCHANGED <<kind, run, cursor, current, todo, next, task, preds, private, ckpt,
                         summary, stamp, starts, att, sessions, late, out>>
      BY <1>1, <1>8, <3>1 DEF TaskReturns, Dropped, files, TypeOK
    <3>. QED
      BY <1>1, <1>8, <3>1, <3>2, <3>3, <3>4, <3>5
  <2>2. TypeOK'
    BY <1>1, <2>1 DEF TypeOK
  <2>3. Placed'
    BY <1>1, <2>1 DEF Placed, TypeOK
  <2>4. Counted'
    BY <1>1, <2>1 DEF Counted, Placed, TypeOK
  <2>5. Present'
    BY <1>1, <2>1 DEF Present, Placed, TypeOK
  <2>6. Filed'
    BY <1>1, <2>1 DEF Filed
  <2>. QED
    BY <2>2, <2>3, <2>4, <2>5, <2>6 DEF Control
<1>9. CASE TaskRaises
  <2>1. /\ pc = "running" /\ Place = "running"
        /\ pc' = "failed" /\ Place' = "failed" /\ cursor \in Tasks
        /\ late' \in {late, late \cup {cursor}} /\ att[cursor] >= 1
        /\ dbs' \in [Tasks -> {"none", "own", "late"}]
        /\ UNCHANGED <<kind, run, cursor, mem, current, todo, next, task, preds, private,
                       ckpt, summary, stamp, starts, att, sessions, out>>
    BY <1>1, <1>9 DEF TaskRaises, Dropped, Place, files, process, TypeOK, Placed, Counted
  <2>2. TypeOK'
    BY <1>1, <2>1 DEF TypeOK
  <2>3. Placed'
    BY <1>1, <2>1 DEF Placed, TypeOK
  <2>4. Counted'
    BY <1>1, <2>1 DEF Counted, Placed, TypeOK
  <2>5. Present'
    BY <1>1, <2>1 DEF Present, Placed, TypeOK
  <2>6. Filed'
    BY <1>1, <2>1 DEF Filed
  <2>. QED
    BY <2>2, <2>3, <2>4, <2>5, <2>6 DEF Control
<1>10. CASE TaskFailed
  <2>1. /\ pc = "failed" /\ Place = "failed"
        /\ pc' = "write" /\ Place' = "ending" /\ next' = "down"
        /\ current' \in 0..N /\ todo' \in Left' /\ todo' \in Seq(Files) /\ todo' # <<>>
        /\ Head(todo') = "preds"
        /\ dbs' \in [Tasks -> {"none", "own", "late"}] /\ sessions' \subseteq Tasks
        /\ UNCHANGED <<kind, run, cursor, mem, task, preds, private, ckpt, summary, stamp,
                       starts, att, late, out>>
    <3>1. pc = "failed" /\ Place = "failed" /\ cursor \in Tasks
      BY <1>1, <1>10 DEF TaskFailed, Place, Placed
    <3>2. /\ pc' = "write" /\ Place' = "ending" /\ next' = "down"
          /\ current' \in 0..N /\ todo' \in Left' /\ todo' \in Seq(Files) /\ todo' # <<>>
          /\ Head(todo') = "preds"
      BY <1>1, <1>10, <3>1, WriteBegins DEF TaskFailed, TypeOK, Tasks
    <3>3. /\ dbs' \in [Tasks -> {"none", "own", "late"}] /\ sessions' \subseteq Tasks
          /\ UNCHANGED <<att, late, out>>
      BY <1>1, <1>10 DEF TaskFailed, EnsureCleanup, CleanupFails, Dropped, TypeOK
    <3>4. UNCHANGED <<kind, run, cursor, mem, task, preds, private, ckpt, summary, stamp,
                      starts>>
      BY <1>1, <1>10 DEF TaskFailed, files
    <3>. QED
      BY <1>1, <1>10, <3>1, <3>2, <3>3, <3>4
  <2>2. TypeOK'
    BY <1>1, <2>1 DEF TypeOK
  <2>3. Placed'
    BY <1>1, <2>1 DEF Placed, TypeOK
  <2>4. Counted'
    BY <1>1, <2>1 DEF Counted, Placed, TypeOK
  <2>5. Present'
    BY <1>1, <2>1 DEF Present, Placed, TypeOK
  <2>6. Filed'
    BY <1>1, <2>1 DEF Filed
  <2>. QED
    BY <2>2, <2>3, <2>4, <2>5, <2>6 DEF Control
<1>11. CASE Commit
  <2>1. /\ pc = "commit" /\ Place = "commit"
        /\ pc' = "clean" /\ Place' = "clean" /\ cursor \in Tasks
        /\ task' \in [Tasks -> {Null} \cup Saved]
        /\ UNCHANGED <<kind, run, cursor, mem, current, todo, next, preds, private, ckpt,
                       summary, stamp, starts, att, dbs, sessions, late, out>>
    BY <1>1, <1>11 DEF Commit, Place, process, world, TypeOK, Placed
  <2>2. TypeOK'
    BY <1>1, <2>1 DEF TypeOK
  <2>3. Placed'
    BY <1>1, <2>1 DEF Placed, TypeOK
  <2>4. Counted'
    BY <1>1, <2>1 DEF Counted, Placed, TypeOK
  <2>5. Present'
    BY <1>1, <2>1 DEF Present, Placed, TypeOK
  <2>6. Filed'
    BY <1>1, <2>1 DEF Filed
  <2>. QED
    BY <2>2, <2>3, <2>4, <2>5, <2>6 DEF Control
<1>12. CASE Clean
  <2>0. /\ pc = "clean" /\ Place = "clean" /\ cursor \in Tasks
        /\ UNCHANGED <<kind, task, preds, private, ckpt, summary, stamp, starts>>
    BY <1>1, <1>12 DEF Clean, Place, files, Placed
  <2>1. CASE EnsureCleanup(cursor) /\ pc' = "verify" /\ UNCHANGED process
    <3>1. /\ pc' = "verify" /\ Place' = "verify"
          /\ dbs' \in [Tasks -> {"none", "own", "late"}] /\ sessions' \subseteq Tasks
          /\ UNCHANGED <<run, cursor, mem, current, todo, next, att, late, out>>
      BY <1>1, <2>0, <2>1 DEF EnsureCleanup, Dropped, Place, process, TypeOK
    <3>2. TypeOK'
      BY <1>1, <2>0, <3>1 DEF TypeOK
    <3>3. Placed'
      BY <1>1, <2>0, <3>1 DEF Placed, TypeOK
    <3>4. Counted'
      BY <1>1, <2>0, <3>1 DEF Counted, Placed, TypeOK
    <3>5. Present'
      BY <1>1, <2>0, <3>1 DEF Present, Placed, TypeOK
    <3>6. Filed'
      BY <1>1, <2>0, <3>1 DEF Filed
    <3>. QED
      BY <3>2, <3>3, <3>4, <3>5, <3>6 DEF Control
  <2>2. CASE CleanupFails(cursor) /\ Down
    <3>1. /\ UNCHANGED <<att, late, out>>
          /\ dbs' \in [Tasks -> {"none", "own", "late"}] /\ sessions' \subseteq Tasks
      BY <1>1, <2>0, <2>2 DEF CleanupFails, Dropped, TypeOK
    <3>. QED
      BY <1>1, <2>0, <2>2, <3>1, ControlDown DEF files, mergeVars
  <2>. QED
    BY <1>12, <2>1, <2>2 DEF Clean
<1>13. CASE Verify
  <2>1. /\ pc = "verify" /\ Place = "verify" /\ cursor' = cursor + 1 /\ cursor \in Tasks
        /\ pc' = "write" /\ Place' = "loop" /\ next' = "loop"
        /\ current' \in 0..N /\ todo' \in Left' /\ todo' \in Seq(Files) /\ todo' # <<>>
        /\ Head(todo') = "preds"
        /\ cursor' \in 1..(N + 1)
        /\ task' \in [Tasks -> {Null} \cup Saved] /\ mem' \in [Tasks -> {Null} \cup Saved]
        /\ UNCHANGED <<kind, run, preds, private, ckpt, summary, stamp, starts, att, dbs,
                       sessions, late, out>>
    <3>1. pc = "verify" /\ Place = "verify" /\ cursor \in Tasks /\ mem[cursor] # Null
      BY <1>1, <1>13 DEF Verify, Place, Placed, Present
    <3>2. /\ pc' = "write" /\ Place' = "loop" /\ next' = "loop"
          /\ current' \in 0..N /\ todo' \in Left' /\ todo' \in Seq(Files) /\ todo' # <<>>
          /\ Head(todo') = "preds"
      BY <1>1, <1>13, WriteBegins DEF Verify, TypeOK
    <3>3. /\ task' \in [Tasks -> {Null} \cup Saved] /\ mem' \in [Tasks -> {Null} \cup Saved]
      BY <1>1, <1>13, <3>1, MarkType DEF Verify, TypeOK
    <3>4. cursor' = cursor + 1 /\ cursor' \in 1..(N + 1)
      BY <1>1, <1>13, <3>1 DEF Verify, Tasks
    <3>5. UNCHANGED <<kind, run, preds, private, ckpt, summary, stamp, starts, att, dbs,
                      sessions, late, out>>
      BY <1>1, <1>13 DEF Verify, world
    <3>. QED
      BY <1>1, <1>13, <3>1, <3>2, <3>3, <3>4, <3>5
  <2>2. TypeOK'
    BY <1>1, <2>1 DEF TypeOK
  <2>3. Placed'
    BY <1>1, <2>1 DEF Placed, TypeOK
  <2>4. Counted'
    BY <1>1, <2>1 DEF Counted, Placed, TypeOK
  <2>5. Present'
    BY <1>1, <2>1 DEF Present, Placed, TypeOK
  <2>6. Filed'
    BY <1>1, <2>1 DEF Filed
  <2>. QED
    BY <2>2, <2>3, <2>4, <2>5, <2>6 DEF Control
<1>. QED
  BY <1>2, <1>3, <1>4, <1>5, <1>6, <1>7, <1>8, <1>9, <1>10, <1>11, <1>12, <1>13
     DEF ShardNext, ShardStep

\* Every step of the range runner keeps the control.
LEMMA ControlRange ==
    ASSUME Control, kind = "range", RangeNext, UNCHANGED mergeVars
    PROVE  Control'
<1>. USE RunDirectoryAssumption
<1>1. /\ TypeOK /\ Placed /\ Counted /\ Present /\ Filed
      /\ UNCHANGED <<mpc, seen, merged>>
  BY DEF Control, mergeVars
<1>2. CASE RangeStart
  <2>1. /\ pc = "down" /\ Place = "down" /\ cursor = 1 /\ starts < MaxStarts
        /\ starts' = starts + 1
        /\ UNCHANGED <<kind, cursor, task, preds, private, ckpt, summary, att, dbs,
                       sessions, late, out>>
    BY <1>1, <1>2 DEF RangeStart, world, Place, Placed
  <2>2. CASE UNCHANGED <<stamp, run, mem, pc, current, next, todo>>
    <3>1. Place' = Place
      BY <2>1, <2>2 DEF Place
    <3>2. TypeOK'
      BY <1>1, <2>1, <2>2 DEF TypeOK
    <3>3. Placed' /\ Present' /\ Filed'
      BY <1>1, <2>1, <2>2, <3>1 DEF Placed, Present, Filed
    <3>4. Counted'
      BY <1>1, <2>1, <2>2, <3>1 DEF Counted, TypeOK
    <3>. QED
      BY <3>2, <3>3, <3>4 DEF Control
  <2>3. CASE stamp' \in Configs /\ run' \in Runs /\ mem' = task /\ RangeWriteState(0, "gate")
    <3>1. /\ pc' = "write" /\ Place' = "gate" /\ next' = "gate"
          /\ current' \in 0..N /\ todo' \in Left' /\ todo' \in Seq(Files) /\ todo' # <<>>
          /\ Head(todo') = "preds"
          /\ stamp' # Null /\ run' # Null
      BY <1>1, <2>1, <2>3, WriteBegins, NullAssumption DEF TypeOK, Tasks
    <3>2. TypeOK'
      BY <1>1, <2>1, <2>3, <3>1 DEF TypeOK
    <3>3. Placed'
      BY <1>1, <2>1, <2>3, <3>1 DEF Placed, TypeOK
    <3>4. Counted'
      BY <1>1, <2>1, <2>3, <3>1 DEF Counted, Placed, TypeOK
    <3>5. Present'
      BY <1>1, <2>1, <2>3, <3>1 DEF Present, Placed, TypeOK
    <3>6. Filed'
      BY <1>1, <2>1, <2>3, <3>1 DEF Filed
    <3>. QED
      BY <3>2, <3>3, <3>4, <3>5, <3>6 DEF Control
  <2>4. \/ UNCHANGED <<stamp, run, mem, pc, current, next, todo>>
        \/ stamp' \in Configs /\ run' \in Runs /\ mem' = task /\ RangeWriteState(0, "gate")
    <3>1. PICK c \in Configs, o \in BOOLEAN :
            IF SameRun(c)
            THEN stamp' = c /\ run' = Started(c, o) /\ mem' = task /\ RangeWriteState(0, "gate")
            ELSE UNCHANGED <<stamp, run, mem, pc, current, next, todo>>
      BY <1>2 DEF RangeStart
    <3>2. Started(c, o) \in Runs
      BY DEF Started, Runs
    <3>. QED
      BY <3>1, <3>2
  <2>. QED
    BY <2>2, <2>3, <2>4
<1>3. CASE Gate
  <2>0. /\ pc = "gate" /\ Place = "gate" /\ summary # Null
        /\ UNCHANGED <<kind, run, cursor, mem, task, preds, private, ckpt, summary, stamp,
                       starts, att, dbs, sessions, late, out>>
    BY <1>1, <1>3 DEF Gate, Place, files, world, Filed
  <2>1. CASE WriteState(0, "down") /\ todo' = <<"pausedCkpt", "pausedSummary">>
    <3>1. /\ pc' = "write" /\ Place' = "ending" /\ next' = "down"
          /\ current' \in 0..N /\ todo' \in Left' /\ todo' \in Seq(Files) /\ todo' # <<>>
          /\ Head(todo') = "pausedCkpt"
      <4>1. /\ pc' = "write" /\ current' = 0 /\ next' = "down"
            /\ Place' = "ending"
        BY <1>1, <2>0, <2>1 DEF WriteState, Place
      <4>2. todo' \in Left'
        BY <1>1, <2>0, <2>1 DEF Left
      <4>3. todo' \in Seq(Files) /\ todo' # <<>> /\ Head(todo') = "pausedCkpt"
        BY <1>1, <2>0, <2>1, Tuples DEF Files
      <4>4. 0 \in 0..N
        BY <1>1, <2>0, <2>1, <2>0
      <4>. QED
        BY <1>1, <2>0, <2>1, <4>1, <4>2, <4>3, <4>4
    <3>2. TypeOK'
      BY <1>1, <2>0, <3>1 DEF TypeOK
    <3>3. Placed'
      BY <1>1, <2>0, <3>1 DEF Placed, TypeOK
    <3>4. Counted'
      BY <1>1, <2>0, <3>1 DEF Counted, Placed, TypeOK
    <3>5. Present'
      BY <1>1, <2>0, <3>1 DEF Present, Placed, TypeOK
    <3>6. Filed'
      BY <1>1, <2>0, <3>1 DEF Filed
    <3>. QED
      BY <3>2, <3>3, <3>4, <3>5, <3>6 DEF Control
  <2>2. CASE pc' = "loop" /\ UNCHANGED <<current, todo, next>>
    <3>1. /\ pc' = "loop" /\ Place' = "loop" /\ UNCHANGED <<current, todo, next>>
      BY <1>1, <2>0, <2>2 DEF Place
    <3>2. TypeOK'
      BY <1>1, <2>0, <3>1 DEF TypeOK
    <3>3. Placed'
      BY <1>1, <2>0, <3>1 DEF Placed, TypeOK
    <3>4. Counted'
      BY <1>1, <2>0, <3>1 DEF Counted, Placed, TypeOK
    <3>5. Present'
      BY <1>1, <2>0, <3>1 DEF Present, Placed, TypeOK
    <3>6. Filed'
      BY <1>1, <2>0, <3>1 DEF Filed
    <3>. QED
      BY <3>2, <3>3, <3>4, <3>5, <3>6 DEF Control
  <2>. QED
    BY <1>3, <2>1, <2>2 DEF Gate
<1>4. CASE RangeLoop
  <2>0. /\ pc = "loop" /\ Place = "loop" /\ run # Null
        /\ UNCHANGED <<kind, task, preds, private, ckpt, summary, stamp, starts, att, dbs,
                       sessions, late, out>>
    BY <1>1, <1>4 DEF RangeLoop, Place, files, world, Placed
  <2>1. CASE Down
    BY <1>1, <2>0, <2>1, ControlDown DEF TypeOK, files, mergeVars
  <2>2. CASE /\ cursor <= N /\ cursor' = cursor + 1
           /\ UNCHANGED <<run, mem, pc, current, todo, next>>
    <3>1. /\ Place' = "loop" /\ pc' = "loop" /\ cursor' = cursor + 1 /\ cursor' \in 1..(N + 1)
          /\ cursor \in Tasks /\ UNCHANGED <<run, mem, pc, current, todo, next>>
      BY <1>1, <2>0, <2>2 DEF Place, TypeOK, Tasks
    <3>2. TypeOK'
      BY <1>1, <2>0, <3>1 DEF TypeOK
    <3>3. Placed'
      BY <1>1, <2>0, <3>1 DEF Placed, TypeOK
    <3>4. Counted'
      BY <1>1, <2>0, <3>1 DEF Counted, Placed, TypeOK
    <3>5. Present'
      BY <1>1, <2>0, <3>1 DEF Present, Placed, TypeOK
    <3>6. Filed'
      BY <1>1, <2>0, <3>1 DEF Filed
    <3>. QED
      BY <3>2, <3>3, <3>4, <3>5, <3>6 DEF Control
  <2>3. CASE /\ cursor <= N /\ UNCHANGED <<run, mem, cursor>>
           /\ RangeWriteState(cursor, "run")
    <3>1. /\ pc' = "write" /\ Place' = "run" /\ next' = "run"
          /\ current' \in 0..N /\ todo' \in Left' /\ todo' \in Seq(Files) /\ todo' # <<>>
          /\ Head(todo') = "preds"
          /\ cursor \in Tasks /\ UNCHANGED <<run, mem, cursor>>
      BY <1>1, <2>0, <2>3, WriteBegins DEF TypeOK, Tasks
    <3>2. TypeOK'
      BY <1>1, <2>0, <3>1 DEF TypeOK
    <3>3. Placed'
      BY <1>1, <2>0, <3>1 DEF Placed, TypeOK
    <3>4. Counted'
      BY <1>1, <2>0, <3>1 DEF Counted, Placed, TypeOK
    <3>5. Present'
      BY <1>1, <2>0, <3>1 DEF Present, Placed, TypeOK
    <3>6. Filed'
      BY <1>1, <2>0, <3>1 DEF Filed
    <3>. QED
      BY <3>2, <3>3, <3>4, <3>5, <3>6 DEF Control
  <2>. QED
    BY <1>4, <2>1, <2>2, <2>3 DEF RangeLoop
<1>5. CASE StartChild
  <2>1. /\ pc = "run" /\ Place = "run"
        /\ pc' = "running" /\ Place' = "running" /\ cursor \in Tasks
        /\ att' = [att EXCEPT ![cursor] = @ + 1] /\ att[cursor] < starts
        /\ dbs' \in [Tasks -> {"none", "own", "late"}]
        /\ UNCHANGED <<kind, run, cursor, mem, current, todo, next, task, preds, private,
                       ckpt, summary, stamp, starts, sessions, late, out>>
    BY <1>1, <1>5 DEF StartChild, Made, Place, files, process, TypeOK, Placed, Counted
  <2>2. TypeOK'
    BY <1>1, <2>1 DEF TypeOK
  <2>3. Placed'
    BY <1>1, <2>1 DEF Placed, TypeOK
  <2>4. Counted'
    BY <1>1, <2>1 DEF Counted, Placed, TypeOK
  <2>5. Present'
    BY <1>1, <2>1 DEF Present, Placed, TypeOK
  <2>6. Filed'
    BY <1>1, <2>1 DEF Filed
  <2>. QED
    BY <2>2, <2>3, <2>4, <2>5, <2>6 DEF Control
<1>6. CASE ChildWrites
  <2>1. /\ pc = "running" /\ Place = "running" /\ Place' = "running"
        /\ out' \in [Tasks -> {Null} \cup Results]
        /\ UNCHANGED <<kind, pc, run, cursor, mem, current, todo, next, task, preds,
                       private, ckpt, summary, stamp, starts, att, dbs, sessions, late>>
    <3>1. /\ pc = "running" /\ Place = "running" /\ Place' = "running"
          /\ UNCHANGED <<kind, pc, run, cursor, mem, current, todo, next, task, preds, private,
                        ckpt, summary, stamp, starts, att, dbs, sessions, late>>
      BY <1>1, <1>6 DEF ChildWrites, Place, process, files
    <3>2. /\ cursor \in Tasks /\ att[cursor] \in 1..MaxStarts
          /\ run.config \in Configs
      BY <1>1, <1>6, <3>1 DEF Placed, Counted, TypeOK, Runs
    <3>3. PICK p \in BOOLEAN :
            out' = [out EXCEPT ![cursor] =
                       [att |-> att[cursor], config |-> run.config, p1 |-> p]]
      BY <1>1, <1>6 DEF ChildWrites
    <3>4. out' \in [Tasks -> {Null} \cup Results]
      BY <1>1, <1>6, <3>2, <3>3 DEF TypeOK, Results
    <3>. QED
      BY <1>1, <1>6, <3>1, <3>2, <3>3, <3>4
  <2>2. TypeOK'
    BY <1>1, <2>1 DEF TypeOK
  <2>3. Placed'
    BY <1>1, <2>1 DEF Placed, TypeOK
  <2>4. Counted'
    BY <1>1, <2>1 DEF Counted, Placed, TypeOK
  <2>5. Present'
    BY <1>1, <2>1 DEF Present, Placed, TypeOK
  <2>6. Filed'
    BY <1>1, <2>1 DEF Filed
  <2>. QED
    BY <2>2, <2>3, <2>4, <2>5, <2>6 DEF Control
<1>7. CASE ChildFails
  <2>1. /\ pc = "running" /\ Place = "running"
        /\ pc' = "write" /\ Place' = "ending" /\ next' = "down"
        /\ current' \in 0..N /\ todo' \in Left' /\ todo' \in Seq(Files) /\ todo' # <<>>
        /\ Head(todo') = "preds"
        /\ UNCHANGED <<kind, run, cursor, mem, task, preds, private, ckpt, summary, stamp,
                       starts, att, dbs, sessions, late, out>>
    <3>1. pc = "running" /\ Place = "running"
      BY <1>1, <1>7 DEF ChildFails, Place
    <3>2. /\ pc' = "write" /\ Place' = "ending" /\ next' = "down"
          /\ current' \in 0..N /\ todo' \in Left' /\ todo' \in Seq(Files) /\ todo' # <<>>
          /\ Head(todo') = "preds"
      BY <1>1, <1>7, WriteBegins DEF ChildFails, TypeOK
    <3>3. UNCHANGED <<kind, run, cursor, mem, task, preds, private, ckpt, summary, stamp,
                      starts, att, dbs, sessions, late, out>>
      BY <1>1, <1>7 DEF ChildFails, files, world
    <3>. QED
      BY <1>1, <1>7, <3>1, <3>2, <3>3
  <2>2. TypeOK'
    BY <1>1, <2>1 DEF TypeOK
  <2>3. Placed'
    BY <1>1, <2>1 DEF Placed, TypeOK
  <2>4. Counted'
    BY <1>1, <2>1 DEF Counted, Placed, TypeOK
  <2>5. Present'
    BY <1>1, <2>1 DEF Present, Placed, TypeOK
  <2>6. Filed'
    BY <1>1, <2>1 DEF Filed
  <2>. QED
    BY <2>2, <2>3, <2>4, <2>5, <2>6 DEF Control
<1>8. CASE ChildExits
  <2>0. /\ pc = "running" /\ Place = "running" /\ cursor \in Tasks
        /\ UNCHANGED <<kind, task, preds, private, ckpt, summary, stamp, starts, att, dbs,
                       sessions, late, out>>
    BY <1>1, <1>8 DEF ChildExits, Place, files, world, Placed
  <2>1. CASE out[cursor] # Null /\ pc' = "reset" /\ UNCHANGED process
    <3>1. /\ pc' = "reset" /\ Place' = "reset" /\ out[cursor] # Null
          /\ UNCHANGED <<run, cursor, mem, current, todo, next>>
      BY <1>1, <2>0, <2>1 DEF Place, process
    <3>2. TypeOK'
      BY <1>1, <2>0, <3>1 DEF TypeOK
    <3>3. Placed'
      BY <1>1, <2>0, <3>1 DEF Placed, TypeOK
    <3>4. Counted'
      BY <1>1, <2>0, <3>1 DEF Counted, Placed, TypeOK
    <3>5. Present'
      BY <1>1, <2>0, <3>1 DEF Present, Placed, TypeOK
    <3>6. Filed'
      BY <1>1, <2>0, <3>1 DEF Filed
    <3>. QED
      BY <3>2, <3>3, <3>4, <3>5, <3>6 DEF Control
  <2>2. CASE Down
    BY <1>1, <2>0, <2>2, ControlDown DEF TypeOK, files, mergeVars
  <2>. QED
    BY <1>8, <2>1, <2>2 DEF ChildExits
<1>9. CASE Restore
  <2>1. /\ pc = "reset" /\ Place = "reset"
        /\ pc' = "save" /\ Place' = "save" /\ cursor \in Tasks
        /\ mem' \in [Tasks -> {Null} \cup Saved] /\ mem'[cursor] # Null
        /\ dbs' \in [Tasks -> {"none", "own", "late"}]
        /\ UNCHANGED <<kind, run, cursor, current, todo, next, task, preds, private, ckpt,
                       summary, stamp, starts, att, sessions, late, out>>
    <3>1. /\ pc = "reset" /\ Place = "reset" /\ pc' = "save" /\ Place' = "save"
          /\ cursor \in Tasks /\ out[cursor] \in Results
      BY <1>1, <1>9 DEF Restore, Place, Placed, Present, TypeOK
    <3>2. Envelope(cursor) \in Saved
      BY <1>1, <1>9, <3>1 DEF Envelope, Saved
    <3>3. mem' \in [Tasks -> {Null} \cup Saved] /\ mem'[cursor] # Null
      BY <1>1, <1>9, <3>1, <3>2, NullAssumption DEF Restore, TypeOK
    <3>4. /\ dbs' \in [Tasks -> {"none", "own", "late"}]
          /\ UNCHANGED <<kind, run, cursor, current, todo, next, task, preds, private, ckpt,
                         summary, stamp, starts, att, sessions, late, out>>
      BY <1>1, <1>9 DEF Restore, Dropped, files, TypeOK
    <3>. QED
      BY <1>1, <1>9, <3>1, <3>2, <3>3, <3>4
  <2>2. TypeOK'
    BY <1>1, <2>1 DEF TypeOK
  <2>3. Placed'
    BY <1>1, <2>1 DEF Placed, TypeOK
  <2>4. Counted'
    BY <1>1, <2>1 DEF Counted, Placed, TypeOK
  <2>5. Present'
    BY <1>1, <2>1 DEF Present, Placed, TypeOK
  <2>6. Filed'
    BY <1>1, <2>1 DEF Filed
  <2>. QED
    BY <2>2, <2>3, <2>4, <2>5, <2>6 DEF Control
<1>10. CASE RestoreFails
  <2>1. /\ pc = "reset" /\ Place = "reset"
        /\ pc' = "write" /\ Place' = "ending" /\ next' = "down"
        /\ current' \in 0..N /\ todo' \in Left' /\ todo' \in Seq(Files) /\ todo' # <<>>
        /\ Head(todo') = "preds"
        /\ dbs' \in [Tasks -> {"none", "own", "late"}]
        /\ UNCHANGED <<kind, run, cursor, mem, task, preds, private, ckpt, summary, stamp,
                       starts, att, sessions, late, out>>
    <3>1. pc = "reset" /\ Place = "reset"
      BY <1>1, <1>10 DEF RestoreFails, Place
    <3>2. /\ pc' = "write" /\ Place' = "ending" /\ next' = "down"
          /\ current' \in 0..N /\ todo' \in Left' /\ todo' \in Seq(Files) /\ todo' # <<>>
          /\ Head(todo') = "preds"
      BY <1>1, <1>10, WriteBegins DEF RestoreFails, TypeOK
    <3>3. /\ dbs' \in [Tasks -> {"none", "own", "late"}]
          /\ UNCHANGED <<kind, run, cursor, mem, task, preds, private, ckpt, summary, stamp,
                      starts, att, sessions, late, out>>
      BY <1>1, <1>10 DEF RestoreFails, Dropped, files, TypeOK
    <3>. QED
      BY <1>1, <1>10, <3>1, <3>2, <3>3
  <2>2. TypeOK'
    BY <1>1, <2>1 DEF TypeOK
  <2>3. Placed'
    BY <1>1, <2>1 DEF Placed, TypeOK
  <2>4. Counted'
    BY <1>1, <2>1 DEF Counted, Placed, TypeOK
  <2>5. Present'
    BY <1>1, <2>1 DEF Present, Placed, TypeOK
  <2>6. Filed'
    BY <1>1, <2>1 DEF Filed
  <2>. QED
    BY <2>2, <2>3, <2>4, <2>5, <2>6 DEF Control
<1>11. CASE Save
  <2>1. /\ pc = "save" /\ Place = "save" /\ cursor' = cursor + 1 /\ cursor \in Tasks
        /\ pc' = "write" /\ Place' = "gate" /\ next' = "gate"
        /\ current' \in 0..N /\ todo' \in Left' /\ todo' \in Seq(Files) /\ todo' # <<>>
        /\ Head(todo') = "preds"
        /\ cursor' \in 1..(N + 1)
        /\ task' \in [Tasks -> {Null} \cup Saved]
        /\ UNCHANGED <<kind, run, mem, preds, private, ckpt, summary, stamp, starts, att,
                       dbs, sessions, late, out>>
    <3>1. pc = "save" /\ Place = "save" /\ cursor \in Tasks
      BY <1>1, <1>11 DEF Save, Place, Placed
    <3>2. /\ pc' = "write" /\ Place' = "gate" /\ next' = "gate"
          /\ current' \in 0..N /\ todo' \in Left' /\ todo' \in Seq(Files) /\ todo' # <<>>
          /\ Head(todo') = "preds"
      BY <1>1, <1>11, WriteBegins DEF Save, TypeOK
    <3>3. task' \in [Tasks -> {Null} \cup Saved]
      BY <1>1, <1>11, <3>1 DEF Save, TypeOK
    <3>4. cursor' = cursor + 1 /\ cursor' \in 1..(N + 1)
      BY <1>1, <1>11, <3>1 DEF Save, Tasks
    <3>5. UNCHANGED <<kind, run, mem, preds, private, ckpt, summary, stamp, starts, att,
                      dbs, sessions, late, out>>
      BY <1>1, <1>11 DEF Save, world
    <3>. QED
      BY <1>1, <1>11, <3>1, <3>2, <3>3, <3>4, <3>5
  <2>2. TypeOK'
    BY <1>1, <2>1 DEF TypeOK
  <2>3. Placed'
    BY <1>1, <2>1 DEF Placed, TypeOK
  <2>4. Counted'
    BY <1>1, <2>1 DEF Counted, Placed, TypeOK
  <2>5. Present'
    BY <1>1, <2>1 DEF Present, Placed, TypeOK
  <2>6. Filed'
    BY <1>1, <2>1 DEF Filed
  <2>. QED
    BY <2>2, <2>3, <2>4, <2>5, <2>6 DEF Control
<1>12. CASE OrphanWrites
  <2>1. /\ Place' = Place /\ out' \in [Tasks -> {Null} \cup Results]
        /\ \A i \in Tasks : out[i] # Null => out'[i] # Null
        /\ UNCHANGED <<kind, pc, run, cursor, mem, current, todo, next, task, preds,
                       private, ckpt, summary, stamp, starts, att, dbs, sessions, late>>
    <3>1. PICK i \in late, p \in BOOLEAN :
            out' = [out EXCEPT ![i] = [att |-> att[i], config |-> stamp, p1 |-> p]]
      BY <1>1, <1>12 DEF OrphanWrites
    <3>2. i \in Tasks /\ att[i] \in 1..MaxStarts /\ stamp \in Configs
      BY <1>1, <1>12, <3>1 DEF Present, Counted, TypeOK
    <3>3. [att |-> att[i], config |-> stamp, p1 |-> p] \in Results
      BY <1>1, <1>12, <3>2 DEF Results
    <3>4. /\ out' \in [Tasks -> {Null} \cup Results]
          /\ \A j \in Tasks : out[j] # Null => out'[j] # Null
      BY <1>1, <1>12, <3>1, <3>2, <3>3, NullAssumption DEF TypeOK
    <3>5. /\ UNCHANGED <<kind, pc, run, cursor, mem, current, todo, next, task, preds, private,
                        ckpt, summary, stamp, starts, att, dbs, sessions, late>>
          /\ Place' = Place
      BY <1>1, <1>12 DEF OrphanWrites, Place, process, files
    <3>. QED
      BY <1>1, <1>12, <3>1, <3>2, <3>3, <3>4, <3>5
  <2>2. TypeOK'
    BY <1>1, <2>1 DEF TypeOK
  <2>3. Placed'
    BY <1>1, <2>1 DEF Placed, TypeOK
  <2>4. Counted'
    BY <1>1, <2>1 DEF Counted, Placed, TypeOK
  <2>5. Present'
    BY <1>1, <2>1 DEF Present, Placed, TypeOK
  <2>6. Filed'
    BY <1>1, <2>1 DEF Filed, Left, Status
  <2>. QED
    BY <2>2, <2>3, <2>4, <2>5, <2>6 DEF Control
<1>. QED
  BY <1>2, <1>3, <1>4, <1>5, <1>6, <1>7, <1>8, <1>9, <1>10, <1>11, <1>12
     DEF RangeNext, RangeStep

\* So does a run that goes on although nobody waits for it.
LEMMA ControlLate ==
    ASSUME Control, LateRun, UNCHANGED mergeVars
    PROVE  Control'
<1>1. /\ TypeOK /\ Placed /\ Counted /\ Present /\ Filed
      /\ UNCHANGED <<mpc, seen, merged>>
  BY DEF Control, mergeVars
<1>2. /\ UNCHANGED <<kind, pc, run, cursor, mem, current, todo, next, task, preds, private,
                     ckpt, summary, stamp, starts, att, sessions, out>>
      /\ UNCHANGED <<Place, Status, Left>>
  BY DEF LateRun, process, files, Place, Status, Left
<1>3. late' \subseteq late /\ dbs' \in [Tasks -> {"none", "own", "late"}]
  BY <1>1 DEF LateRun, Made, TypeOK
<1>4. TypeOK'
  BY <1>1, <1>2, <1>3 DEF TypeOK
<1>5. Placed' /\ Counted'
  BY <1>1, <1>2, <1>3 DEF Placed, Counted
<1>6. Present' /\ Filed'
  BY <1>1, <1>2, <1>3 DEF Present, Filed
<1>. QED
  BY <1>4, <1>5, <1>6 DEF Control

\* So does every step of the merge.
LEMMA ControlMerges ==
    ASSUME Control, MergeNext
    PROVE  Control'
<1>1. TypeOK /\ Present /\ Filed
  BY DEF Control
<1>2. UNCHANGED runVars
  BY DEF MergeNext, MergeReadSummary, MergeReadCheckpoint, MergeReadPredictions,
         MergeValidate, MergePrivate, MergeFinish, MergeCrash
<1>3. /\ mpc' \in {"idle", "ckpt", "preds", "validate", "private", "finish"}
      /\ seen' \in {Null} \cup Summaries
      /\ mpc' \in {"ckpt", "preds", "validate"} => seen' # Null /\ summary # Null
  BY <1>1 DEF MergeNext, MergeReadSummary, MergeReadCheckpoint, MergeReadPredictions,
         MergeValidate, MergePrivate, MergeFinish, MergeCrash, TypeOK, Present
<1>4. /\ merged' \in {Null} \cup Merged
      /\ mpc' \in {"private", "finish"} => merged' # Null
      /\ merged' # Null => merged'.preds # <<>>
  <2>1. CASE merged' = merged /\ mpc' \notin {"private", "finish"}
    BY <1>1, <2>1 DEF TypeOK, Present
  <2>2. CASE MergeValidate
    <3>1. PICK o \in OtherSources :
            IF Compatible(o)
            THEN /\ mpc' = "private"
                 /\ merged' = [preds |-> Append(preds, OtherEntry(o.config)),
                               private |-> <<>>, done |-> FALSE]
            ELSE mpc' = "idle" /\ UNCHANGED merged
      BY <2>2 DEF MergeValidate
    <3>2. CASE mpc' = "idle" /\ UNCHANGED merged
      BY <2>1, <3>2
    <3>3. CASE merged' = [preds |-> Append(preds, OtherEntry(o.config)),
                          private |-> <<>>, done |-> FALSE]
      <4>. DEFINE E == [index : 1..(N + 1), res : Results]
                  l == Append(preds, OtherEntry(o.config))
      <4>1. preds \in Seq(E)
        BY <1>1, <2>2 DEF MergeValidate, Present, Filed, TypeOK, Listings
      <4>2. OtherEntry(o.config) \in E
        BY RunDirectoryAssumption DEF OtherEntry, OtherSources, Results
      <4>. HIDE DEF E
      <4>3. l \in Seq(E) /\ l # <<>> /\ <<>> \in Seq(E)
        BY <4>1, <4>2, AppendProperties, EmptySeq
      <4>4. l \in Listings /\ <<>> \in Listings
        BY <4>3 DEF E, Listings
      <4>. HIDE DEF l
      <4>5. merged' \in Merged /\ merged'.preds # <<>>
        BY <3>3, <4>3, <4>4 DEF Merged, l
      <4>. QED
        BY <4>5, NullAssumption
    <3>. QED
      BY <3>1, <3>2, <3>3
  <2>3. CASE MergePrivate
    <3>1. merged \in Merged /\ merged.preds # <<>>
      BY <1>1, <2>3 DEF MergePrivate, Present, TypeOK
    <3>2. CASE mpc' = "idle" /\ merged' = merged
      BY <2>1, <3>2
    <3>3. CASE /\ Len(Complete(task)) = N
               /\ mpc' = "finish"
               /\ merged' = [merged EXCEPT !.private =
                                Append(Predictions(task), Last(merged.preds))]
      <4>. DEFINE E == [index : 1..(N + 1), res : Results]
                  l == Append(Predictions(task), Last(merged.preds))
      <4>1. Predictions(task) \in Seq(E) /\ merged.preds \in Seq(E)
        BY <1>1, <3>1, PredictionsType DEF TypeOK, Listings, Merged
      <4>. HIDE DEF E
      <4>2. Last(merged.preds) \in E
        BY <3>1, <4>1 DEF Last
      <4>3. l \in Seq(E)
        BY <4>1, <4>2
      <4>4. l \in Listings
        BY <4>3 DEF E, Listings
      <4>. HIDE DEF l
      <4>5. merged' \in Merged /\ merged'.preds = merged.preds
        BY <3>1, <3>3, <4>4 DEF Merged, l
      <4>. QED
        BY <3>1, <4>5, NullAssumption
    <3>. QED
      BY <2>3, <3>2, <3>3 DEF MergePrivate
  <2>4. CASE MergeFinish
    <3>1. merged \in Merged /\ merged.preds # <<>>
      BY <1>1, <2>4 DEF MergeFinish, Present, TypeOK
    <3>2. /\ [merged EXCEPT !.done = TRUE] \in Merged
          /\ [merged EXCEPT !.done = TRUE].preds = merged.preds
      BY <3>1 DEF Merged
    <3>. QED
      BY <2>4, <3>1, <3>2, NullAssumption DEF MergeFinish
  <2>. QED
    BY <1>1, <2>1, <2>2, <2>3, <2>4 DEF MergeNext, MergeReadSummary, MergeReadCheckpoint,
       MergeReadPredictions, MergeCrash, TypeOK
<1>. QED
  BY <1>2, <1>3, <1>4, ControlMerge

\* And so does every step.
LEMMA ControlStep ==
    ASSUME Control, [Next]_vars
    PROVE  Control'
<1>1. CASE UNCHANGED vars
  <2>1. UNCHANGED runVars /\ UNCHANGED mergeVars
    BY <1>1 DEF vars
  <2>. QED
    BY <2>1, ControlMerge DEF mergeVars, Control, TypeOK, Present
<1>2. CASE Runner
  <2>1. CASE kind = "shard" /\ ShardNext
    BY <1>2, <2>1, ControlShard DEF Runner
  <2>2. CASE kind = "range" /\ RangeNext
    BY <1>2, <2>2, ControlRange DEF Runner
  <2>3. CASE WriteNext
    BY <1>2, <2>3, ControlWrite DEF Runner
  <2>4. CASE Crash
    <3>1. /\ pc # "down" /\ Down /\ UNCHANGED <<kind, files, att, dbs, sessions, out, starts>>
          /\ late' = late \/ (late' = late \cup {cursor} /\ pc = "running")
      BY <2>4 DEF Crash
    <3>. QED
      BY <1>2, <3>1, ControlDown DEF Runner, Control, TypeOK
  <2>5. CASE LateRun
    BY <1>2, <2>5, ControlLate DEF Runner
  <2>. QED
    BY <1>2, <2>1, <2>2, <2>3, <2>4, <2>5 DEF Runner
<1>3. CASE MergeNext
  BY <1>3, ControlMerges
<1>. QED
  BY <1>1, <1>2, <1>3 DEF Next, Idle

\* The control of the process is an invariant.
LEMMA ControlHolds == Spec => []Control
BY ControlInit, ControlStep, PTL DEF Spec

\* The directory, the process, the services and the merge hold values of their
\* kinds in every state, for any number of tasks, starts and configurations: a
\* file is replaced by one of its kind, and no step uses what is not there.
THEOREM TypeCorrect == Spec => []TypeOK
<1>1. Control => TypeOK
  BY DEF Control
<1>. QED
  BY <1>1, ControlHolds, PTL

-----------------------------------------------------------------------------
(* The kinds of steps *)

\* Nothing is left behind on the services that was not there.
Tidier ==
    /\ sessions' \subseteq sessions
    /\ \A i \in Tasks : dbs'[i] = "own" => dbs[i] = "own"

\* Only write_state replaces these.
KeepsFiles == UNCHANGED <<kind, preds, private, ckpt, summary>>

\* The process stays where it is; a child may have written its status.
Stays ==
    /\ UNCHANGED <<kind, Place, run, cursor, mem, task, stamp, att>>
    /\ Tidier
    /\ \A i \in Tasks : out'[i] # out[i] =>
          \/ out'[i] # Null /\ out'[i].config = stamp
          \/ out'[i] # Null /\ out'[i].config = run.config /\ Place = "running"

Ends ==
    /\ Place' = "down" /\ run' = Null /\ cursor' = 1 /\ mem' = NoResults
    /\ UNCHANGED <<kind, task, stamp, att, out>>
    /\ Tidier

Starts ==
    /\ Place = "down" /\ mem' = task /\ run' \in Runs
    /\ KeepsFiles /\ UNCHANGED <<cursor, task, world>>
    /\ \/ kind = "shard" /\ Place' = "recover" /\ Resumable(run'.config) /\ UNCHANGED stamp
       \/ kind = "range" /\ Place' = "gate" /\ SameRun(run'.config) /\ stamp' = run'.config

Recovers ==
    /\ Place = "recover" /\ Place' = "recovered" /\ cursor' \in Pending
    /\ sessions' = sessions \ {cursor'} /\ dbs' = Dropped(cursor')
    /\ KeepsFiles /\ UNCHANGED <<run, mem, task, stamp, att, out>>

Marks ==
    /\ Place = "recovered" /\ Place' = "recover" /\ cursor' = 1
    /\ task' = MarkVerified(task, cursor) /\ mem' = MarkVerified(mem, cursor)
    /\ KeepsFiles /\ UNCHANGED <<run, stamp, world>>

Moves(from, to) ==
    /\ Place = from /\ Place' = to
    /\ KeepsFiles /\ UNCHANGED <<run, cursor, mem, task, stamp, att, out>>
    /\ Tidier

GoesOn ==
    \/ Moves("recover", "loop") /\ Pending = {}
    \/ /\ Moves("loop", "run") /\ cursor \in Tasks
       /\ IF kind = "shard" THEN ~Skipped(cursor) ELSE mem[cursor] = Null
    \/ Moves("running", "failed")
    \/ Moves("failed", "ending")
    \/ Moves("clean", "verify") /\ cursor \notin sessions' /\ dbs'[cursor] = "none"
    \/ Moves("gate", "ending")
    \/ Moves("gate", "loop") /\ (run.override \/ ~TooFew(mem))
    \/ Moves("running", "ending")
    \/ Moves("running", "reset")
    \/ Moves("reset", "ending")

Skips ==
    /\ Place = "loop" /\ Place' = "loop" /\ cursor \in Tasks /\ mem[cursor] # Null
    /\ cursor' = cursor + 1
    /\ KeepsFiles /\ UNCHANGED <<run, mem, task, stamp, world>>

Begins ==
    /\ Place = "run" /\ Place' = "running"
    /\ att' = [att EXCEPT ![cursor] = @ + 1]
    /\ dbs' = Made(cursor, "own")
    /\ sessions' = IF kind = "shard" THEN sessions \cup {cursor} ELSE sessions
    /\ KeepsFiles /\ UNCHANGED <<run, cursor, mem, task, stamp, out>>

Yields ==
    /\ \/ /\ Place = "running" /\ Place' = "commit"
          /\ \E e \in Saved : /\ mem' = [mem EXCEPT ![cursor] = e]
                              /\ ~e.verified /\ e.res.config = run.config
       \/ /\ Place = "reset" /\ Place' = "save" /\ dbs'[cursor] = "none"
          /\ mem' = [mem EXCEPT ![cursor] = Envelope(cursor)]
    /\ KeepsFiles /\ UNCHANGED <<run, cursor, task, stamp, att, out>>
    /\ Tidier

Saves ==
    /\ \/ Place = "commit" /\ Place' = "clean" /\ cursor' = cursor
       \/ Place = "save" /\ Place' = "gate" /\ cursor' = cursor + 1
    /\ task' = [task EXCEPT ![cursor] = mem[cursor]]
    /\ KeepsFiles /\ UNCHANGED <<run, mem, stamp, world>>

Verifies ==
    /\ Place = "verify" /\ Place' = "loop" /\ cursor' = cursor + 1
    /\ mem' = MarkVerified(mem, cursor)
    /\ task' = [task EXCEPT ![cursor] = mem'[cursor]]
    /\ KeepsFiles /\ UNCHANGED <<run, stamp, world>>

Kind ==
    \/ Stays /\ (WriteNext \/ UNCHANGED <<preds, private, ckpt, summary>>)
    \/ Ends /\ (WriteNext \/ UNCHANGED <<preds, private, ckpt, summary>>)
    \/ Starts \/ Recovers \/ Marks \/ GoesOn \/ Skips \/ Begins \/ Yields \/ Saves \/ Verifies

\* The steps of the shard runner are of these kinds.
LEMMA ShardKinds ==
    ASSUME Control, kind = "shard", ShardNext
    PROVE  Kind
<1>1. TypeOK /\ Placed /\ Present
  BY DEF Control
<1>. USE DEF KeepsFiles
<1>2. CASE ShardStart
  <2>1. /\ pc = "down" /\ Place = "down"
        /\ UNCHANGED <<kind, cursor, current, todo, next, task, preds, private, ckpt,
                       summary, stamp, world>>
    BY <1>2 DEF ShardStart, files, Place
  <2>2. PICK c \in Configs :
            IF Resumable(c)
            THEN pc' = "recover" /\ run' = Configuration(c) /\ mem' = Envelopes
            ELSE UNCHANGED <<pc, run, mem>>
    BY <1>2 DEF ShardStart
  <2>3. CASE UNCHANGED <<pc, run, mem>>
    <3>1. Stays
      BY <2>1, <2>3 DEF Stays, Tidier, world, Place
    <3>. QED
      BY <2>1, <3>1 DEF Kind
  <2>4. CASE Resumable(c) /\ pc' = "recover" /\ run' = Configuration(c) /\ mem' = Envelopes
    <3>1. run' \in Runs /\ run'.config = c /\ Place' = "recover"
      BY <2>4 DEF Configuration, Runs, Place
    <3>2. Starts
      BY <2>1, <2>4, <3>1 DEF Starts, Envelopes
    <3>. QED
      BY <3>2 DEF Kind
  <2>. QED
    BY <2>2, <2>3, <2>4
<1>3. CASE Recover
  <2>1. Min(Pending) \in Pending
    <3>1. Pending \in SUBSET Tasks /\ Pending # {}
      BY <1>3 DEF Recover, Pending
    <3>. QED
      BY <3>1, MinPending
  <2>2. CASE /\ EnsureCleanup(Min(Pending)) /\ pc' = "recovered" /\ cursor' = Min(Pending)
             /\ UNCHANGED <<run, mem, current, todo, next>>
    <3>1. Recovers
      BY <1>3, <2>1, <2>2 DEF Recovers, Recover, EnsureCleanup, Place, files
    <3>. QED
      BY <3>1 DEF Kind
  <2>3. CASE CleanupFails(Min(Pending)) /\ Down
    <3>1. Tidier
      BY <1>1, <2>3 DEF Tidier, CleanupFails, Dropped, TypeOK
    <3>2. Ends /\ UNCHANGED <<preds, private, ckpt, summary>>
      BY <1>3, <2>3, <3>1 DEF Ends, Recover, CleanupFails, Down, Place, files
    <3>. QED
      BY <3>2 DEF Kind
  <2>. QED
    BY <1>3, <2>2, <2>3 DEF Recover
<1>4. CASE Recovered
  <2>1. Marks
    BY <1>4 DEF Marks, Recovered, Place
  <2>. QED
    BY <2>1 DEF Kind
<1>5. CASE Prepared
  <2>1. Place = "recover" /\ Place' = "loop"
    BY <1>1, <1>5, WriteBegins, RunDirectoryAssumption DEF Prepared, Place, TypeOK
  <2>2. Moves("recover", "loop") /\ Pending = {}
    BY <1>5, <2>1 DEF Moves, Prepared, Tidier, files, world
  <2>. QED
    BY <2>2 DEF Kind, GoesOn
<1>6. CASE ShardLoop
  <2>1. pc = "loop" /\ Place = "loop" /\ UNCHANGED <<kind, files, world>>
    BY <1>6 DEF ShardLoop, Place
  <2>2. CASE Down
    <3>1. Ends /\ UNCHANGED <<preds, private, ckpt, summary>>
      BY <2>1, <2>2 DEF Ends, Down, Place, files, world, Tidier
    <3>. QED
      BY <3>1 DEF Kind
  <2>3. CASE /\ cursor <= N /\ Skipped(cursor) /\ cursor' = cursor + 1
             /\ UNCHANGED <<run, mem, pc, current, todo, next>>
    <3>1. cursor \in Tasks /\ Place' = "loop" /\ mem[cursor] # Null
      BY <1>1, <2>1, <2>3, RunDirectoryAssumption DEF TypeOK, Tasks, Place, Skipped
    <3>2. Skips
      BY <2>1, <2>3, <3>1 DEF Skips, files
    <3>. QED
      BY <3>2 DEF Kind
  <2>4. CASE /\ cursor <= N /\ ~Skipped(cursor) /\ UNCHANGED <<run, mem, cursor>>
             /\ ShardWriteState(cursor, "run")
    <3>1. cursor \in Tasks /\ cursor \in 0..N
      BY <1>1, <2>4, RunDirectoryAssumption DEF TypeOK, Tasks
    <3>2. Place' = "run"
      BY <1>1, <2>1, <2>4, <3>1, WriteBegins
    <3>3. Moves("loop", "run")
      BY <2>1, <2>4, <3>2 DEF Moves, files, world, Tidier
    <3>. QED
      BY <2>4, <3>1, <3>3 DEF Kind, GoesOn
  <2>. QED
    BY <1>6, <2>2, <2>3, <2>4 DEF ShardLoop
<1>7. CASE RunTask
  <2>1. Begins
    BY <1>7 DEF Begins, RunTask, Place, process, files
  <2>. QED
    BY <2>1 DEF Kind
<1>8. CASE TaskReturns
  <2>1. Place = "running" /\ Place' = "commit" /\ cursor \in Tasks
    BY <1>1, <1>8 DEF TaskReturns, Place, Placed
  <2>2. att[cursor] \in 1..MaxStarts /\ run.config \in Configs
    BY <1>8, <2>1 DEF Control, TaskReturns, Placed, Counted, TypeOK, Runs
  <2>. DEFINE e == [res |-> [att |-> att[cursor], config |-> run.config, p1 |-> TRUE],
                    verified |-> FALSE]
  <2>3. e \in Saved /\ ~e.verified /\ e.res.config = run.config
    BY <2>2 DEF Saved, Results
  <2>4. mem' = [mem EXCEPT ![cursor] = e]
    BY <1>8 DEF TaskReturns
  <2>5. Tidier
    BY <1>1, <1>8 DEF Tidier, TaskReturns, Dropped, TypeOK
  <2>. HIDE DEF e
  <2>6. Yields
    BY <1>8, <2>1, <2>3, <2>4, <2>5 DEF Yields, TaskReturns, files
  <2>. QED
    BY <2>6 DEF Kind
<1>9. CASE TaskRaises
  <2>1. Tidier
    BY <1>1, <1>9 DEF Tidier, TaskRaises, Dropped, TypeOK
  <2>2. Moves("running", "failed")
    BY <1>9, <2>1 DEF Moves, TaskRaises, Place, process, files
  <2>. QED
    BY <2>2 DEF Kind, GoesOn
<1>10. CASE TaskFailed
  <2>1. pc = "failed" /\ Place = "failed" /\ cursor \in Tasks
    BY <1>1, <1>10 DEF TaskFailed, Place, Placed
  <2>2. Place' = "ending"
    BY <1>1, <1>10, <2>1, WriteBegins DEF TaskFailed, TypeOK, Tasks
  <2>3. Tidier /\ UNCHANGED <<att, out>>
    BY <1>1, <1>10 DEF Tidier, TaskFailed, EnsureCleanup, CleanupFails, Dropped, TypeOK
  <2>4. Moves("failed", "ending")
    BY <1>10, <2>1, <2>2, <2>3 DEF Moves, TaskFailed, files
  <2>. QED
    BY <2>4 DEF Kind, GoesOn
<1>11. CASE Commit
  <2>1. Saves
    BY <1>11 DEF Saves, Commit, Place, process
  <2>. QED
    BY <2>1 DEF Kind
<1>12. CASE Clean
  <2>1. pc = "clean" /\ Place = "clean" /\ cursor \in Tasks /\ UNCHANGED <<kind, files>>
    BY <1>1, <1>12 DEF Clean, Place, Placed
  <2>2. CASE EnsureCleanup(cursor) /\ pc' = "verify" /\ UNCHANGED process
    <3>1. Tidier /\ cursor \notin sessions' /\ dbs'[cursor] = "none"
      BY <1>1, <2>1, <2>2 DEF Tidier, EnsureCleanup, Dropped, TypeOK
    <3>2. Moves("clean", "verify")
      BY <2>1, <2>2, <3>1 DEF Moves, EnsureCleanup, Place, process, files
    <3>. QED
      BY <3>1, <3>2 DEF Kind, GoesOn
  <2>3. CASE CleanupFails(cursor) /\ Down
    <3>1. Tidier
      BY <1>1, <2>3 DEF Tidier, CleanupFails, Dropped, TypeOK
    <3>2. Ends /\ UNCHANGED <<preds, private, ckpt, summary>>
      BY <2>1, <2>3, <3>1 DEF Ends, CleanupFails, Down, Place, files
    <3>. QED
      BY <3>2 DEF Kind
  <2>. QED
    BY <1>12, <2>2, <2>3 DEF Clean
<1>13. CASE Verify
  <2>1. Place = "verify" /\ Place' = "loop"
    BY <1>1, <1>13, WriteBegins, RunDirectoryAssumption DEF Verify, Place, TypeOK
  <2>2. task' = [task EXCEPT ![cursor] = mem'[cursor]] /\ mem' = MarkVerified(mem, cursor)
    BY <1>13 DEF Verify
  <2>3. Verifies
    BY <1>13, <2>1, <2>2 DEF Verifies, Verify
  <2>. QED
    BY <2>3 DEF Kind
<1>. QED
  BY <1>2, <1>3, <1>4, <1>5, <1>6, <1>7, <1>8, <1>9, <1>10, <1>11, <1>12, <1>13
     DEF ShardNext, ShardStep

\* The steps of the range runner are of these kinds.
LEMMA RangeKinds ==
    ASSUME Control, kind = "range", RangeNext
    PROVE  Kind
<1>. USE RunDirectoryAssumption DEF KeepsFiles
<1>1. TypeOK /\ Placed /\ Present
  BY DEF Control
<1>2. CASE RangeStart
  <2>1. /\ pc = "down" /\ Place = "down"
        /\ UNCHANGED <<kind, cursor, task, preds, private, ckpt, summary, world>>
    BY <1>2 DEF RangeStart, Place
  <2>2. PICK c \in Configs, o \in BOOLEAN :
            IF SameRun(c)
            THEN stamp' = c /\ run' = Started(c, o) /\ mem' = task /\ RangeWriteState(0, "gate")
            ELSE UNCHANGED <<stamp, run, mem, pc, current, next, todo>>
    BY <1>2 DEF RangeStart
  <2>3. CASE UNCHANGED <<stamp, run, mem, pc, current, next, todo>>
    <3>1. Stays
      BY <2>1, <2>3 DEF Stays, Tidier, world, Place
    <3>. QED
      BY <2>1, <3>1 DEF Kind
  <2>4. CASE /\ SameRun(c) /\ stamp' = c /\ run' = Started(c, o) /\ mem' = task
             /\ RangeWriteState(0, "gate")
    <3>1. run' \in Runs /\ run'.config = c
      BY <2>4 DEF Started, Runs
    <3>2. Place' = "gate"
      BY <1>1, <2>1, <2>4, WriteBegins DEF TypeOK
    <3>3. Starts
      BY <2>1, <2>4, <3>1, <3>2 DEF Starts
    <3>. QED
      BY <3>3 DEF Kind
  <2>. QED
    BY <2>2, <2>3, <2>4
<1>3. CASE Gate
  <2>1. pc = "gate" /\ Place = "gate" /\ UNCHANGED <<kind, run, cursor, mem, files, world>>
    BY <1>3 DEF Gate, Place
  <2>2. CASE WriteState(0, "down")
    <3>1. Place' = "ending"
      BY <2>2 DEF WriteState, Place
    <3>2. Moves("gate", "ending")
      BY <2>1, <3>1 DEF Moves, Tidier, files, world
    <3>. QED
      BY <3>2 DEF Kind, GoesOn
  <2>3. CASE ~(TooFew(mem) /\ ~run.override) /\ pc' = "loop"
    <3>1. Moves("gate", "loop")
      BY <2>1, <2>3 DEF Moves, Tidier, Place, files, world
    <3>. QED
      BY <2>3, <3>1 DEF Kind, GoesOn
  <2>. QED
    BY <1>3, <2>2, <2>3 DEF Gate
<1>4. CASE RangeLoop
  <2>1. pc = "loop" /\ Place = "loop" /\ UNCHANGED <<kind, files, world>>
    BY <1>4 DEF RangeLoop, Place
  <2>2. CASE Down
    <3>1. Ends /\ UNCHANGED <<preds, private, ckpt, summary>>
      BY <2>1, <2>2 DEF Ends, Down, Place, files, world, Tidier
    <3>. QED
      BY <3>1 DEF Kind
  <2>3. CASE /\ cursor <= N /\ mem[cursor] # Null /\ cursor' = cursor + 1
             /\ UNCHANGED <<run, mem, pc, current, todo, next>>
    <3>1. cursor \in Tasks /\ Place' = "loop"
      BY <1>1, <2>1, <2>3 DEF TypeOK, Tasks, Place
    <3>2. Skips
      BY <2>1, <2>3, <3>1 DEF Skips, files
    <3>. QED
      BY <3>2 DEF Kind
  <2>4. CASE /\ cursor <= N /\ mem[cursor] = Null /\ UNCHANGED <<run, mem, cursor>>
             /\ RangeWriteState(cursor, "run")
    <3>1. cursor \in Tasks /\ cursor \in 0..N
      BY <1>1, <2>4 DEF TypeOK, Tasks
    <3>2. Place' = "run"
      BY <1>1, <2>1, <2>4, <3>1, WriteBegins
    <3>3. Moves("loop", "run")
      BY <2>1, <2>4, <3>2 DEF Moves, files, world, Tidier
    <3>. QED
      BY <2>4, <3>1, <3>3 DEF Kind, GoesOn
  <2>. QED
    BY <1>4, <2>2, <2>3, <2>4 DEF RangeLoop
<1>5. CASE StartChild
  <2>1. Begins
    BY <1>5 DEF Begins, StartChild, Place, process, files
  <2>. QED
    BY <2>1 DEF Kind
<1>6. CASE ChildWrites
  <2>1. PICK p \in BOOLEAN :
          out' = [out EXCEPT ![cursor] =
                     [att |-> att[cursor], config |-> run.config, p1 |-> p]]
    BY <1>6 DEF ChildWrites
  <2>2. Place = "running" /\ Place' = "running" /\ cursor \in Tasks
    BY <1>1, <1>6 DEF ChildWrites, Place, Placed, process
  <2>3. att[cursor] \in 1..MaxStarts /\ run.config \in Configs
    BY <1>6, <2>2 DEF Control, ChildWrites, Placed, Counted, TypeOK, Runs
  <2>4. [att |-> att[cursor], config |-> run.config, p1 |-> p] \in Results
    BY <2>3 DEF Results
  <2>5. \A i \in Tasks : out'[i] # out[i] => out'[i] # Null /\ out'[i].config = run.config
    BY <1>1, <2>1, <2>2, <2>4, NullAssumption DEF TypeOK
  <2>6. Stays /\ UNCHANGED <<preds, private, ckpt, summary>>
    BY <1>6, <2>2, <2>5 DEF Stays, ChildWrites, Tidier, process, files
  <2>. QED
    BY <2>6 DEF Kind
<1>7. CASE ChildFails
  <2>1. Place = "running" /\ Place' = "ending"
    BY <1>1, <1>7, WriteBegins DEF ChildFails, Place, TypeOK
  <2>2. Moves("running", "ending")
    BY <1>7, <2>1 DEF Moves, ChildFails, Tidier, files, world
  <2>. QED
    BY <2>2 DEF Kind, GoesOn
<1>8. CASE ChildExits
  <2>1. pc = "running" /\ Place = "running" /\ UNCHANGED <<kind, files, world>>
    BY <1>8 DEF ChildExits, Place
  <2>2. CASE pc' = "reset" /\ UNCHANGED process
    <3>1. Moves("running", "reset")
      BY <2>1, <2>2 DEF Moves, Tidier, Place, process, files, world
    <3>. QED
      BY <3>1 DEF Kind, GoesOn
  <2>3. CASE Down
    <3>1. Ends /\ UNCHANGED <<preds, private, ckpt, summary>>
      BY <2>1, <2>3 DEF Ends, Down, Place, files, world, Tidier
    <3>. QED
      BY <3>1 DEF Kind
  <2>. QED
    BY <1>8, <2>2, <2>3 DEF ChildExits
<1>9. CASE Restore
  <2>1. Place = "reset" /\ Place' = "save" /\ cursor \in Tasks
    BY <1>1, <1>9 DEF Restore, Place, Placed
  <2>2. Tidier /\ dbs'[cursor] = "none"
    BY <1>1, <1>9, <2>1 DEF Tidier, Restore, Dropped, TypeOK
  <2>3. Yields
    BY <1>9, <2>1, <2>2 DEF Yields, Restore, files
  <2>. QED
    BY <2>3 DEF Kind
<1>10. CASE RestoreFails
  <2>1. Place = "reset" /\ Place' = "ending"
    BY <1>1, <1>10, WriteBegins DEF RestoreFails, Place, TypeOK
  <2>2. Tidier
    BY <1>1, <1>10 DEF Tidier, RestoreFails, Dropped, TypeOK
  <2>3. Moves("reset", "ending")
    BY <1>10, <2>1, <2>2 DEF Moves, RestoreFails, files
  <2>. QED
    BY <2>3 DEF Kind, GoesOn
<1>11. CASE Save
  <2>1. Place = "save" /\ Place' = "gate"
    BY <1>1, <1>11, WriteBegins DEF Save, Place, TypeOK
  <2>2. Saves
    BY <1>11, <2>1 DEF Saves, Save
  <2>. QED
    BY <2>2 DEF Kind
<1>12. CASE OrphanWrites
  <2>1. PICK i \in late, p \in BOOLEAN :
          out' = [out EXCEPT ![i] = [att |-> att[i], config |-> stamp, p1 |-> p]]
    BY <1>12 DEF OrphanWrites
  <2>2. i \in Tasks /\ att[i] \in 1..MaxStarts /\ stamp \in Configs
    BY <2>1 DEF Control, Present, Counted, TypeOK
  <2>3. [att |-> att[i], config |-> stamp, p1 |-> p] \in Results
    BY <2>2 DEF Results
  <2>4. \A j \in Tasks : out'[j] # out[j] => out'[j] # Null /\ out'[j].config = stamp
    BY <1>1, <2>1, <2>2, <2>3, NullAssumption DEF TypeOK
  <2>5. Stays /\ UNCHANGED <<preds, private, ckpt, summary>>
    BY <1>12, <2>4 DEF Stays, OrphanWrites, Tidier, Place, process, files
  <2>. QED
    BY <2>5 DEF Kind
<1>. QED
  BY <1>2, <1>3, <1>4, <1>5, <1>6, <1>7, <1>8, <1>9, <1>10, <1>11, <1>12
     DEF RangeNext, RangeStep

\* Every step is of one of the kinds.
LEMMA StepKinds ==
    ASSUME Control, [Next]_vars
    PROVE  Kind
<1>. TypeOK
  BY DEF Control
<1>1. CASE UNCHANGED runVars
  <2>1. Stays /\ UNCHANGED <<preds, private, ckpt, summary>>
    BY <1>1 DEF Stays, Tidier, Place, runVars, process, files, world
  <2>. QED
    BY <2>1 DEF Kind
<1>2. CASE Runner
  <2>1. CASE kind = "shard" /\ ShardNext
    BY <2>1, ShardKinds
  <2>2. CASE kind = "range" /\ RangeNext
    BY <2>2, RangeKinds
  <2>3. CASE WriteNext
    <3>1. /\ UNCHANGED <<kind, task, stamp, att, dbs, sessions, late, out, starts>>
          /\ \/ UNCHANGED <<run, cursor, mem, Place>>
             \/ Place' = "down" /\ Down
      BY <2>3, WriteSteps
    <3>2. Stays \/ Ends
      BY <3>1 DEF Stays, Ends, Tidier, Down
    <3>. QED
      BY <2>3, <3>2 DEF Kind
  <2>4. CASE Crash
    <3>1. Ends /\ UNCHANGED <<preds, private, ckpt, summary>>
      BY <2>4 DEF Crash, Ends, Down, Tidier, Place, files
    <3>. QED
      BY <3>1 DEF Kind
  <2>5. CASE LateRun
    <3>1. Tidier
      BY <2>5 DEF LateRun, Tidier, Made, TypeOK
    <3>2. Stays /\ UNCHANGED <<preds, private, ckpt, summary>>
      BY <2>5, <3>1 DEF LateRun, Stays, Place, process, files
    <3>. QED
      BY <3>2 DEF Kind
  <2>. QED
    BY <1>2, <2>1, <2>2, <2>3, <2>4, <2>5 DEF Runner
<1>3. CASE MergeNext
  BY <1>1, <1>3 DEF MergeNext, MergeReadSummary, MergeReadCheckpoint, MergeReadPredictions,
     MergeValidate, MergePrivate, MergeFinish, MergeCrash
<1>. QED
  BY <1>1, <1>2, <1>3 DEF Next, Idle, vars

-----------------------------------------------------------------------------
(* What the process holds and what is saved *)

\* What the process holds and what is saved change together.
LEMMA RememberedStep ==
    ASSUME Control, Control', Remembered, Kind
    PROVE  Remembered'
<1>. USE DEF KeepsFiles
<1>1. TypeOK /\ Placed /\ Present /\ TypeOK' /\ Placed'
  BY DEF Control
<1>2. CASE Stays
  BY <1>2 DEF Remembered, Stays
<1>3. CASE Ends
  BY <1>3 DEF Remembered, Ends
<1>4. CASE Starts
  BY <1>4 DEF Remembered, Starts
<1>5. CASE Recovers
  <2>1. mem = task /\ cursor' \in Tasks /\ mem[cursor'] # Null /\ ~mem[cursor'].verified
    BY <1>1, <1>5 DEF Recovers, Pending, Present
  <2>. QED
    BY <1>5, <2>1 DEF Remembered, Recovers
<1>6. CASE Marks
  <2>1. mem = task /\ cursor \in Tasks
    BY <1>1, <1>6 DEF Marks, Present, Placed
  <2>2. mem' = task'
    BY <1>6, <2>1 DEF Marks
  <2>3. ASSUME NEW i \in Tasks, task'[i] # Null, ~task'[i].verified PROVE kind = "shard"
    BY <1>1, <1>6 DEF Marks, Placed, TypeOK
  <2>. QED
    BY <1>6, <2>2, <2>3 DEF Remembered, Marks
<1>7. CASE GoesOn
  <2>1. UNCHANGED <<kind, cursor, mem, task>>
    BY <1>7 DEF GoesOn, Moves
  <2>2. CASE Moves("recover", "loop") /\ Pending = {}
    BY <1>1, <2>1, <2>2 DEF Remembered, Moves, Pending, Present
  <2>3. CASE /\ Moves("loop", "run") /\ cursor \in Tasks
             /\ IF kind = "shard" THEN ~Skipped(cursor) ELSE mem[cursor] = Null
    <3>1. mem = task /\ task[cursor] = Null
      BY <1>1, <2>3 DEF Remembered, Moves, Skipped, TypeOK
    <3>. QED
      BY <2>1, <2>3, <3>1 DEF Remembered, Moves
  <2>4. CASE Moves("clean", "verify")
    BY <2>1, <2>4 DEF Remembered, Moves
  <2>5. CASE \/ Moves("running", "failed") \/ Moves("failed", "ending")
             \/ Moves("gate", "ending") \/ Moves("gate", "loop")
             \/ Moves("running", "ending") \/ Moves("running", "reset")
             \/ Moves("reset", "ending")
    BY <2>1, <2>5 DEF Remembered, Moves
  <2>. QED
    BY <1>7, <2>2, <2>3, <2>4, <2>5 DEF GoesOn
<1>8. CASE Skips
  BY <1>8 DEF Remembered, Skips
<1>9. CASE Begins
  BY <1>9 DEF Remembered, Begins
<1>10. CASE Yields
  <2>1. cursor \in Tasks /\ mem = task /\ task[cursor] = Null
    BY <1>1, <1>10 DEF Yields, Remembered, Placed
  <2>2. /\ Place' \in {"commit", "save"} /\ Place \in {"running", "reset"}
        /\ UNCHANGED <<kind, cursor, task>>
    BY <1>10 DEF Yields
  <2>3. /\ \A i \in Tasks : i # cursor => mem'[i] = mem[i]
        /\ mem'[cursor].verified <=> Place' = "save"
    BY <1>1, <1>10, <2>1 DEF Yields, Envelope, TypeOK
  <2>. QED
    BY <2>1, <2>2, <2>3 DEF Remembered
<1>11. CASE Saves
  <2>1. /\ cursor \in Tasks /\ mem[cursor] # Null /\ task[cursor] = Null
        /\ \A i \in Tasks : i # cursor => mem[i] = task[i]
        /\ mem[cursor].verified <=> Place = "save"
        /\ \A i \in Tasks : task[i] # Null => task[i].verified
    BY <1>1, <1>11 DEF Saves, Remembered, Placed, Present
  <2>2. task' = mem /\ mem' = mem
    BY <1>1, <1>11, <2>1 DEF Saves, TypeOK
  <2>3. \A i \in Tasks : i # cursor /\ task'[i] # Null => task'[i].verified
    BY <2>1, <2>2
  <2>4. CASE Place = "commit" /\ Place' = "clean" /\ cursor' = cursor
    <3>1. kind = "shard" /\ kind' = kind
      BY <1>1, <1>11, <2>4 DEF Saves, Placed, TypeOK
    <3>. QED
      BY <2>1, <2>2, <2>3, <2>4, <3>1 DEF Remembered
  <2>5. CASE Place = "save" /\ Place' = "gate"
    BY <1>1, <1>11, <2>1, <2>2, <2>3, <2>5 DEF Saves, Remembered, Placed
  <2>. QED
    BY <1>11, <2>4, <2>5 DEF Saves
<1>12. CASE Verifies
  <2>1. /\ cursor \in Tasks /\ mem[cursor] # Null /\ mem = task
        /\ \A i \in Tasks : i # cursor /\ task[i] # Null => task[i].verified
    BY <1>1, <1>12 DEF Verifies, Remembered, Placed, Present
  <2>2. /\ mem' = MarkVerified(mem, cursor)
        /\ task' = [task EXCEPT ![cursor] = mem'[cursor]]
        /\ Place' = "loop" /\ UNCHANGED kind
    BY <1>12 DEF Verifies
  <2>3. /\ mem'[cursor].verified /\ mem' \in [Tasks -> {Null} \cup Saved]
        /\ \A i \in Tasks : i # cursor => mem'[i] = mem[i]
    BY <1>1, <2>1, <2>2, MarkType DEF TypeOK
  <2>4. task' = mem'
    BY <1>1, <2>1, <2>2, <2>3 DEF TypeOK
  <2>5. \A i \in Tasks : task'[i] # Null => task'[i].verified
    BY <2>1, <2>3, <2>4
  <2>. QED
    BY <2>2, <2>4, <2>5 DEF Remembered
<1>. QED
  BY <1>2, <1>3, <1>4, <1>5, <1>6, <1>7, <1>8, <1>9, <1>10, <1>11, <1>12 DEF Kind

\* What the process holds is what is saved, but for the result about to be saved.
LEMMA RememberedHolds == Spec => []Remembered
<1>1. Init => Remembered
  BY DEF Init, DirectoryInit, NoResults, Remembered, Place
<1>2. Control /\ Control' /\ Remembered /\ [Next]_vars => Remembered'
  BY StepKinds, RememberedStep
<1>. QED
  BY <1>1, <1>2, ControlHolds, PTL DEF Spec

\* A run of the model is only started for a task without a saved result: both loops
\* come to a task they find no result of, and what they hold is what is saved.
THEOREM SavedNeverRerun == Spec => NeverRerun
<1>1. ASSUME Control, Remembered, [Next]_vars
      PROVE  [\A i \in Tasks : att'[i] # att[i] => task[i] = Null]_vars
  <2>1. SUFFICES ASSUME NEW i \in Tasks, att'[i] # att[i] PROVE task[i] = Null
    OBVIOUS
  <2>2. Kind
    BY <1>1, StepKinds
  <2>3. Begins
    BY <2>1, <2>2 DEF Kind, Stays, Ends, Starts, Recovers, Marks, GoesOn, Moves, Skips, Yields,
       Saves, Verifies, world
  <2>4. cursor \in Tasks /\ att \in [Tasks -> 0..MaxStarts]
    BY <1>1, <2>3 DEF Begins, Control, Placed, TypeOK
  <2>5. i = cursor
    BY <2>1, <2>3, <2>4 DEF Begins
  <2>. QED
    BY <1>1, <2>3, <2>5 DEF Begins, Remembered
<1>. QED
  BY <1>1, ControlHolds, RememberedHolds, PTL DEF Spec, NeverRerun

\* Saved results are kept: only the mark is added, and only to a cleaned task.
LEMMA SavedStays ==
    ASSUME Control, Control', Remembered, Kind, NEW i \in Tasks, task[i] # Null
    PROVE  /\ task'[i] # Null
           /\ task'[i].res = task[i].res
           /\ task[i].verified => task'[i].verified
           /\ Cleaned(task) = Tasks => task' = task
<1>1. TypeOK /\ Placed /\ Present
  BY DEF Control
<1>2. CASE task' = task
  BY <1>2
<1>3. CASE Marks
  <2>1. /\ cursor \in Tasks /\ task[cursor] # Null /\ task' = MarkVerified(task, cursor)
        /\ ~task[cursor].verified
    BY <1>1, <1>3 DEF Marks, Placed, Present, Remembered
  <2>2. Cleaned(task) # Tasks
    BY <2>1 DEF Cleaned
  <2>3. CASE i = cursor
    BY <1>1, <2>1, <2>2, <2>3, MarkType DEF TypeOK
  <2>4. CASE i # cursor
    BY <1>1, <2>1, <2>2, <2>4, MarkType DEF TypeOK
  <2>. QED
    BY <2>3, <2>4
<1>4. CASE Saves
  <2>1. cursor \in Tasks /\ task[cursor] = Null
    BY <1>1, <1>4 DEF Saves, Placed, Remembered
  <2>2. Cleaned(task) # Tasks
    BY <2>1 DEF Cleaned
  <2>. QED
    BY <1>1, <1>4, <2>1, <2>2 DEF Saves, TypeOK
<1>5. CASE Verifies
  <2>1. /\ cursor \in Tasks /\ task[cursor] # Null /\ mem = task
        /\ ~task[cursor].verified
        /\ task' = [task EXCEPT ![cursor] = MarkVerified(mem, cursor)[cursor]]
    BY <1>1, <1>5 DEF Verifies, Placed, Present, Remembered
  <2>2. Cleaned(task) # Tasks
    BY <2>1 DEF Cleaned
  <2>3. CASE i = cursor
    BY <1>1, <2>1, <2>2, <2>3, MarkType DEF TypeOK
  <2>4. CASE i # cursor
    BY <1>1, <2>1, <2>2, <2>4 DEF TypeOK
  <2>. QED
    BY <2>3, <2>4
<1>. QED
  BY <1>2, <1>3, <1>4, <1>5 DEF Kind, Stays, Ends, Starts, Recovers, GoesOn, Moves, Skips,
     Begins, Yields

-----------------------------------------------------------------------------
(* What is published *)

\* No step marks a result that has something on the services, or makes something
\* for a marked one.
LEMMA GoneStep ==
    ASSUME Control, Control', Remembered, Gone, Kind
    PROVE  Gone'
<1>. USE DEF KeepsFiles
<1>1. TypeOK /\ Placed /\ Present /\ TypeOK' /\ Placed'
  BY DEF Control
<1>2. /\ \A i \in Tasks : task[i] # Null /\ task[i].verified => i \notin sessions /\ dbs[i] # "own"
      /\ kind = "range" => sessions = {}
      /\ Place \in {"recovered", "verify", "save"} => cursor \notin sessions /\ dbs[cursor] # "own"
  BY DEF Gone, Cleaned
<1>3. SUFFICES
      /\ \A i \in Tasks : task'[i] # Null /\ task'[i].verified =>
            i \notin sessions' /\ dbs'[i] # "own"
      /\ kind' = "range" => sessions' = {}
      /\ Place' \in {"recovered", "verify", "save"} =>
            cursor' \notin sessions' /\ dbs'[cursor'] # "own"
  BY DEF Gone, Cleaned
<1>4. CASE Stays \/ Ends
  <2>1. /\ UNCHANGED <<kind, task>> /\ Tidier
        /\ Place' \in {"recovered", "verify", "save"} => UNCHANGED <<Place, cursor>>
    BY <1>4 DEF Stays, Ends
  <2>2. Place' \in {"recovered", "verify", "save"} => cursor' \in Tasks
    BY <1>1 DEF Placed
  <2>. QED
    BY <1>2, <2>1, <2>2 DEF Tidier
<1>5. CASE Starts
  BY <1>2, <1>5 DEF Starts, world
<1>6. CASE Recovers
  <2>1. cursor' \in Tasks /\ UNCHANGED <<kind, task>> /\ sessions' = sessions \ {cursor'}
    BY <1>1, <1>6 DEF Recovers, Pending
  <2>2. dbs' = [dbs EXCEPT ![cursor'] = "none"]
    BY <1>6 DEF Recovers, Dropped
  <2>. QED
    BY <1>1, <1>2, <2>1, <2>2 DEF TypeOK
<1>7. CASE Marks
  <2>1. /\ cursor \in Tasks /\ task[cursor] # Null /\ task' = MarkVerified(task, cursor)
        /\ cursor \notin sessions /\ dbs[cursor] # "own"
        /\ UNCHANGED <<kind, sessions, dbs>> /\ Place' = "recover"
    BY <1>1, <1>2, <1>7 DEF Marks, Placed, Present, world
  <2>2. ASSUME NEW i \in Tasks, i # cursor PROVE task'[i] = task[i]
    <3>1. task \in [Tasks -> {Null} \cup Saved]
      BY <1>1 DEF TypeOK
    <3>2. MarkVerified(task, cursor)[i] = task[i]
      BY <2>1, <2>2, <3>1, MarkType
    <3>. QED
      BY <2>1, <3>2
  <2>. QED
    BY <1>2, <2>1, <2>2
<1>8. CASE GoesOn
  <2>1. UNCHANGED <<kind, task, cursor>> /\ Tidier /\ Place' # "recovered" /\ Place' # "save"
    BY <1>8 DEF GoesOn, Moves
  <2>2. Place' = "verify" => cursor \notin sessions' /\ dbs'[cursor] # "own"
    BY <1>8 DEF GoesOn, Moves
  <2>. QED
    BY <1>2, <2>1, <2>2 DEF Tidier
<1>9. CASE Skips
  BY <1>2, <1>9 DEF Skips, world
<1>10. CASE Begins
  <2>1. cursor \in Tasks /\ task[cursor] = Null
    BY <1>1, <1>10 DEF Begins, Placed, Remembered
  <2>2. /\ UNCHANGED <<kind, task>> /\ Place' = "running" /\ dbs' = [dbs EXCEPT ![cursor] = "own"]
        /\ sessions' = IF kind = "shard" THEN sessions \cup {cursor} ELSE sessions
    BY <1>10 DEF Begins, Made
  <2>. QED
    BY <1>1, <1>2, <2>1, <2>2 DEF TypeOK
<1>11. CASE Yields
  <2>1. UNCHANGED <<kind, task, cursor>> /\ Tidier /\ Place' # "recovered" /\ Place' # "verify"
    BY <1>11 DEF Yields
  <2>2. Place' = "save" => kind = "range" /\ dbs'[cursor] = "none"
    BY <1>1, <2>1, <1>11 DEF Yields, Placed, TypeOK
  <2>. QED
    BY <1>2, <2>1, <2>2 DEF Tidier
<1>12. CASE Saves
  <2>1. /\ cursor \in Tasks /\ UNCHANGED <<kind, sessions, dbs>>
        /\ Place' \in {"clean", "gate"} /\ task' = [task EXCEPT ![cursor] = mem[cursor]]
        /\ mem[cursor].verified => cursor \notin sessions /\ dbs[cursor] # "own"
    BY <1>1, <1>2, <1>12 DEF Saves, Placed, Remembered, world
  <2>. QED
    BY <1>1, <1>2, <2>1 DEF TypeOK
<1>13. CASE Verifies
  <2>1. /\ cursor \in Tasks /\ UNCHANGED <<kind, sessions, dbs>>
        /\ Place' = "loop" /\ task' = [task EXCEPT ![cursor] = mem'[cursor]]
        /\ cursor \notin sessions /\ dbs[cursor] # "own"
    BY <1>1, <1>2, <1>13 DEF Verifies, Placed, world
  <2>. QED
    BY <1>1, <1>2, <2>1 DEF TypeOK
<1>. QED
  BY <1>4, <1>5, <1>6, <1>7, <1>8, <1>9, <1>10, <1>11, <1>12, <1>13 DEF Kind

\* Marked results have nothing left on the services.
LEMMA GoneHolds == Spec => []Gone
<1>1. Init => Gone
  BY DEF Init, DirectoryInit, NoResults, Gone, Cleaned, Place
<1>2. Control /\ Control' /\ Remembered /\ Gone /\ [Next]_vars => Gone'
  BY StepKinds, GoneStep
<1>. QED
  BY <1>1, <1>2, ControlHolds, RememberedHolds, PTL DEF Spec

\* What is listed of the saved results stays listed.
LEMMA ListingGrows ==
    ASSUME Control, Control', Remembered, Kind
    PROVE  Listing(task) \subseteq Listing(task')
<1>1. SUFFICES ASSUME NEW i \in Cleaned(task)
               PROVE  [index |-> i, res |-> task[i].res] \in Listing(task')
  BY DEF Listing
<1>2. i \in Tasks /\ task[i] # Null /\ task[i].verified
  BY DEF Cleaned
<1>3. i \in Cleaned(task') /\ task'[i].res = task[i].res
  BY <1>2, SavedStays DEF Cleaned
<1>. QED
  BY <1>3 DEF Listing

\* The only way to begin writing is with the predictions, or with the mark of a
\* paused run; until then the lists and the files they stand for do not change.
LEMMA WritingBegins ==
    ASSUME Control, [Next]_vars, pc' = "write"
    PROVE  \/ WriteNext
           \/ UNCHANGED <<kind, pc, todo, mem, current, preds, private, ckpt, summary>>
           \/ Head(todo') \in {"preds", "pausedCkpt"}
<1>. USE RunDirectoryAssumption
<1>1. TypeOK /\ Placed
  BY DEF Control
<1>2. CASE UNCHANGED runVars
  BY <1>2 DEF runVars, process, files
<1>3. CASE kind = "shard" /\ ShardNext
  <2>1. CASE ShardStart
    BY <2>1 DEF ShardStart, files
  <2>2. CASE Recover \/ Recovered \/ RunTask \/ TaskReturns \/ TaskRaises \/ Commit \/ Clean
    BY <2>2 DEF Recover, Recovered, RunTask, TaskReturns, TaskRaises, Commit, Clean, Down
  <2>3. CASE Prepared
    BY <1>3, <2>3, WriteBegins DEF Prepared
  <2>4. CASE ShardLoop
    <3>1. cursor <= N /\ ShardWriteState(cursor, "run") /\ kind' = kind
      BY <2>4 DEF ShardLoop, Down
    <3>2. cursor \in 0..N
      BY <1>1, <3>1 DEF TypeOK
    <3>. QED
      BY <1>3, <3>1, <3>2, WriteBegins
  <2>5. CASE TaskFailed
    <3>1. cursor \in 0..N
      BY <1>1, <2>5 DEF TaskFailed, Placed, Place, Tasks
    <3>. QED
      BY <1>3, <2>5, <3>1, WriteBegins DEF TaskFailed
  <2>6. CASE Verify
    BY <1>3, <2>6, WriteBegins DEF Verify
  <2>. QED
    BY <1>3, <2>1, <2>2, <2>3, <2>4, <2>5, <2>6 DEF ShardNext, ShardStep
<1>4. CASE kind = "range" /\ RangeNext
  <2>1. CASE RangeStart
    BY <1>4, <2>1, WriteBegins DEF RangeStart
  <2>2. CASE Gate
    BY <2>2, Tuples DEF Gate
  <2>3. CASE RangeLoop
    <3>1. cursor <= N /\ RangeWriteState(cursor, "run") /\ kind' = kind
      BY <2>3 DEF RangeLoop, Down
    <3>2. cursor \in 0..N
      BY <1>1, <3>1 DEF TypeOK
    <3>. QED
      BY <1>4, <3>1, <3>2, WriteBegins
  <2>4. CASE StartChild \/ ChildExits \/ Restore
    BY <2>4 DEF StartChild, ChildExits, Restore, Down
  <2>5. CASE ChildWrites \/ OrphanWrites
    BY <2>5 DEF ChildWrites, OrphanWrites, process, files
  <2>6. CASE ChildFails
    BY <1>4, <2>6, WriteBegins DEF ChildFails
  <2>7. CASE RestoreFails
    BY <1>4, <2>7, WriteBegins DEF RestoreFails
  <2>8. CASE Save
    BY <1>4, <2>8, WriteBegins DEF Save
  <2>. QED
    BY <1>4, <2>1, <2>2, <2>3, <2>4, <2>5, <2>6, <2>7, <2>8 DEF RangeNext, RangeStep
<1>5. CASE Crash
  BY <1>5 DEF Crash, Down
<1>6. CASE LateRun
  BY <1>6 DEF LateRun, process, files
<1>7. CASE MergeNext
  BY <1>2, <1>7 DEF MergeNext, MergeReadSummary, MergeReadCheckpoint, MergeReadPredictions,
     MergeValidate, MergePrivate, MergeFinish, MergeCrash
<1>. QED
  BY <1>2, <1>3, <1>4, <1>5, <1>6, <1>7 DEF Next, Runner, Idle, vars

\* While the state is written the process holds what is saved.
LEMMA WritesSaved ==
    ASSUME Control, Remembered, pc = "write"
    PROVE  mem = task /\ run # Null /\ Place \notin {"down", "commit", "save"}
BY DEF Control, Remembered, Place, Placed, TypeOK

\* A file that is replaced lists what is saved, and what was listed stays saved.
LEMMA PublishedStep ==
    ASSUME Control, Control', Remembered, Published, [Next]_vars
    PROVE  Published'
<1>1. TypeOK /\ Filed /\ Kind
  BY StepKinds DEF Control
<1>2. Listing(task) \subseteq Listing(task')
  BY <1>1, ListingGrows
<1>3. CASE WriteNext
  <2>. DEFINE f == Head(todo)
  <2>1. /\ pc = "write" /\ Replaced(f) /\ UNCHANGED <<kind, task>>
        /\ pc' = "write" => /\ Len(todo) # 1 /\ todo' = Tail(todo)
                            /\ UNCHANGED <<mem, current, Status>>
    BY <1>3, WriteSteps DEF Down
  <2>2. mem = task /\ run # Null
    BY <2>1, WritesSaved
  <2>3. /\ Predictions(mem) # Null
        /\ {Predictions(mem)[k] : k \in DOMAIN Predictions(mem)} = Listing(mem)
    BY <1>1, PredictionsType, NullAssumption DEF TypeOK
  <2>4. /\ f \in {"private", "ckpt", "summary"} => preds = Predictions(mem)
        /\ f = "summary" => ckpt.done = Complete(mem)
        /\ kind = "shard" /\ Status = "complete" /\ f \in {"ckpt", "summary"} => private = preds
    BY <2>1 DEF Published
  <2>5. /\ preds' = IF f = "preds" THEN Predictions(mem) ELSE preds
        /\ private' = IF f = "private" THEN Predictions(mem) ELSE private
        /\ f = "ckpt" => ckpt'.done = Complete(mem)
    BY <1>1, <2>1, <2>2, CheckpointType DEF Replaced
  <2>6. preds' # Null => {preds'[k] : k \in DOMAIN preds'} \subseteq Listing(task')
    <3>1. CASE f = "preds"
      BY <2>1, <2>2, <2>3, <2>5, <3>1
    <3>2. CASE f # "preds"
      BY <1>2, <2>5, <3>2 DEF Published
    <3>. QED
      BY <3>1, <3>2
  <2>7. ASSUME pc' = "write"
        PROVE  /\ Head(todo') \in {"private", "ckpt", "summary"} => preds' = Predictions(mem)
               /\ Head(todo') = "summary" => ckpt'.done = Complete(mem)
               /\ kind = "shard" /\ Status = "complete" /\ Head(todo') \in {"ckpt", "summary"}
                    => private' = preds'
    <3>1. /\ f \in Files
          /\ f = "preds" => \/ Head(todo') = "private"
                            \/ Head(todo') = "ckpt" /\ (kind = "range" \/ Status # "complete")
          /\ f = "private" => Head(todo') = "ckpt"
          /\ f = "ckpt" => Head(todo') = "summary"
          /\ f = "summary" => Head(todo') = "private" /\ kind = "range"
          /\ f = "pausedCkpt" => Head(todo') = "pausedSummary"
          /\ f # "pausedSummary"
      BY <1>1, <2>1, <2>7, LeftSteps DEF Filed, TypeOK
    <3>. HIDE DEF f
    <3>2. CASE f \in {"preds", "private"}
      BY <2>4, <2>5, <3>1, <3>2
    <3>3. CASE f \in {"ckpt", "summary"}
      BY <2>4, <2>5, <3>1, <3>3
    <3>4. CASE f = "pausedCkpt"
      BY <3>1, <3>4
    <3>. QED
      BY <3>1, <3>2, <3>3, <3>4 DEF Files
  <2>. HIDE DEF f
  <2>8. pc' = "write" => Predictions(mem') = Predictions(mem) /\ Complete(mem') = Complete(mem)
    BY <2>1
  <2>. QED
    BY <2>1, <2>6, <2>7, <2>8 DEF Published
<1>4. CASE UNCHANGED <<kind, preds, private, ckpt, summary>>
  <2>1. preds' # Null => {preds'[k] : k \in DOMAIN preds'} \subseteq Listing(task')
    BY <1>2, <1>4 DEF Published
  <2>2. ASSUME pc' = "write", UNCHANGED <<pc, todo, mem, current>>
        PROVE  /\ Head(todo') \in {"private", "ckpt", "summary"} => preds' = Predictions(mem')
               /\ Head(todo') = "summary" => ckpt'.done = Complete(mem')
               /\ kind' = "shard" /\ Status' = "complete" /\ Head(todo') \in {"ckpt", "summary"}
                    => private' = preds'
    <3>1. Status' = Status
      BY <2>2 DEF Status
    <3>. QED
      BY <1>4, <2>2, <3>1 DEF Published
  <2>3. pc' = "write" => \/ WriteNext \/ UNCHANGED <<pc, todo, mem, current>>
                         \/ Head(todo') \in {"preds", "pausedCkpt"}
    BY WritingBegins
  <2>. QED
    BY <1>3, <2>1, <2>2, <2>3 DEF Published
<1>. QED
  BY <1>1, <1>3, <1>4 DEF Kind, Stays, Ends, Starts, Recovers, Marks, GoesOn, Moves, Skips,
     Begins, Yields, Saves, Verifies, KeepsFiles

\* What is published is saved and cleaned up.
LEMMA PublishedHolds == Spec => []Published
<1>1. Init => Published
  BY DEF Init, DirectoryInit, Published
<1>2. Control /\ Control' /\ Remembered /\ Published /\ [Next]_vars => Published'
  BY PublishedStep
<1>. QED
  BY <1>1, <1>2, ControlHolds, RememberedHolds, PTL DEF Spec

\* Databases and sessions of a published result are gone, whatever was killed in
\* between: what is published is saved and marked, and nothing is marked before the
\* cleanup returned.
THEOREM PublishedGone == Spec => []PublishedIsCleaned
<1>1. ASSUME Gone, Published PROVE PublishedIsCleaned
  <2>1. SUFFICES ASSUME preds # Null, NEW k \in DOMAIN preds
                 PROVE  preds[k].index \notin sessions /\ dbs[preds[k].index] # "own"
    BY DEF PublishedIsCleaned
  <2>2. preds[k] \in Listing(task)
    BY <1>1, <2>1 DEF Published
  <2>3. preds[k].index \in Cleaned(task)
    BY <2>2 DEF Listing
  <2>. QED
    BY <1>1, <2>3 DEF Gone
<1>. QED
  BY <1>1, GoneHolds, PublishedHolds, PTL

-----------------------------------------------------------------------------
(* One configuration *)

\* A result is saved by the step that took it from what the process held.
LEMMA SavedNew ==
    ASSUME Control, Control', Remembered, Kind, NEW i \in Tasks, task[i] = Null, task'[i] # Null
    PROVE  Saves /\ i = cursor /\ task'[i] = mem[cursor]
<1>1. TypeOK /\ Placed /\ Present
  BY DEF Control
<1>2. task' # task
  OBVIOUS
<1>3. CASE Marks
  <2>1. /\ cursor \in Tasks /\ task[cursor] # Null /\ task' = MarkVerified(task, cursor)
        /\ task \in [Tasks -> {Null} \cup Saved]
    BY <1>1, <1>3 DEF Marks, Placed, Present, TypeOK
  <2>. QED
    BY <2>1, MarkType
<1>4. CASE Saves
  <2>1. cursor \in Tasks
    BY <1>1, <1>4 DEF Saves, Placed
  <2>. QED
    BY <1>1, <1>4, <2>1 DEF Saves, TypeOK
<1>5. CASE Verifies
  <2>1. /\ cursor \in Tasks /\ task[cursor] # Null
        /\ task' = [task EXCEPT ![cursor] = mem'[cursor]]
    BY <1>1, <1>5 DEF Verifies, Placed, Present, Remembered
  <2>. QED
    BY <1>1, <2>1 DEF TypeOK
<1>. QED
  BY <1>2, <1>3, <1>4, <1>5 DEF Kind, Stays, Ends, Starts, Recovers, GoesOn, Moves, Skips,
     Begins, Yields

\* A directory keeps the configuration of its first checkpoint: that of the process.
LEMMA ConfigurationStays ==
    ASSUME Control, Control', Configured, [Next]_vars
    PROVE  /\ ckpt # Null => ckpt' # Null /\ ckpt'.config = ckpt.config
           /\ ckpt' # Null => ckpt # Null \/ (pc # "down" /\ ckpt'.config = run.config)
           /\ summary' # Null => summary'.config = ckpt'.config
<1>1. TypeOK /\ Placed /\ Filed /\ TypeOK'
  BY DEF Control
<1>2. /\ pc # "down" /\ ckpt # Null => ckpt.config = run.config
      /\ summary # Null => summary.config = ckpt.config
  BY DEF Configured
<1>3. CASE WriteNext
  <2>. DEFINE f == Head(todo)
  <2>1. pc = "write" /\ run # Null /\ Replaced(f)
    BY <1>1, <1>3, WriteSteps DEF Placed
  <2>2. /\ f \in Files
        /\ f = "summary" => ckpt # Null /\ preds # Null
        /\ f \in {"pausedCkpt", "pausedSummary"} => summary # Null /\ ckpt # Null
    BY <1>1, <2>1, LeftSteps DEF Filed, TypeOK
  <2>3. Checkpoint # Null /\ Checkpoint.config = run.config
    BY <1>1, <2>1, CheckpointType, NullAssumption
  <2>4. f = "summary" => Summary.config = run.config
    BY <1>1, <2>1, <2>2, SummaryType
  <2>5. ckpt # Null => Paused(ckpt) # Null /\ Paused(ckpt).config = ckpt.config
    BY <1>1, PausedType, NullAssumption DEF TypeOK
  <2>6. summary # Null => Paused(summary).config = summary.config
    BY <1>1, PausedType DEF TypeOK
  <2>7. summary # Null => ckpt # Null
    BY <1>1 DEF Filed
  <2>. HIDE DEF f
  <2>. QED
    BY <1>2, <2>1, <2>2, <2>3, <2>4, <2>5, <2>6, <2>7 DEF Replaced
<1>4. CASE UNCHANGED <<ckpt, summary>>
  BY <1>2, <1>4
<1>. QED
  BY <1>3, <1>4, StepKinds DEF Kind, Stays, Ends, Starts, Recovers, Marks, GoesOn, Moves, Skips,
     Begins, Yields, Saves, Verifies, KeepsFiles

\* A merge has seen the summary of the directory as it is configured.
LEMMA SeenConfigured ==
    ASSUME Control, Control', Configured, [Next]_vars, mpc' \in {"ckpt", "preds", "validate"}
    PROVE  seen'.config = ckpt'.config
<1>1. CASE UNCHANGED mergeVars
  <2>1. seen.config = ckpt.config /\ ckpt # Null
    BY <1>1 DEF mergeVars, Configured, Control, Present, Filed
  <2>. QED
    BY <1>1, <2>1, ConfigurationStays DEF mergeVars
<1>2. CASE MergeNext
  <2>1. /\ ckpt' = ckpt
        /\ \/ mpc \in {"ckpt", "preds", "validate"} /\ seen' = seen
           \/ seen' = summary /\ summary # Null
    BY <1>2 DEF MergeNext, MergeReadSummary, MergeReadCheckpoint, MergeReadPredictions,
       MergeValidate, MergePrivate, MergeFinish, MergeCrash, runVars, files
  <2>. QED
    BY <2>1 DEF Configured
<1>. QED
  BY <1>1, <1>2 DEF Next, Runner, Idle, vars

\* No step brings another configuration into the directory.
LEMMA ConfiguredStep ==
    ASSUME Control, Control', Remembered, Configured, [Next]_vars
    PROVE  Configured'
<1>. USE DEF KeepsFiles
<1>1. /\ TypeOK /\ Placed /\ Present /\ Filed /\ TypeOK' /\ Placed' /\ Kind
      /\ Place = "down" <=> pc = "down"
      /\ Place' = "down" <=> pc' = "down"
  BY StepKinds DEF Control, Place, TypeOK
<1>2. /\ ckpt # Null => ckpt' # Null /\ ckpt'.config = ckpt.config
      /\ ckpt' # Null => ckpt # Null \/ (pc # "down" /\ ckpt'.config = run.config)
      /\ summary' # Null => summary'.config = ckpt'.config
  BY ConfigurationStays
<1>3. /\ pc # "down" /\ ckpt # Null => ckpt.config = run.config
      /\ kind = "range" =>
           /\ pc # "down" => stamp = run.config
           /\ ckpt # Null => ckpt.config = stamp
           /\ \A i \in Tasks : out[i] # Null => out[i].config = stamp
      /\ Place \in {"commit", "save"} => mem[cursor].res.config = run.config
  BY DEF Configured
<1>4. OneConfiguration'
  <2>1. SUFFICES ASSUME NEW i \in Tasks, task'[i] # Null
                 PROVE  ckpt' # Null /\ task'[i].res.config = ckpt'.config
    BY DEF OneConfiguration
  <2>2. CASE task[i] # Null
    <3>1. ckpt # Null /\ task[i].res.config = ckpt.config
      BY <2>2 DEF Configured, OneConfiguration
    <3>. QED
      BY <1>1, <1>2, <2>2, <3>1, SavedStays
  <2>3. CASE task[i] = Null
    <3>1. Saves /\ task'[i] = mem[cursor]
      BY <1>1, <2>1, <2>3, SavedNew
    <3>2. pc \in {"commit", "save"} /\ Place \in {"commit", "save"}
      BY <1>1, <3>1 DEF Saves, Place, TypeOK
    <3>3. ckpt # Null
      BY <1>1, <3>2 DEF Filed
    <3>. QED
      BY <1>2, <1>3, <3>1, <3>2, <3>3
  <2>. QED
    BY <2>2, <2>3
<1>5. SUFFICES
      /\ pc' # "down" /\ ckpt' # Null => ckpt'.config = run'.config
      /\ kind' = "range" =>
           /\ pc' # "down" => stamp' = run'.config
           /\ ckpt' # Null => ckpt'.config = stamp'
           /\ \A i \in Tasks : out'[i] # Null => out'[i].config = stamp'
      /\ Place' \in {"commit", "save"} => mem'[cursor'].res.config = run'.config
  BY <1>2, <1>4, SeenConfigured DEF Configured
<1>6. CASE Stays
  <2>1. UNCHANGED <<kind, Place, run, cursor, mem, stamp>>
    BY <1>6 DEF Stays
  <2>2. \A i \in Tasks : kind = "range" /\ out'[i] # Null => out'[i].config = stamp
    BY <1>1, <1>3, <1>6 DEF Stays
  <2>. QED
    BY <1>1, <1>2, <1>3, <2>1, <2>2
<1>7. CASE Ends
  <2>1. Place' = "down" /\ UNCHANGED <<kind, stamp, out>>
    BY <1>7 DEF Ends
  <2>. QED
    BY <1>1, <1>2, <1>3, <2>1
<1>8. CASE Starts
  <2>1. /\ Place = "down" /\ Place' \in {"recover", "gate"} /\ UNCHANGED <<kind, ckpt, out>>
        /\ run' \in Runs
    BY <1>8 DEF Starts, world
  <2>2. CASE kind = "shard" /\ Resumable(run'.config)
    BY <1>1, <2>1, <2>2 DEF Resumable
  <2>3. CASE kind = "range" /\ SameRun(run'.config) /\ stamp' = run'.config
    <3>1. ckpt # Null => ckpt.config \in Configs
      BY <1>1 DEF TypeOK, Checkpoints
    <3>2. \A i \in Tasks : out[i] # Null => out[i].config \in Configs
      BY <1>1 DEF TypeOK, Results
    <3>3. stamp = Null => ckpt = Null /\ \A i \in Tasks : out[i] = Null
      BY <1>3, <2>3, <3>1, <3>2, NullAssumption
    <3>. QED
      BY <1>3, <2>1, <2>3, <3>3 DEF SameRun
  <2>. QED
    BY <1>8, <2>2, <2>3 DEF Starts
<1>9. CASE Recovers \/ Marks \/ GoesOn \/ Skips \/ Begins \/ Saves \/ Verifies
  <2>1. /\ UNCHANGED <<kind, ckpt, run, stamp, out>> /\ Place # "down"
        /\ Place' \notin {"commit", "save"}
    BY <1>9 DEF Recovers, Marks, GoesOn, Moves, Skips, Begins, Saves, Verifies, world
  <2>. QED
    BY <1>1, <1>3, <2>1
<1>10. CASE Yields
  <2>1. /\ UNCHANGED <<kind, ckpt, run, stamp, out, cursor>> /\ Place # "down"
        /\ Place \in {"running", "reset"} /\ cursor \in Tasks
    BY <1>1, <1>10 DEF Yields, Placed
  <2>2. mem'[cursor].res.config = run.config
    <3>1. CASE \E e \in Saved : mem' = [mem EXCEPT ![cursor] = e] /\ e.res.config = run.config
      BY <1>1, <2>1, <3>1 DEF TypeOK
    <3>2. CASE Place = "reset" /\ mem' = [mem EXCEPT ![cursor] = Envelope(cursor)]
      <4>1. kind = "range" /\ out[cursor] # Null /\ pc # "down"
        BY <1>1, <3>2 DEF Placed, Present, TypeOK
      <4>2. mem'[cursor].res = out[cursor]
        BY <1>1, <2>1, <3>2 DEF Envelope, TypeOK
      <4>. QED
        BY <1>3, <2>1, <4>1, <4>2
    <3>. QED
      BY <1>10, <3>1, <3>2 DEF Yields
  <2>. QED
    BY <1>1, <1>3, <2>1, <2>2
<1>. QED
  BY <1>1, <1>6, <1>7, <1>8, <1>9, <1>10 DEF Kind

\* One configuration goes through process, files and results.
LEMMA ConfiguredHolds == Spec => []Configured
<1>1. Init => Configured
  BY DEF Init, DirectoryInit, MergeInit, NoResults, Configured, Place, OneConfiguration
<1>2. Control /\ Control' /\ Remembered /\ Configured /\ [Next]_vars => Configured'
  BY ConfiguredStep
<1>. QED
  BY <1>1, <1>2, ControlHolds, RememberedHolds, PTL DEF Spec

\* The results of a directory belong together: each was produced under the
\* configuration of its checkpoint, however often the process was started and with
\* whatever configurations.
THEOREM OneConfigurationHolds == Spec => []OneConfiguration
<1>1. Configured => OneConfiguration
  BY DEF Configured
<1>. QED
  BY <1>1, ConfiguredHolds, PTL

-----------------------------------------------------------------------------
(* What is complete *)

\* A range whose every result is saved and cleaned up does not change any more.
LEMMA CompleteStays ==
    ASSUME Control, Control', Remembered, Kind, Cleaned(task) = Tasks
    PROVE  task' = task
<1>1. 1 \in Tasks
  BY RunDirectoryAssumption DEF Tasks
<1>2. task[1] # Null
  BY <1>1 DEF Cleaned
<1>. QED
  BY <1>1, <1>2, SavedStays

\* The summary is written last, and a complete directory is not changed any more.
LEMMA FinishedStep ==
    ASSUME Control, Control', Remembered, Published, Finished, [Next]_vars
    PROVE  Finished'
<1>1. TypeOK /\ Placed /\ Filed /\ Kind
  BY StepKinds DEF Control
<1>2. Cleaned(task) = Tasks => task' = task
  BY <1>1, CompleteStays
<1>3. CASE WriteNext
  <2>. DEFINE f == Head(todo)
              P == Predictions(task)
              C == Complete(task)
  <2>1. pc = "write" /\ Replaced(f) /\ UNCHANGED <<kind, task>>
    BY <1>3, WriteSteps
  <2>2. mem = task /\ run # Null
    BY <2>1, WritesSaved
  <2>3. /\ f \in Files
        /\ f = "summary" => ckpt # Null /\ preds # Null
        /\ f \in {"pausedCkpt", "pausedSummary"} => summary # Null /\ ckpt # Null
    BY <1>1, <2>1, LeftSteps DEF Filed, TypeOK
  <2>4. f = "summary" => /\ preds = P /\ ckpt.done = C
                         /\ kind = "shard" /\ Status = "complete" => private = preds
    BY <2>1, <2>2 DEF Published
  <2>5. Checkpoint.done = C
    BY <1>1, <2>2, CheckpointType
  <2>6. f = "summary" => Summary.sha = preds /\ Summary.status = Status
    BY <1>1, <2>2, <2>3, SummaryType
  <2>7. Status = "complete" => Cleaned(task) = Tasks
    BY <2>2, CompleteType DEF Status
  <2>8. f = "pausedCkpt" => Paused(ckpt).done = ckpt.done
    BY <1>1, <2>3, PausedType DEF TypeOK
  <2>9. f = "pausedSummary" => Paused(summary).status = "paused"
    BY <1>1, <2>3, PausedType DEF TypeOK
  <2>10. SUFFICES ASSUME summary' # Null, summary'.status = "complete"
                  PROVE  /\ Cleaned(task) = Tasks
                         /\ preds' = P /\ summary'.sha = P /\ ckpt'.done = C
                         /\ kind = "shard" => private' = preds'
    BY <2>1 DEF Finished
  <2>11. CASE f = "summary"
    <3>1. summary' = Summary /\ UNCHANGED <<preds, private, ckpt>>
      BY <2>1, <2>11 DEF Replaced
    <3>. QED
      BY <2>4, <2>6, <2>7, <2>10, <2>11, <3>1
  <2>12. CASE f # "summary"
    <3>1. f # "pausedSummary" /\ summary' = summary
      BY <2>1, <2>9, <2>10, <2>12 DEF Replaced
    <3>2. /\ Cleaned(task) = Tasks
          /\ preds = P /\ summary.sha = P /\ ckpt.done = C
          /\ kind = "shard" => private = preds
      BY <2>10, <3>1 DEF Finished
    <3>. HIDE DEF P, C, f
    <3>3. Predictions(mem) = P
      BY <2>2 DEF P
    <3>. QED
      BY <2>1, <2>5, <2>8, <3>1, <3>2, <3>3 DEF Replaced
  <2>. QED
    BY <2>11, <2>12
<1>4. CASE UNCHANGED <<kind, preds, private, ckpt, summary>>
  BY <1>2, <1>4 DEF Finished
<1>. QED
  BY <1>1, <1>3, <1>4 DEF Kind, Stays, Ends, Starts, Recovers, Marks, GoesOn, Moves, Skips,
     Begins, Yields, Saves, Verifies, KeepsFiles

\* A complete summary stands for a complete directory.
LEMMA FinishedHolds == Spec => []Finished
<1>1. Init => Finished
  BY DEF Init, DirectoryInit, Finished
<1>2. Control /\ Control' /\ Remembered /\ Published /\ Finished /\ [Next]_vars => Finished'
  BY FinishedStep
<1>. QED
  BY <1>1, <1>2, ControlHolds, RememberedHolds, PublishedHolds, PTL DEF Spec

\* The merge only goes on with a directory that is complete.
LEMMA MergingStep ==
    ASSUME Control, Control', Remembered, Configured, Finished, Merging, [Next]_vars
    PROVE  Merging'
<1>. DEFINE P == Predictions(task)
<1>1. TypeOK /\ Present /\ Filed
  BY DEF Control
<1>2. CASE UNCHANGED mergeVars
  <2>1. Cleaned(task) = Tasks => task' = task
    BY StepKinds, CompleteStays
  <2>2. ckpt # Null => ckpt' # Null /\ ckpt'.config = ckpt.config
    BY ConfigurationStays
  <2>. QED
    BY <1>2, <2>1, <2>2 DEF Merging, mergeVars
<1>3. CASE MergeNext
  <2>1. UNCHANGED <<task, ckpt>>
    BY <1>3 DEF MergeNext, MergeReadSummary, MergeReadCheckpoint, MergeReadPredictions,
       MergeValidate, MergePrivate, MergeFinish, MergeCrash, runVars, files
  <2>2. CASE MergeReadSummary
    BY <2>1, <2>2 DEF MergeReadSummary, Merging, Finished
  <2>3. CASE MergeReadCheckpoint \/ MergeReadPredictions \/ MergeCrash
    BY <2>1, <2>3 DEF MergeReadCheckpoint, MergeReadPredictions, MergeCrash, Merging
  <2>4. CASE MergeValidate
    <3>1. /\ Cleaned(task) = Tasks /\ seen.sha = P
          /\ seen.config = ckpt.config /\ ckpt # Null /\ mpc = "validate"
      BY <1>1, <2>4 DEF MergeValidate, Merging, Configured, Present, Filed
    <3>2. PICK o \in OtherSources :
            IF Compatible(o)
            THEN /\ mpc' = "private"
                 /\ merged' = [preds |-> Append(preds, OtherEntry(o.config)),
                               private |-> <<>>, done |-> FALSE]
            ELSE mpc' = "idle" /\ UNCHANGED merged
      BY <2>4 DEF MergeValidate
    <3>3. CASE Compatible(o)
      <4>1. preds = P /\ o.config = ckpt.config
        BY <3>1, <3>3 DEF Compatible
      <4>2. merged'.preds = Append(P, OtherEntry(ckpt.config)) /\ ~merged'.done
        BY <3>2, <3>3, <4>1
      <4>. QED
        BY <2>1, <3>1, <3>2, <3>3, <4>2 DEF Merging
    <3>4. CASE ~Compatible(o)
      BY <2>1, <3>2, <3>4 DEF Merging
    <3>. QED
      BY <3>3, <3>4
  <2>5. CASE MergePrivate
    <3>1. merged # Null /\ merged \in Merged /\ mpc = "private"
      BY <1>1, <2>5 DEF MergePrivate, Present, TypeOK
    <3>2. /\ Cleaned(task) = Tasks /\ merged.preds = Append(P, OtherEntry(ckpt.config))
          /\ ckpt # Null
      BY <3>1 DEF Merging
    <3>3. CASE /\ mpc' = "finish"
               /\ merged' = [merged EXCEPT !.private = Append(P, Last(merged.preds))]
      <4>1. Last(merged.preds) = OtherEntry(ckpt.config)
        <5>1. P \in Listings
          BY <1>1, PredictionsType DEF TypeOK
        <5>. DEFINE x == OtherEntry(ckpt.config)
        <5>. HIDE DEF P, x
        <5>2. Last(Append(P, x)) = x
          BY <5>1 DEF Last, Listings
        <5>. QED
          BY <3>2, <5>2 DEF x
      <4>2. merged'.preds = merged.preds /\ merged'.private = merged.preds
        BY <3>1, <3>2, <3>3, <4>1 DEF Merged
      <4>. QED
        BY <2>1, <3>2, <3>3, <4>2 DEF Merging
    <3>4. CASE mpc' = "idle" /\ UNCHANGED merged
      BY <2>1, <3>4 DEF Merging
    <3>. QED
      BY <2>5, <3>3, <3>4 DEF MergePrivate
  <2>6. CASE MergeFinish
    <3>1. /\ merged # Null /\ merged \in Merged /\ mpc = "finish" /\ mpc' = "idle"
          /\ merged' = [merged EXCEPT !.done = TRUE]
      BY <1>1, <2>6 DEF MergeFinish, Present, TypeOK
    <3>2. merged'.preds = merged.preds /\ merged'.private = merged.private
      BY <3>1 DEF Merged
    <3>. QED
      BY <2>1, <3>1, <3>2 DEF Merging
  <2>. QED
    BY <1>3, <2>2, <2>3, <2>4, <2>5, <2>6 DEF MergeNext
<1>. QED
  BY <1>2, <1>3 DEF Next, Runner, Idle, vars

\* What the merge has read is what the directory holds.
LEMMA MergingHolds == Spec => []Merging
<1>1. Init => Merging
  BY DEF Init, MergeInit, Merging
<1>2. Control /\ Control' /\ Remembered /\ Configured /\ Finished /\ Merging /\ [Next]_vars
         => Merging'
  BY MergingStep
<1>. QED
  BY <1>1, <1>2, ControlHolds, RememberedHolds, ConfiguredHolds, FinishedHolds, PTL DEF Spec

\* What calls itself complete is complete for every reader: a merge that reads the
\* files one by one while a runner replaces them ends with the saved result of every
\* task, all of one configuration.
THEOREM CompleteReadable == Spec => []CompleteIsReadable
<1>1. ASSUME Control, Configured, Finished, Merging PROVE CompleteIsReadable
  <2>1. ASSUME summary # Null, summary.status = "complete"
        PROVE  /\ preds = summary.sha
               /\ ckpt.done = [k \in Tasks |-> k]
               /\ kind = "shard" => private = preds
    BY <1>1, <2>1, CompleteType DEF Finished
  <2>2. ASSUME merged # Null, merged.done
        PROVE  /\ Front(merged.preds) = Predictions(task)
               /\ merged.private = merged.preds
               /\ Len(merged.preds) = N + 1
               /\ \A k \in DOMAIN merged.preds :
                     merged.preds[k].res.config = Last(merged.preds).res.config
    <3>. DEFINE P == Predictions(task)
                x == OtherEntry(ckpt.config)
    <3>1. /\ Cleaned(task) = Tasks /\ merged.preds = Append(P, x)
          /\ merged.private = merged.preds
      BY <1>1, <2>2 DEF Merging
    <3>2. /\ P \in Listings /\ Len(P) = N /\ N \in Nat
          /\ {P[k] : k \in DOMAIN P} = Listing(task)
      <4>1. Len(Complete(task)) = N
        BY <3>1, CompleteType
      <4>. QED
        BY <1>1, <4>1, PredictionsType, RunDirectoryAssumption DEF Control, TypeOK
    <3>3. x.res.config = ckpt.config
      BY DEF OtherEntry
    <3>4. ASSUME NEW k \in DOMAIN P PROVE P[k].res.config = ckpt.config
      <4>1. P[k] \in Listing(task)
        BY <3>2
      <4>2. PICK i \in Cleaned(task) : P[k] = [index |-> i, res |-> task[i].res]
        BY <4>1 DEF Listing
      <4>3. task[i].res.config = ckpt.config
        BY <1>1 DEF Configured, OneConfiguration, Cleaned
      <4>. QED
        BY <4>2, <4>3
    <3>. DEFINE E == [index : 1..(N + 1), res : Results]
    <3>5. x \in E
      <4>1. ckpt.config \in Configs
        BY <1>1, <2>2 DEF Merging, Control, TypeOK, Checkpoints
      <4>2. 1 \in 1..MaxStarts /\ N + 1 \in 1..(N + 1)
        BY RunDirectoryAssumption
      <4>. QED
        BY <4>1, <4>2 DEF OtherEntry, Results
    <3>6. P \in Seq(E)
      BY <3>2 DEF Listings
    <3>. HIDE DEF P, x, E
    <3>7. /\ Append(P, x) # <<>> /\ Len(Append(P, x)) = N + 1
          /\ Last(Append(P, x)) = x
          /\ \A k \in 1..N : Append(P, x)[k] = P[k]
          /\ Append(P, x)[N + 1] = x
          /\ DOMAIN Append(P, x) = 1..(N + 1) /\ DOMAIN P = 1..N
      <4>1. Append(P, x) \in Seq(E)
        BY <3>5, <3>6, AppendProperties
      <4>2. /\ Append(P, x) # <<>> /\ Len(Append(P, x)) = N + 1
            /\ \A k \in 1..N : Append(P, x)[k] = P[k]
            /\ Append(P, x)[N + 1] = x
        BY <3>2, <3>5, <3>6, AppendProperties
      <4>3. DOMAIN Append(P, x) = 1..(N + 1) /\ DOMAIN P = 1..N
        BY <3>2, <3>6, <4>1, <4>2, LenProperties
      <4>. QED
        BY <4>2, <4>3 DEF Last
    <3>8. Front(Append(P, x)) = P
      BY <3>2, <3>6, <3>7 DEF Front
    <3>9. \A k \in 1..(N + 1) : Append(P, x)[k].res.config = x.res.config
      <4>1. \A k \in 1..(N + 1) : k \in 1..N \/ k = N + 1
        BY <3>2
      <4>. QED
        BY <3>3, <3>4, <3>7, <4>1
    <3>. QED
      BY <3>1, <3>7, <3>8, <3>9 DEF P
  <2>. QED
    BY <2>1, <2>2 DEF CompleteIsReadable
<1>. QED
  BY <1>1, ControlHolds, ConfiguredHolds, FinishedHolds, MergingHolds, PTL

-----------------------------------------------------------------------------
(* The gate *)

\* The loop is only entered through the gate, and a result is saved before the next
\* task is looked at.
LEMMA GatedStep ==
    ASSUME Control, Control', Gated, Kind
    PROVE  Gated'
<1>1. TypeOK /\ Placed /\ Present
  BY DEF Control
<1>2. SUFFICES ASSUME kind = "range", kind' = "range"
               PROVE  /\ Place' \in {"gate", "loop", "run", "running", "reset", "save"} =>
                            \A i \in Tasks : i < cursor' => mem'[i] # Null
                      /\ Place' \in {"loop", "run"} => run'.override \/ ~TooFew(mem')
  <2>1. kind' = kind
    BY DEF Kind, Stays, Ends, Starts, Recovers, Marks, GoesOn, Moves, Skips, Begins, Yields,
       Saves, Verifies, KeepsFiles
  <2>. QED
    BY <2>1 DEF Gated
<1>3. /\ Place \in {"gate", "loop", "run", "running", "reset", "save"} =>
            \A i \in Tasks : i < cursor => mem[i] # Null
      /\ Place \in {"loop", "run"} => run.override \/ ~TooFew(mem)
      /\ Place \notin {"recover", "recovered", "verify", "commit", "clean", "failed"}
      /\ Place = "down" => cursor = 1
  BY <1>1, <1>2 DEF Gated, Placed
<1>4. CASE Stays
  BY <1>3, <1>4 DEF Stays
<1>5. CASE Ends
  BY <1>5 DEF Ends
<1>6. CASE Starts
  <2>1. Place' = "gate" /\ cursor' = 1
    BY <1>2, <1>3, <1>6 DEF Starts
  <2>. QED
    BY <2>1 DEF Tasks
<1>7. CASE Recovers \/ Marks \/ Verifies
  BY <1>3, <1>7 DEF Recovers, Marks, Verifies
<1>8. CASE GoesOn
  <2>1. UNCHANGED <<run, cursor, mem>>
    BY <1>8 DEF GoesOn, Moves
  <2>2. \/ Place' \in {"failed", "ending", "verify"}
        \/ Place = "loop" /\ Place' = "run"
        \/ Place = "gate" /\ Place' = "loop" /\ (run.override \/ ~TooFew(mem))
        \/ Place = "running" /\ Place' = "reset"
    BY <1>3, <1>8 DEF GoesOn, Moves
  <2>. QED
    BY <1>3, <2>1, <2>2
<1>9. CASE Skips
  <2>1. /\ Place = "loop" /\ Place' = "loop" /\ cursor \in Tasks /\ mem[cursor] # Null
        /\ cursor' = cursor + 1 /\ UNCHANGED <<run, mem>>
    BY <1>9 DEF Skips
  <2>2. \A i \in Tasks : i < cursor + 1 => i < cursor \/ i = cursor
    BY <1>1 DEF TypeOK, Tasks
  <2>. QED
    BY <1>3, <2>1, <2>2
<1>10. CASE Begins
  BY <1>3, <1>10 DEF Begins
<1>11. CASE Yields
  <2>1. \/ Place' = "commit"
        \/ /\ Place = "reset" /\ Place' = "save" /\ cursor' = cursor
           /\ mem' = [mem EXCEPT ![cursor] = Envelope(cursor)]
    BY <1>11 DEF Yields
  <2>2. ASSUME Place = "reset", mem' = [mem EXCEPT ![cursor] = Envelope(cursor)],
               NEW i \in Tasks, i < cursor
        PROVE  mem'[i] # Null
    <3>1. mem[i] # Null /\ i # cursor
      BY <1>1, <1>3, <2>2 DEF TypeOK, Tasks
    <3>. QED
      BY <1>1, <2>2, <3>1 DEF TypeOK
  <2>. QED
    BY <2>1, <2>2
<1>12. CASE Saves
  <2>1. /\ Place = "save" /\ Place' = "gate" /\ cursor' = cursor + 1
        /\ UNCHANGED <<run, mem>> /\ mem[cursor] # Null
    BY <1>1, <1>3, <1>12 DEF Saves, Present
  <2>2. \A i \in Tasks : i < cursor + 1 => i < cursor \/ i = cursor
    BY <1>1 DEF TypeOK, Tasks
  <2>. QED
    BY <1>3, <2>1, <2>2
<1>. QED
  BY <1>4, <1>5, <1>6, <1>7, <1>8, <1>9, <1>10, <1>11, <1>12 DEF Kind

\* The range runner comes to a task with all results before it, through the gate.
LEMMA GatedHolds == Spec => []Gated
<1>1. Init => Gated
  BY DEF Init, DirectoryInit, Gated, Place
<1>2. Control /\ Control' /\ Gated /\ [Next]_vars => Gated'
  BY StepKinds, GatedStep
<1>. QED
  BY <1>1, <1>2, ControlHolds, PTL DEF Spec

\* The range runner starts no task beyond the gate while too few of the first tasks
\* are saved with a passed phase 1, unless this process overrides the gate: it comes
\* to a task with all results before it, so the count of the gate is reached.
THEOREM GateClosed == Spec => GateHolds
<1>1. ASSUME Control, Remembered, Gated, [Next]_vars
      PROVE  [\A i \in Tasks :
                 kind = "range" /\ att'[i] # att[i] /\ GateCount > 0 /\ i > GateCount
                   => \/ run.override
                      \/ Quantify(1..GateCount, LAMBDA k : task[k] # Null /\ task[k].res.p1)
                            >= GateFloor]_vars
  <2>1. SUFFICES ASSUME NEW i \in Tasks, kind = "range", att'[i] # att[i], GateCount > 0,
                        i > GateCount, ~run.override
                 PROVE  Quantify(1..GateCount, LAMBDA k : task[k] # Null /\ task[k].res.p1)
                           >= GateFloor
    OBVIOUS
  <2>. DEFINE First == 1..GateCount
              Good == PassedOf(task, First)
  <2>2. Begins
    BY <1>1, <2>1, StepKinds DEF Kind, Stays, Ends, Starts, Recovers, Marks, GoesOn, Moves,
       Skips, Yields, Saves, Verifies, world
  <2>3. /\ cursor \in Tasks /\ i = cursor /\ Place = "run" /\ mem = task
    <3>1. Place = "run" /\ att' = [att EXCEPT ![cursor] = @ + 1]
      BY <2>2 DEF Begins
    <3>2. cursor \in Tasks /\ att \in [Tasks -> 0..MaxStarts] /\ mem = task
      BY <1>1, <3>1 DEF Control, Placed, TypeOK, Remembered
    <3>. QED
      BY <2>1, <3>1, <3>2
  <2>4. GateCount \in 0..N /\ GateFloor \in Nat /\ N \in Nat
    BY RangeRunnerAssumption, RunDirectoryAssumption
  <2>5. \A k \in First : k \in Tasks /\ task[k] # Null
    <3>1. \A k \in First : k \in Tasks /\ k < cursor
      BY <2>1, <2>3, <2>4 DEF Tasks
    <3>. QED
      BY <1>1, <2>1, <2>3, <3>1 DEF Gated
  <2>6. ~TooFew(task)
    BY <1>1, <2>1, <2>3 DEF Gated
  <2>7. Cardinality(Held(task)) >= GateCount
    <3>1. First \subseteq Held(task) /\ Held(task) \in SUBSET Tasks
      BY <2>5 DEF Held
    <3>2. IsFiniteSet(Held(task)) /\ Cardinality(Held(task)) \in Nat
      BY <3>1, TasksFinite
    <3>3. Cardinality(First) = GateCount
      BY <2>1, <2>4, FS_Interval
    <3>. QED
      BY <3>1, <3>2, <3>3, FS_Subset
  <2>8. Cardinality(Good) >= GateFloor
    <3>1. Cardinality(Good) \in Nat
      BY <2>5, TasksFinite DEF PassedOf
    <3>2. ~(Cardinality(Good) < GateFloor)
      BY <2>1, <2>6, <2>7 DEF TooFew
    <3>. QED
      BY <2>4, <3>1, <3>2
  <2>9. {k \in First : task[k] # Null /\ task[k].res.p1} = Good
    BY <2>5 DEF PassedOf
  <2>10. Quantify(First, LAMBDA k : task[k] # Null /\ task[k].res.p1)
            = Cardinality({k \in First : task[k] # Null /\ task[k].res.p1})
    BY DEF Quantify
  <2>. HIDE DEF Good
  <2>. QED
    BY <2>8, <2>9, <2>10
<1>. QED
  BY <1>1, ControlHolds, RememberedHolds, GatedHolds, PTL DEF Spec, GateHolds

-----------------------------------------------------------------------------
(* The directory keeps what it promises *)

SavedResults == [i \in Tasks |-> IF task[i] = Null THEN Null ELSE task[i].res]

PublishedResults == IF preds = Null THEN {} ELSE {preds[k] : k \in DOMAIN preds}

RunStatus ==
    IF summary = Null \/ summary.status = "in_progress" THEN "open" ELSE summary.status

\* Every entry that is listed is one of a saved result.
LEMMA ListingSaved ==
    ASSUME NEW r \in [Tasks -> {Null} \cup Saved], NEW s,
           s = [i \in Tasks |-> IF r[i] = Null THEN Null ELSE r[i].res]
    PROVE  /\ Listing(r) \subseteq
                {[index |-> i, res |-> s[i]] : i \in {j \in Tasks : s[j] # Null}}
           /\ Cleaned(r) = Tasks =>
                /\ \A i \in Tasks : s[i] # Null
                /\ {[index |-> i, res |-> s[i]] : i \in {j \in Tasks : s[j] # Null}}
                      = Listing(r)
<1>1. ASSUME NEW i \in Cleaned(r)
      PROVE  i \in Tasks /\ s[i] = r[i].res /\ s[i] # Null
  <2>1. i \in Tasks /\ r[i] # Null /\ r[i] \in Saved
    BY <1>1 DEF Cleaned
  <2>. QED
    BY <2>1, NullAssumption DEF Saved
<1>. QED
  BY <1>1 DEF Listing

\* A step of the ledger: a result is saved, the published ones grow, or the status
\* changes, and it is only complete with everything published.
LEMMA LedgerStep ==
    ASSUME Control, Control', Remembered, Published, Published', Finished', [Next]_vars
    PROVE  [Ledger!Next]_(Ledger!ledger)
<1>. DEFINE Entries == {[index |-> i, res |-> SavedResults[i]] :
                          i \in {j \in Tasks : SavedResults[j] # Null}}
<1>1. TypeOK /\ TypeOK' /\ Placed /\ Present /\ Kind
  BY StepKinds DEF Control
<1>2. CASE Saves
  <2>1. /\ cursor \in Tasks /\ task[cursor] = Null /\ mem[cursor] \in Saved
        /\ task' = [task EXCEPT ![cursor] = mem[cursor]]
        /\ UNCHANGED <<preds, summary>>
    BY <1>1, <1>2 DEF Saves, Placed, Present, Remembered, TypeOK, KeepsFiles
  <2>2. mem[cursor] # Null /\ mem[cursor].res # Null
    BY <2>1, NullAssumption DEF Saved
  <2>3. /\ SavedResults[cursor] = Null
        /\ SavedResults' = [SavedResults EXCEPT ![cursor] = mem[cursor].res]
        /\ SavedResults'[cursor] = mem[cursor].res
    BY <1>1, <2>1, <2>2 DEF SavedResults, TypeOK
  <2>4. UNCHANGED <<PublishedResults, RunStatus>>
    BY <2>1 DEF PublishedResults, RunStatus
  <2>5. \E i \in Tasks :
           /\ SavedResults'[i] # Null
           /\ SavedResults[i] = Null
           /\ SavedResults' = [SavedResults EXCEPT ![i] = SavedResults'[i]]
    BY <2>1, <2>2, <2>3
  <2>. QED
    BY <2>4, <2>5 DEF Ledger!Next, Ledger!Save, SavedResults, PublishedResults, RunStatus
<1>3. CASE ~Saves
  <2>1. SavedResults' = SavedResults
    <3>1. ASSUME NEW i \in Tasks
          PROVE  /\ task'[i] = Null <=> task[i] = Null
                 /\ task[i] # Null => task'[i].res = task[i].res
      BY <1>1, <1>3, SavedStays, SavedNew
    <3>. QED
      BY <3>1 DEF SavedResults
  <2>2. CASE preds' = preds
    <3>1. PublishedResults' = PublishedResults
      BY <2>2 DEF PublishedResults
    <3>2. RunStatus' \in {"open", "complete", "paused"}
      BY <1>1 DEF RunStatus, TypeOK, Summaries
    <3>3. ASSUME RunStatus' = "complete"
          PROVE  /\ \A i \in Tasks : SavedResults[i] # Null
                 /\ PublishedResults = Entries
      <4>1. /\ Cleaned(task') = Tasks
            /\ preds' = Predictions(task') /\ Predictions(task') \in Listings
            /\ {Predictions(task')[k] : k \in DOMAIN Predictions(task')} = Listing(task')
        BY <1>1, <3>3, PredictionsType DEF RunStatus, Finished, TypeOK
      <4>2. PublishedResults' = Listing(task')
        BY <4>1, NullAssumption DEF PublishedResults
      <4>3. (\A i \in Tasks : SavedResults[i] # Null) /\ Entries = Listing(task')
        <5>1. /\ task' \in [Tasks -> {Null} \cup Saved]
              /\ SavedResults = [i \in Tasks |-> IF task'[i] = Null THEN Null ELSE task'[i].res]
          BY <1>1, <2>1 DEF TypeOK, SavedResults
        <5>. QED
          BY <4>1, <5>1, ListingSaved
      <4>. QED
        BY <2>1, <3>1, <4>2, <4>3
    <3>4. Ledger!Conclude
      BY <2>1, <3>1, <3>2, <3>3
         DEF Ledger!Conclude, Ledger!Entries, SavedResults, PublishedResults, RunStatus
    <3>. QED
      BY <3>4 DEF Ledger!Next
  <2>3. CASE preds' # preds
    <3>1. WriteNext
      BY <1>1, <1>3, <2>3 DEF Kind, Stays, Ends, Starts, Recovers, Marks, GoesOn, Moves, Skips,
         Begins, Yields, Verifies, KeepsFiles
    <3>2. /\ pc = "write" /\ Replaced(Head(todo))
      BY <3>1, WriteSteps
    <3>3. preds' = Predictions(task) /\ summary' = summary
      BY <2>3, <3>2, WritesSaved DEF Replaced
    <3>4. PublishedResults' = Listing(task)
      BY <1>1, <3>3, PredictionsType, NullAssumption DEF PublishedResults, TypeOK
    <3>5. PublishedResults \subseteq Listing(task) /\ Listing(task) \subseteq Entries
      <4>1. /\ task \in [Tasks -> {Null} \cup Saved]
            /\ SavedResults = [i \in Tasks |-> IF task[i] = Null THEN Null ELSE task[i].res]
        BY <1>1 DEF TypeOK, SavedResults
      <4>2. Listing(task) \subseteq Entries
        BY <4>1, ListingSaved
      <4>3. PublishedResults \subseteq Listing(task)
        BY DEF Published, PublishedResults
      <4>. QED
        BY <4>2, <4>3
    <3>6. RunStatus' = RunStatus
      BY <3>3 DEF RunStatus
    <3>7. Ledger!Publish
      BY <2>1, <3>4, <3>5, <3>6
         DEF Ledger!Publish, Ledger!Entries, SavedResults, PublishedResults, RunStatus
    <3>. QED
      BY <3>7 DEF Ledger!Next
  <2>. QED
    BY <2>2, <2>3
<1>. QED
  BY <1>2, <1>3

\* The two runners, killed and started again at any moment, keep what the ledger
\* promises: a saved result stays, only saved results are published and they stay
\* published, and a run is called complete when every result is published.
THEOREM LedgerImplemented == Spec => ImplementsLedger
<1>1. Init => Ledger!Init
  BY DEF Init, DirectoryInit, NoResults, Ledger!Init
<1>2. Control /\ Control' /\ Remembered /\ Published /\ Published' /\ Finished' /\ [Next]_vars
         => [Ledger!Next]_(Ledger!ledger)
  BY LedgerStep
<1>. QED
  BY <1>1, <1>2, ControlHolds, RememberedHolds, PublishedHolds, FinishedHolds, PTL
     DEF Spec, ImplementsLedger, Ledger!Spec
=============================================================================
