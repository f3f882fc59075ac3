-------------------------- MODULE ModelCallsProofs --------------------------
(***************************************************************************)
(* ModelCalls for any mail, any number of tasks and any providers: what    *)
(* the state is, what a day's calls can cost, that an embedding is paid    *)
(* for once, and that the backfill ends when it is done.                   *)
(***************************************************************************)
EXTENDS ModelCalls, FiniteSetTheorems, TLAPS

-----------------------------------------------------------------------------
(***************************************************************************)
(* What a task goes through next.                                          *)
(***************************************************************************)
\* A step on the path of its task.
Here(s) == IF At(s, "failover") THEN "call" ELSE slot[s].step

LEMMA PlaceIn ==
    ASSUME NEW s, NEW i \in DOMAIN Path(slot[s].task), Path(slot[s].task)[i] = Here(s),
           \A k \in DOMAIN Path(slot[s].task) : Path(slot[s].task)[k] = Here(s) => k = i
    PROVE  Following(s) = Path(slot[s].task)[i + 1]
<1> DEFINE here == CHOOSE k \in DOMAIN Path(slot[s].task) : Path(slot[s].task)[k] = Here(s)
<1>1. here \in DOMAIN Path(slot[s].task) /\ Path(slot[s].task)[here] = Here(s)
    OBVIOUS
<1>2. here = i
    BY <1>1
<1>3. Following(s) = Path(slot[s].task)[here + 1]
    BY DEF Following, Here
<1> QED BY <1>2, <1>3

\* An analysis.
LEMMA AnalyzePath ==
    ASSUME NEW s, Path(slot[s].task) = <<"budget", "read", "call", "save", "record", "notify", "queue">>
    PROVE  /\ slot[s].step = "budget" => Following(s) = "read"
           /\ slot[s].step = "read" => Following(s) = "call"
           /\ slot[s].step \in {"call", "failover"} => Following(s) = "save"
           /\ slot[s].step = "save" => Following(s) = "record"
<1> DEFINE path == <<"budget", "read", "call", "save", "record", "notify", "queue">>
<1>1. DOMAIN path = 1..7
    OBVIOUS
<1>2. path[1] = "budget"
    OBVIOUS
<1>3. path[2] = "read"
    OBVIOUS
<1>4. path[3] = "call"
    OBVIOUS
<1>5. path[4] = "save"
    OBVIOUS
<1>6. path[5] = "record"
    OBVIOUS
<1>7. path[6] = "notify"
    OBVIOUS
<1>8. path[7] = "queue"
    OBVIOUS
<1> HIDE DEF path
<1>9. Path(slot[s].task) = path
    BY DEF path
<1>10. ASSUME slot[s].step = "budget" PROVE Following(s) = "read"
    <2>1. \A j \in 1..7 : path[j] = path[1] => j = 1
        BY <1>2, <1>3, <1>4, <1>5, <1>6, <1>7, <1>8
    <2>2. path[1] = Here(s)
        BY <1>10, <1>2 DEF At, Here
    <2>3. 1 \in 1..7 /\ 1 + 1 = 2
        OBVIOUS
    <2>4. Following(s) = path[1 + 1]
        BY <1>1, <1>9, <2>1, <2>2, <2>3, PlaceIn
    <2> QED BY <2>3, <2>4, <1>3
<1>11. ASSUME slot[s].step = "read" PROVE Following(s) = "call"
    <2>1. \A j \in 1..7 : path[j] = path[2] => j = 2
        BY <1>2, <1>3, <1>4, <1>5, <1>6, <1>7, <1>8
    <2>2. path[2] = Here(s)
        BY <1>11, <1>3 DEF At, Here
    <2>3. 2 \in 1..7 /\ 2 + 1 = 3
        OBVIOUS
    <2>4. Following(s) = path[2 + 1]
        BY <1>1, <1>9, <2>1, <2>2, <2>3, PlaceIn
    <2> QED BY <2>3, <2>4, <1>4
<1>12. ASSUME slot[s].step \in {"call", "failover"} PROVE Following(s) = "save"
    <2>1. \A j \in 1..7 : path[j] = path[3] => j = 3
        BY <1>2, <1>3, <1>4, <1>5, <1>6, <1>7, <1>8
    <2>2. path[3] = Here(s)
        BY <1>12, <1>4 DEF At, Here
    <2>3. 3 \in 1..7 /\ 3 + 1 = 4
        OBVIOUS
    <2>4. Following(s) = path[3 + 1]
        BY <1>1, <1>9, <2>1, <2>2, <2>3, PlaceIn
    <2> QED BY <2>3, <2>4, <1>5
<1>13. ASSUME slot[s].step = "save" PROVE Following(s) = "record"
    <2>1. \A j \in 1..7 : path[j] = path[4] => j = 4
        BY <1>2, <1>3, <1>4, <1>5, <1>6, <1>7, <1>8
    <2>2. path[4] = Here(s)
        BY <1>13, <1>5 DEF At, Here
    <2>3. 4 \in 1..7 /\ 4 + 1 = 5
        OBVIOUS
    <2>4. Following(s) = path[4 + 1]
        BY <1>1, <1>9, <2>1, <2>2, <2>3, PlaceIn
    <2> QED BY <2>3, <2>4, <1>6
<1> QED BY <1>10, <1>11, <1>12, <1>13

\* An embedding, and a summary.
LEMMA EmbedPath ==
    ASSUME NEW s, Path(slot[s].task) = <<"has", "budget", "read", "call", "save", "record">>
    PROVE  /\ slot[s].step = "has" => Following(s) = "budget"
           /\ slot[s].step = "budget" => Following(s) = "read"
           /\ slot[s].step = "read" => Following(s) = "call"
           /\ slot[s].step \in {"call", "failover"} => Following(s) = "save"
           /\ slot[s].step = "save" => Following(s) = "record"
<1> DEFINE path == <<"has", "budget", "read", "call", "save", "record">>
<1>1. DOMAIN path = 1..6
    OBVIOUS
<1>2. path[1] = "has"
    OBVIOUS
<1>3. path[2] = "budget"
    OBVIOUS
<1>4. path[3] = "read"
    OBVIOUS
<1>5. path[4] = "call"
    OBVIOUS
<1>6. path[5] = "save"
    OBVIOUS
<1>7. path[6] = "record"
    OBVIOUS
<1> HIDE DEF path
<1>8. Path(slot[s].task) = path
    BY DEF path
<1>9. ASSUME slot[s].step = "has" PROVE Following(s) = "budget"
    <2>1. \A j \in 1..6 : path[j] = path[1] => j = 1
        BY <1>2, <1>3, <1>4, <1>5, <1>6, <1>7
    <2>2. path[1] = Here(s)
        BY <1>9, <1>2 DEF At, Here
    <2>3. 1 \in 1..6 /\ 1 + 1 = 2
        OBVIOUS
    <2>4. Following(s) = path[1 + 1]
        BY <1>1, <1>8, <2>1, <2>2, <2>3, PlaceIn
    <2> QED BY <2>3, <2>4, <1>3
<1>10. ASSUME slot[s].step = "budget" PROVE Following(s) = "read"
    <2>1. \A j \in 1..6 : path[j] = path[2] => j = 2
        BY <1>2, <1>3, <1>4, <1>5, <1>6, <1>7
    <2>2. path[2] = Here(s)
        BY <1>10, <1>3 DEF At, Here
    <2>3. 2 \in 1..6 /\ 2 + 1 = 3
        OBVIOUS
    <2>4. Following(s) = path[2 + 1]
        BY <1>1, <1>8, <2>1, <2>2, <2>3, PlaceIn
    <2> QED BY <2>3, <2>4, <1>4
<1>11. ASSUME slot[s].step = "read" PROVE Following(s) = "call"
    <2>1. \A j \in 1..6 : path[j] = path[3] => j = 3
        BY <1>2, <1>3, <1>4, <1>5, <1>6, <1>7
    <2>2. path[3] = Here(s)
        BY <1>11, <1>4 DEF At, Here
    <2>3. 3 \in 1..6 /\ 3 + 1 = 4
        OBVIOUS
    <2>4. Following(s) = path[3 + 1]
        BY <1>1, <1>8, <2>1, <2>2, <2>3, PlaceIn
    <2> QED BY <2>3, <2>4, <1>5
<1>12. ASSUME slot[s].step \in {"call", "failover"} PROVE Following(s) = "save"
    <2>1. \A j \in 1..6 : path[j] = path[4] => j = 4
        BY <1>2, <1>3, <1>4, <1>5, <1>6, <1>7
    <2>2. path[4] = Here(s)
        BY <1>12, <1>5 DEF At, Here
    <2>3. 4 \in 1..6 /\ 4 + 1 = 5
        OBVIOUS
    <2>4. Following(s) = path[4 + 1]
        BY <1>1, <1>8, <2>1, <2>2, <2>3, PlaceIn
    <2> QED BY <2>3, <2>4, <1>6
<1>13. ASSUME slot[s].step = "save" PROVE Following(s) = "record"
    <2>1. \A j \in 1..6 : path[j] = path[5] => j = 5
        BY <1>2, <1>3, <1>4, <1>5, <1>6, <1>7
    <2>2. path[5] = Here(s)
        BY <1>13, <1>6 DEF At, Here
    <2>3. 5 \in 1..6 /\ 5 + 1 = 6
        OBVIOUS
    <2>4. Following(s) = path[5 + 1]
        BY <1>1, <1>8, <2>1, <2>2, <2>3, PlaceIn
    <2> QED BY <2>3, <2>4, <1>7
<1> QED BY <1>9, <1>10, <1>11, <1>12, <1>13

\* What is told the user at once.
LEMMA ReplyPath ==
    ASSUME NEW s, Path(slot[s].task) = <<"budget", "read", "call", "record">>
    PROVE  /\ slot[s].step = "budget" => Following(s) = "read"
           /\ slot[s].step = "read" => Following(s) = "call"
           /\ slot[s].step \in {"call", "failover"} => Following(s) = "record"
<1> DEFINE path == <<"budget", "read", "call", "record">>
<1>1. DOMAIN path = 1..4
    OBVIOUS
<1>2. path[1] = "budget"
    OBVIOUS
<1>3. path[2] = "read"
    OBVIOUS
<1>4. path[3] = "call"
    OBVIOUS
<1>5. path[4] = "record"
    OBVIOUS
<1> HIDE DEF path
<1>6. Path(slot[s].task) = path
    BY DEF path
<1>7. ASSUME slot[s].step = "budget" PROVE Following(s) = "read"
    <2>1. \A j \in 1..4 : path[j] = path[1] => j = 1
        BY <1>2, <1>3, <1>4, <1>5
    <2>2. path[1] = Here(s)
        BY <1>7, <1>2 DEF At, Here
    <2>3. 1 \in 1..4 /\ 1 + 1 = 2
        OBVIOUS
    <2>4. Following(s) = path[1 + 1]
        BY <1>1, <1>6, <2>1, <2>2, <2>3, PlaceIn
    <2> QED BY <2>3, <2>4, <1>3
<1>8. ASSUME slot[s].step = "read" PROVE Following(s) = "call"
    <2>1. \A j \in 1..4 : path[j] = path[2] => j = 2
        BY <1>2, <1>3, <1>4, <1>5
    <2>2. path[2] = Here(s)
        BY <1>8, <1>3 DEF At, Here
    <2>3. 2 \in 1..4 /\ 2 + 1 = 3
        OBVIOUS
    <2>4. Following(s) = path[2 + 1]
        BY <1>1, <1>6, <2>1, <2>2, <2>3, PlaceIn
    <2> QED BY <2>3, <2>4, <1>4
<1>9. ASSUME slot[s].step \in {"call", "failover"} PROVE Following(s) = "record"
    <2>1. \A j \in 1..4 : path[j] = path[3] => j = 3
        BY <1>2, <1>3, <1>4, <1>5
    <2>2. path[3] = Here(s)
        BY <1>9, <1>4 DEF At, Here
    <2>3. 3 \in 1..4 /\ 3 + 1 = 4
        OBVIOUS
    <2>4. Following(s) = path[3 + 1]
        BY <1>1, <1>6, <2>1, <2>2, <2>3, PlaceIn
    <2> QED BY <2>3, <2>4, <1>5
<1> QED BY <1>7, <1>8, <1>9

\* The words of a search.
LEMMA VectorPath ==
    ASSUME NEW s, Path(slot[s].task) = <<"budget", "call", "record">>
    PROVE  /\ slot[s].step = "budget" => Following(s) = "call"
           /\ slot[s].step \in {"call", "failover"} => Following(s) = "record"
<1> DEFINE path == <<"budget", "call", "record">>
<1>1. DOMAIN path = 1..3
    OBVIOUS
<1>2. path[1] = "budget"
    OBVIOUS
<1>3. path[2] = "call"
    OBVIOUS
<1>4. path[3] = "record"
    OBVIOUS
<1> HIDE DEF path
<1>5. Path(slot[s].task) = path
    BY DEF path
<1>6. ASSUME slot[s].step = "budget" PROVE Following(s) = "call"
    <2>1. \A j \in 1..3 : path[j] = path[1] => j = 1
        BY <1>2, <1>3, <1>4
    <2>2. path[1] = Here(s)
        BY <1>6, <1>2 DEF At, Here
    <2>3. 1 \in 1..3 /\ 1 + 1 = 2
        OBVIOUS
    <2>4. Following(s) = path[1 + 1]
        BY <1>1, <1>5, <2>1, <2>2, <2>3, PlaceIn
    <2> QED BY <2>3, <2>4, <1>3
<1>7. ASSUME slot[s].step \in {"call", "failover"} PROVE Following(s) = "record"
    <2>1. \A j \in 1..3 : path[j] = path[2] => j = 2
        BY <1>2, <1>3, <1>4
    <2>2. path[2] = Here(s)
        BY <1>7, <1>3 DEF At, Here
    <2>3. 2 \in 1..3 /\ 2 + 1 = 3
        OBVIOUS
    <2>4. Following(s) = path[2 + 1]
        BY <1>1, <1>5, <2>1, <2>2, <2>3, PlaceIn
    <2> QED BY <2>3, <2>4, <1>4
<1> QED BY <1>6, <1>7

\* A step of the task, where it is.
StepOfTask(task, step) ==
    /\ task \in Tasks /\ step \in Steps \ {"idle"}
    /\ step = "has" => task \in {"embed", "summary"}
    /\ step = "read" => task \notin Queries
    /\ step = "failover" => task = "analyse"
    /\ step = "save" => task \in {"analyse", "embed", "summary"}
    /\ step = "notify" => task = "analyse"
    /\ step = "queue" => task \in Kinds

\* Where each step leads.
Leads(task, step) ==
    CASE step = "has"    -> "budget"
      [] step = "budget" -> IF task \in Queries THEN "call" ELSE "read"
      [] step = "read"   -> "call"
      [] step \in {"call", "failover"} -> IF task \in {"analyse", "embed", "summary"} THEN "save" ELSE "record"
      [] step = "save"   -> "record"

LEMMA Follows ==
    ASSUME NEW s, StepOfTask(slot[s].task, slot[s].step), slot[s].step \notin {"record", "notify", "queue"}
    PROVE  Following(s) = Leads(slot[s].task, slot[s].step)
<1>1. slot[s].task \in Kinds \cup Requests
    BY DEF StepOfTask, Tasks
<1>2. CASE slot[s].task = "analyse"
    <2>1. Path(slot[s].task) = <<"budget", "read", "call", "save", "record", "notify", "queue">>
        BY <1>2 DEF Path, Analyze
    <2> QED BY <1>2, <2>1, AnalyzePath DEF StepOfTask, Leads, Steps, Queries
<1>3. CASE slot[s].task \in {"embed", "summary"}
    <2>1. Path(slot[s].task) = <<"has", "budget", "read", "call", "save", "record">>
        BY <1>3 DEF Path, Embed, Summarize
    <2> QED BY <1>3, <2>1, EmbedPath DEF StepOfTask, Leads, Steps, Queries
<1>4. CASE slot[s].task \in {"translation", "draft", "speech", "question"}
    <2>1. Path(slot[s].task) = <<"budget", "read", "call", "record">>
        BY <1>4 DEF Path, Translate, DraftReply, ReadAloud, AnswerQuestionFrom
    <2> QED BY <1>4, <2>1, ReplyPath DEF StepOfTask, Leads, Steps, Queries
<1>5. CASE slot[s].task \in Queries
    <2>1. Path(slot[s].task) = <<"budget", "call", "record">>
        BY <1>5 DEF Path, QueryVector, Queries
    <2> QED BY <1>5, <2>1, VectorPath DEF StepOfTask, Leads, Steps, Queries
<1> QED BY <1>1, <1>2, <1>3, <1>4, <1>5 DEF Kinds, Requests, Queries

-----------------------------------------------------------------------------
(***************************************************************************)
(* Where everything is.                                                    *)
(***************************************************************************)
Types ==
    /\ day \in 1..MaxDays
    /\ row \in [Messages -> {"none", "stored", "gone"}]
    /\ summarised \subseteq Messages /\ embedded \subseteq Messages
    /\ job \in [Kinds \X Messages -> {"none", "waiting", "active", "done", "dead"}]
    /\ tries \in [Kinds \X Messages -> 0..MaxAttempts]
    /\ meter \in Nat /\ bill \in Nat /\ escaped \in Nat
    /\ slot \in [Slots -> Task]
    /\ asked \in 0..MaxRequests
    /\ sweep \in [step : {"idle", "queue", "mark"}, list : SUBSET Messages]
    /\ backfilled \in BOOLEAN /\ looked \subseteq Messages
    /\ bought \in [Messages -> Int]
    /\ disturbed \in 0..MaxDisturbed

\* A task is at a step of its own, and owes only what it has bought and not recorded.
Fit(t) ==
    \/ t = Idle
    \/ /\ StepOfTask(t.task, t.step) /\ t.of \in Messages
       /\ t.cost > 0 => t.step \in {"save", "record"}
Fits == \A s \in Slots : Fit(slot[s])

\* A job is carried out by one task at a time, and has attempts left until it ends.
Working ==
    /\ \A s \in Slots : IsJob(s) => job[JobOf(s)] = "active"
    /\ \A s, t \in Slots : IsJob(s) /\ IsJob(t) /\ JobOf(s) = JobOf(t) => s = t
    /\ \A j \in Kinds \X Messages : job[j] \in {"none", "waiting", "active"} => tries[j] < MaxAttempts

\* Nothing is asked about a message that was never stored.
Found ==
    /\ \A j \in Kinds \X Messages : job[j] # "none" => row[j[2]] # "none"
    /\ \A s \in Slots : ~At(s, "idle") => row[slot[s].of] # "none"
    /\ \A m \in sweep.list : row[m] # "none"

Base == Types /\ Fits /\ Working /\ Found


-----------------------------------------------------------------------------
(***************************************************************************)
(* What a step does to its own slot.                                       *)
(***************************************************************************)
Doing(step, task, of, cost) == [step |-> step, task |-> task, of |-> of, cost |-> cost]

LEMMA TaskShape ==
    ASSUME NEW t \in Task
    PROVE  /\ t = Doing(t.step, t.task, t.of, t.cost)
           /\ t.step \in Steps /\ t.cost \in 0..MaxCost
BY DEF Task, Doing

LEMMA DoingIs ==
    ASSUME NEW step, NEW task, NEW of, NEW cost
    PROVE  /\ Doing(step, task, of, cost).step = step /\ Doing(step, task, of, cost).task = task
           /\ Doing(step, task, of, cost).of = of /\ Doing(step, task, of, cost).cost = cost
BY DEF Doing

LEMMA SlotTypes ==
    ASSUME Types, NEW s \in Slots
    PROVE  /\ slot[s] \in Task
           /\ slot[s].step \in Steps /\ slot[s].cost \in 0..MaxCost
           /\ slot[s] = Doing(slot[s].step, slot[s].task, slot[s].of, slot[s].cost)
           /\ \A t : /\ [slot EXCEPT ![s] = t][s] = t
                     /\ \A r \in Slots : r # s => [slot EXCEPT ![s] = t][r] = slot[r]
                     /\ t \in Task => [slot EXCEPT ![s] = t] \in [Slots -> Task]
<1>1. slot \in [Slots -> Task]
    BY DEF Types
<1>2. slot[s] \in Task
    BY <1>1
<1> QED BY <1>1, <1>2, TaskShape

LEMMA GotoIs ==
    ASSUME Types, NEW s \in Slots, NEW step, Goto(s, step)
    PROVE  slot' = [slot EXCEPT ![s] = Doing(step, slot[s].task, slot[s].of, slot[s].cost)]
<1>1. slot[s] = Doing(slot[s].step, slot[s].task, slot[s].of, slot[s].cost)
    BY SlotTypes
<1>2. [slot[s] EXCEPT !.step = step] = Doing(step, slot[s].task, slot[s].of, slot[s].cost)
    BY <1>1 DEF Doing
<1>3. slot' = [slot EXCEPT ![s] = [slot[s] EXCEPT !.step = step]]
    BY DEF Goto
<1> QED BY <1>2, <1>3

LEMMA GotoOwingIs ==
    ASSUME Types, NEW s \in Slots, NEW step, NEW cost, GotoOwing(s, step, cost)
    PROVE  slot' = [slot EXCEPT ![s] = Doing(step, slot[s].task, slot[s].of, cost)]
<1>1. slot[s] = Doing(slot[s].step, slot[s].task, slot[s].of, slot[s].cost)
    BY SlotTypes
<1>2. [slot[s] EXCEPT !.step = step, !.cost = cost] = Doing(step, slot[s].task, slot[s].of, cost)
    <2> DEFINE u == [slot[s] EXCEPT !.step = step]
    <2>1. u = Doing(step, slot[s].task, slot[s].of, slot[s].cost)
        BY <1>1 DEF Doing
    <2>2. [slot[s] EXCEPT !.step = step, !.cost = cost] = [u EXCEPT !.cost = cost]
        OBVIOUS
    <2> HIDE DEF u
    <2>3. [u EXCEPT !.cost = cost] = Doing(step, slot[s].task, slot[s].of, cost)
        BY <2>1 DEF Doing
    <2> QED BY <2>2, <2>3
<1>3. slot' = [slot EXCEPT ![s] = [slot[s] EXCEPT !.step = step, !.cost = cost]]
    BY DEF GotoOwing
<1> QED BY <1>2, <1>3

\* A query whose search is over is answered, or goes on to be a question.
Onwards(s) ==
    /\ \/ slot' = [slot EXCEPT ![s] = Idle]
       \/ slot' = [slot EXCEPT ![s] = Doing("budget", "question", slot[s].of, 0)]
    /\ UNCHANGED queueVars

LEMMA SearchedIs ==
    ASSUME Types, NEW s \in Slots, Searched(s)
    PROVE  Onwards(s)
<1>1. CASE slot[s].task = "search"
    BY <1>1 DEF Searched, Onwards
<1>2. CASE slot[s].task # "search"
    <2>1. slot[s] = Doing(slot[s].step, slot[s].task, slot[s].of, slot[s].cost)
        BY SlotTypes
    <2>2. [slot[s] EXCEPT !.task = "question", !.step = "budget", !.cost = 0] = Doing("budget", "question", slot[s].of, 0)
        <3> DEFINE u == [slot[s] EXCEPT !.task = "question"]
                   v == [u EXCEPT !.step = "budget"]
        <3>1. [slot[s] EXCEPT !.task = "question", !.step = "budget", !.cost = 0] = [v EXCEPT !.cost = 0]
            OBVIOUS
        <3>2. u = Doing(slot[s].step, "question", slot[s].of, slot[s].cost)
            BY <2>1 DEF Doing
        <3> HIDE DEF u
        <3>3. v = Doing("budget", "question", slot[s].of, slot[s].cost)
            BY <3>2 DEF Doing
        <3> HIDE DEF v
        <3>4. [v EXCEPT !.cost = 0] = Doing("budget", "question", slot[s].of, 0)
            BY <3>3 DEF Doing
        <3> QED BY <3>1, <3>4
    <2>3. slot' = [slot EXCEPT ![s] = [slot[s] EXCEPT !.task = "question", !.step = "budget", !.cost = 0]]
        BY <1>2 DEF Searched
    <2> QED BY <2>2, <2>3 DEF Searched, Onwards
<1> QED BY <1>1, <1>2

\* A task goes on with what it is doing.
Stays(s) ==
    /\ \E step, cost : /\ StepOfTask(slot[s].task, step) /\ cost \in 0..MaxCost
                       /\ cost > 0 => step \in {"save", "record"}
                       /\ slot' = [slot EXCEPT ![s] = Doing(step, slot[s].task, slot[s].of, cost)]
    /\ UNCHANGED queueVars

\* A task ends; a job is done, or waits for another attempt if it has one left, or is dead.
Settles(j, state) ==
    \/ UNCHANGED tries
    \/ tries' = [tries EXCEPT ![j] = @ + 1] /\ (state = "waiting" => ~(tries[j] + 1 >= MaxAttempts))
Ends(s) ==
    /\ slot' = [slot EXCEPT ![s] = Idle]
    /\ \/ ~IsJob(s) /\ UNCHANGED queueVars
       \/ /\ IsJob(s)
          /\ \E state \in {"done", "dead", "waiting"} :
                Settles(JobOf(s), state) /\ job' = [job EXCEPT ![JobOf(s)] = state]
       \/ /\ slot[s].task = "analyse" /\ job[<<"embed", slot[s].of>>] = "none" /\ UNCHANGED tries
          /\ job' = [[job EXCEPT ![JobOf(s)] = "done"] EXCEPT ![<<"embed", slot[s].of>>] = "waiting"]

LEMMA FailJobEnds ==
    ASSUME NEW s \in Slots, IsJob(s), NEW retryable \in BOOLEAN, FailJob(s, retryable)
    PROVE  Ends(s)
<1> DEFINE state == IF retryable /\ ~LastAttempt(s) THEN "waiting" ELSE "dead"
<1>1. state \in {"done", "dead", "waiting"} /\ (state = "waiting" => ~(tries[JobOf(s)] + 1 >= MaxAttempts))
    BY DEF LastAttempt
<1>2. /\ slot' = [slot EXCEPT ![s] = Idle] /\ job' = [job EXCEPT ![JobOf(s)] = state]
      /\ tries' = [tries EXCEPT ![JobOf(s)] = @ + 1]
    BY DEF FailJob, Free
<1> HIDE DEF state
<1> QED BY <1>1, <1>2 DEF Ends, Settles

LEMMA FailIs ==
    ASSUME Types, NEW s \in Slots, NEW retryable \in BOOLEAN, Fail(s, retryable)
    PROVE  Stays(s) \/ Ends(s)
<1>1. CASE ~IsJob(s)
    BY <1>1 DEF Fail, Ends, Free, IsJob, Kinds
<1>2. ASSUME IsJob(s), NEW r \in BOOLEAN, FailJob(s, r) PROVE Ends(s)
    BY <1>2, FailJobEnds
<1>3. CASE slot[s].task = "embed"
    <2>1. IsJob(s) /\ FailJob(s, retryable)
        BY <1>3 DEF Fail, IsJob, Kinds
    <2> QED BY <1>2, <2>1
<1>4. CASE slot[s].task = "analyse"
    <2>1. IsJob(s) /\ (FailJob(s, TRUE) \/ (GotoOwing(s, "notify", 0) /\ UNCHANGED queueVars))
        BY <1>4 DEF Fail, IsJob, Kinds
    <2>2. ASSUME GotoOwing(s, "notify", 0), UNCHANGED queueVars PROVE Stays(s)
        <3>1. slot' = [slot EXCEPT ![s] = Doing("notify", slot[s].task, slot[s].of, 0)]
            BY <2>2, GotoOwingIs
        <3>2. StepOfTask(slot[s].task, "notify") /\ 0 \in 0..MaxCost /\ ~(0 > 0)
            BY <1>4, CallBounds DEF StepOfTask, Tasks, Kinds, Steps, Queries
        <3> QED BY <2>2, <3>1, <3>2 DEF Stays
    <2> QED BY <1>2, <2>1, <2>2
<1>5. IsJob(s) => slot[s].task = "embed" \/ slot[s].task = "analyse"
    BY DEF IsJob, Kinds
<1> QED BY <1>1, <1>3, <1>4, <1>5

\* There is nothing to do, or the job is complete.
LEMMA CompleteIs ==
    ASSUME Types, NEW s \in Slots, Complete(s)
    PROVE  Ends(s)
<1>1. CASE IsJob(s)
    <2>1. /\ slot' = [slot EXCEPT ![s] = Idle] /\ UNCHANGED tries
          /\ job' = [job EXCEPT ![JobOf(s)] = "done"] /\ "done" \in {"done", "dead", "waiting"}
        BY <1>1 DEF Complete, Free
    <2> QED BY <1>1, <2>1 DEF Ends, Settles
<1>2. CASE ~IsJob(s)
    BY <1>2 DEF Complete, Free, Ends, queueVars
<1> QED BY <1>1, <1>2

LEMMA SkipIs ==
    ASSUME Types, Fits, NEW s \in Slots, slot[s].cost = 0, Skip(s)
    PROVE  Stays(s) \/ Ends(s)
<1>1. CASE slot[s].task = "analyse"
    <2>1. slot' = [slot EXCEPT ![s] = Doing("notify", slot[s].task, slot[s].of, 0)]
        BY <1>1, GotoIs DEF Skip
    <2>2. StepOfTask(slot[s].task, "notify") /\ 0 \in 0..MaxCost /\ ~(0 > 0)
        BY <1>1, CallBounds DEF StepOfTask, Tasks, Kinds, Steps, Queries
    <2> QED BY <1>1, <2>1, <2>2 DEF Stays, Skip
<1>2. CASE slot[s].task # "analyse"
    BY <1>2, CompleteIs DEF Skip
<1> QED BY <1>1, <1>2

\* The next step of the task.
LEMMA LeadsOn ==
    ASSUME NEW task, NEW step, StepOfTask(task, step), step \notin {"record", "notify", "queue"}
    PROVE  StepOfTask(task, Leads(task, step))
<1>1. step \in {"has", "budget", "read", "call", "failover", "save"}
    BY DEF StepOfTask, Steps
<1>2. CASE step = "has"
    BY <1>2 DEF StepOfTask, Leads, Steps
<1>3. CASE step = "budget"
    BY <1>3 DEF StepOfTask, Leads, Steps, Queries
<1>4. CASE step = "read"
    BY <1>4 DEF StepOfTask, Leads, Steps
<1>5. CASE step \in {"call", "failover"}
    BY <1>5 DEF StepOfTask, Leads, Steps
<1>6. CASE step = "save"
    BY <1>6 DEF StepOfTask, Leads, Steps
<1> QED BY <1>1, <1>2, <1>3, <1>4, <1>5, <1>6

LEMMA AdvanceIs ==
    ASSUME Types, Fits, NEW s \in Slots, slot[s].step \in {"has", "budget", "read", "save"}, Advance(s)
    PROVE  /\ slot' = [slot EXCEPT ![s] = Doing(Leads(slot[s].task, slot[s].step), slot[s].task, slot[s].of, slot[s].cost)]
           /\ StepOfTask(slot[s].task, Leads(slot[s].task, slot[s].step))
           /\ slot[s].cost > 0 => Leads(slot[s].task, slot[s].step) = "record"
           /\ UNCHANGED queueVars => Stays(s)
<1>1. StepOfTask(slot[s].task, slot[s].step) /\ slot[s].cost \in 0..MaxCost
      /\ (slot[s].cost > 0 => slot[s].step \in {"save", "record"})
    BY SlotTypes DEF Fits, Fit, Idle
<1>2. Following(s) = Leads(slot[s].task, slot[s].step)
    BY <1>1, Follows
<1>3. slot' = [slot EXCEPT ![s] = Doing(Leads(slot[s].task, slot[s].step), slot[s].task, slot[s].of, slot[s].cost)]
    BY <1>2, GotoIs DEF Advance
<1>4. StepOfTask(slot[s].task, Leads(slot[s].task, slot[s].step))
    BY <1>1, LeadsOn
<1>5. slot[s].cost > 0 => Leads(slot[s].task, slot[s].step) = "record"
    BY <1>1 DEF Leads
<1> QED BY <1>1, <1>3, <1>4, <1>5 DEF Stays

\* What a task at a step is.
LEMMA AtStep ==
    ASSUME Types, Fits, NEW s \in Slots, ~At(s, "idle")
    PROVE  /\ StepOfTask(slot[s].task, slot[s].step) /\ slot[s].of \in Messages
           /\ slot[s].cost \in 0..MaxCost
           /\ slot[s].cost > 0 => slot[s].step \in {"save", "record"}
           /\ slot[s].step \notin {"save", "record"} => slot[s].cost = 0
<1>1. slot[s] # Idle
    BY DEF At, Idle
<1>2. slot[s].cost \in 0..MaxCost
    BY SlotTypes
<1>3. /\ StepOfTask(slot[s].task, slot[s].step) /\ slot[s].of \in Messages
      /\ slot[s].cost > 0 => slot[s].step \in {"save", "record"}
    BY <1>1 DEF Fits, Fit
<1> QED BY <1>2, <1>3, CallBounds

\* Whatever the call brought, the task goes on, asks elsewhere, ends or searches without it.
LEMMA CallFailedIs ==
    ASSUME Types, Fits, NEW s \in Slots, Calling(s), NEW retryable \in BOOLEAN, CallFailed(s, retryable)
    PROVE  Stays(s) \/ Ends(s) \/ (slot[s].task \in Queries /\ Onwards(s))
<1>1. CASE slot[s].task \in Queries
    BY <1>1, SearchedIs DEF CallFailed
<1>2. CASE slot[s].task \notin Queries /\ slot[s].task = "analyse" /\ Goto(s, "failover") /\ UNCHANGED queueVars
    <2>1. slot[s].cost = 0
        BY AtStep DEF Calling, At
    <2>2. slot' = [slot EXCEPT ![s] = Doing("failover", slot[s].task, slot[s].of, 0)]
        BY <1>2, <2>1, GotoIs
    <2>3. StepOfTask(slot[s].task, "failover") /\ 0 \in 0..MaxCost /\ ~(0 > 0)
        BY <1>2, CallBounds DEF StepOfTask, Tasks, Kinds, Steps, Queries
    <2> QED BY <1>2, <2>2, <2>3 DEF Stays
<1>3. CASE Fail(s, retryable)
    BY <1>3, FailIs
<1> QED BY <1>1, <1>2, <1>3 DEF CallFailed

LEMMA WorkIs ==
    ASSUME Types, Fits, NEW s \in Slots, Work(s)
    PROVE  /\ ~At(s, "idle")
           /\ Stays(s) \/ Ends(s) \/ (slot[s].task \in Queries /\ Onwards(s))
<1>1. ~At(s, "idle")
    BY DEF Work, FindStored, AssertAffordable, ProceedUnchecked, FindForAnalysis, Answered, Discarded, Refused,
           Save, RecordUsage, StepFails, Notify, QueueEmbedding, Crash, At, Calling
<1>2. /\ StepOfTask(slot[s].task, slot[s].step) /\ slot[s].cost \in 0..MaxCost
      /\ slot[s].step \notin {"save", "record"} => slot[s].cost = 0
    BY <1>1, AtStep
<1> SUFFICES Stays(s) \/ Ends(s) \/ (slot[s].task \in Queries /\ Onwards(s))
    BY <1>1
<1>3. CASE FindStored(s)
    BY <1>3, CompleteIs, AdvanceIs DEF FindStored, At
<1>4. CASE AssertAffordable(s)
    BY <1>2, <1>4, SkipIs, AdvanceIs, SearchedIs DEF AssertAffordable, At
<1>5. CASE ProceedUnchecked(s)
    BY <1>5, AdvanceIs DEF ProceedUnchecked, At
<1>6. CASE FindForAnalysis(s)
    BY <1>2, <1>6, SkipIs, AdvanceIs DEF FindForAnalysis, At
<1>7. CASE Answered(s)
    <2>1. PICK cost \in 1..MaxCost : GotoOwing(s, Following(s), cost)
        BY <1>7 DEF Answered
    <2>2. Following(s) = Leads(slot[s].task, slot[s].step)
        BY <1>2, <1>7, Follows DEF Answered, Calling, At
    <2>3. /\ StepOfTask(slot[s].task, Leads(slot[s].task, slot[s].step))
          /\ Leads(slot[s].task, slot[s].step) \in {"save", "record"}
        BY <1>2, <1>7, LeadsOn DEF Leads, Answered, Calling, At
    <2>4. slot' = [slot EXCEPT ![s] = Doing(Leads(slot[s].task, slot[s].step), slot[s].task, slot[s].of, cost)]
        BY <2>1, <2>2, GotoOwingIs
    <2>5. cost \in 0..MaxCost
        BY <2>1, CallBounds
    <2> QED BY <1>7, <2>3, <2>4, <2>5 DEF Stays, Answered
<1>8. CASE Discarded(s) \/ Refused(s)
    <2>1. Calling(s) /\ \E retryable \in BOOLEAN : CallFailed(s, retryable)
        BY <1>8 DEF Discarded, Refused
    <2> QED BY <2>1, CallFailedIs
<1>9. CASE Save(s)
    <2>1. CASE SaveEmbedding(s)
        BY <1>9, <2>1, AdvanceIs DEF Save, SaveEmbedding, At
    <2>2. CASE SaveAnalysis(s)
        <3>1. (Advance(s) /\ UNCHANGED queueVars) \/ Fail(s, TRUE)
            BY <2>2 DEF SaveAnalysis
        <3> QED BY <1>9, <3>1, AdvanceIs, FailIs DEF Save, At
    <2> QED BY <1>9, <2>1, <2>2 DEF Save
<1>10. CASE RecordUsage(s)
    <2>1. CASE slot[s].task = "analyse"
        <3>1. slot' = [slot EXCEPT ![s] = Doing("notify", slot[s].task, slot[s].of, 0)] /\ UNCHANGED queueVars
            BY <1>10, <2>1, GotoOwingIs DEF RecordUsage, Queries
        <3>2. StepOfTask(slot[s].task, "notify") /\ 0 \in 0..MaxCost /\ ~(0 > 0)
            BY <2>1, CallBounds DEF StepOfTask, Tasks, Kinds, Steps, Queries
        <3> QED BY <3>1, <3>2 DEF Stays
    <2>2. CASE slot[s].task \in Queries
        BY <1>10, <2>2, SearchedIs DEF RecordUsage, Queries
    <2>3. CASE slot[s].task # "analyse" /\ slot[s].task \notin Queries
        BY <1>10, <2>3, CompleteIs DEF RecordUsage
    <2> QED BY <2>1, <2>2, <2>3
<1>11. CASE StepFails(s)
    <2>1. CASE slot[s].task \in Queries /\ Searched(s)
        BY <2>1, SearchedIs
    <2>2. CASE At(s, "read") /\ slot[s].task = "question" /\ Goto(s, "call") /\ UNCHANGED queueVars
        <3>1. slot' = [slot EXCEPT ![s] = Doing("call", slot[s].task, slot[s].of, 0)]
            BY <1>2, <2>2, GotoIs DEF At
        <3>2. StepOfTask(slot[s].task, "call") /\ 0 \in 0..MaxCost /\ ~(0 > 0)
            BY <1>2, <2>2, CallBounds DEF StepOfTask, Tasks, Kinds, Steps, Queries
        <3> QED BY <2>2, <3>1, <3>2 DEF Stays
    <2>3. CASE Fail(s, TRUE)
        BY <2>3, FailIs
    <2> QED BY <1>11, <2>1, <2>2, <2>3 DEF StepFails
<1>12. CASE Notify(s)
    <2>1. slot[s].task = "analyse" /\ slot[s].cost = 0 /\ IsJob(s)
        BY <1>2, <1>12 DEF Notify, At, StepOfTask, IsJob, Kinds
    <2>2. CASE Goto(s, "queue") /\ UNCHANGED <<queueVars, disturbed>>
        <3>1. slot' = [slot EXCEPT ![s] = Doing("queue", slot[s].task, slot[s].of, 0)]
            BY <2>1, <2>2, GotoIs
        <3>2. StepOfTask(slot[s].task, "queue") /\ 0 \in 0..MaxCost /\ ~(0 > 0)
            BY <2>1, CallBounds DEF StepOfTask, Tasks, Kinds, Steps, Queries
        <3> QED BY <2>2, <3>1, <3>2 DEF Stays
    <2>3. CASE FailJob(s, TRUE)
        BY <2>1, <2>3, FailIs, FailJobEnds
    <2> QED BY <1>12, <2>2, <2>3 DEF Notify
<1>13. CASE QueueEmbedding(s)
    <2>1. IsJob(s) /\ slot[s].task \in Kinds
        BY <1>2, <1>13 DEF QueueEmbedding, At, StepOfTask, IsJob
    <2>2. slot' = [slot EXCEPT ![s] = Idle] /\ UNCHANGED tries /\ "done" \in {"done", "dead", "waiting"}
        BY <1>13 DEF QueueEmbedding, Free
    <2>3. \/ job' = [job EXCEPT ![JobOf(s)] = "done"]
          \/ /\ slot[s].task = "analyse" /\ job[<<"embed", slot[s].of>>] = "none"
             /\ job' = [[job EXCEPT ![JobOf(s)] = "done"] EXCEPT ![<<"embed", slot[s].of>>] = "waiting"]
        BY <1>13 DEF QueueEmbedding
    <2> QED BY <2>1, <2>2, <2>3 DEF Ends, Settles
<1>14. CASE Crash(s)
    <2>1. slot' = [slot EXCEPT ![s] = Idle] /\ UNCHANGED tries /\ "waiting" \in {"done", "dead", "waiting"}
        BY <1>14 DEF Crash, Free
    <2>2. CASE IsJob(s)
        <3>1. job' = [job EXCEPT ![JobOf(s)] = "waiting"]
            BY <1>14, <2>2 DEF Crash
        <3> QED BY <2>1, <2>2, <3>1 DEF Ends, Settles
    <2>3. CASE ~IsJob(s)
        BY <1>14, <2>1, <2>3 DEF Crash, Ends, queueVars
    <2> QED BY <2>2, <2>3
<1> QED BY <1>3, <1>4, <1>5, <1>6, <1>7, <1>8, <1>9, <1>10, <1>11, <1>12, <1>13, <1>14 DEF Work

-----------------------------------------------------------------------------
(***************************************************************************)
(* Where everything is stays so.                                           *)
(***************************************************************************)
\* Where a task may start; an embedding looks for one that is there first.
Starts(task, step) ==
    /\ StepOfTask(task, step) /\ step \in {"has", "budget", "notify", "queue"}
    /\ task = "embed" => step # "budget"

\* A task that starts: the job that is taken, or the request that is asked.
LEMMA TakeJobIs ==
    ASSUME Types, Found, NEW s \in Slots, NEW j \in Kinds \X Messages, TakeJob(s, j)
    PROVE  /\ \E step : /\ Starts(j[1], step)
                        /\ slot' = [slot EXCEPT ![s] = Doing(step, j[1], j[2], 0)]
           /\ j[1] \in Kinds /\ j[2] \in Messages /\ row[j[2]] # "none"
           /\ job[j] = "waiting" /\ job' = [job EXCEPT ![j] = "active"]
<1> DEFINE step == CASE j[1] = "embed" -> IF Embeds THEN "has" ELSE "queue"
                     [] j[1] = "analyse" -> IF Primary # "none" THEN "budget" ELSE "notify"
<1>1. slot' = [slot EXCEPT ![s] = Doing(step, j[1], j[2], 0)]
    BY DEF TakeJob, Doing
<1>2. j[1] \in {"analyse", "embed"} /\ j[2] \in Messages
    BY DEF Kinds
<1>3. Starts(j[1], step)
    <2>1. CASE j[1] = "embed"
        BY <2>1 DEF Starts, StepOfTask, Tasks, Kinds, Steps, Queries
    <2>2. CASE j[1] = "analyse"
        BY <2>2 DEF Starts, StepOfTask, Tasks, Kinds, Steps, Queries
    <2> QED BY <1>2, <2>1, <2>2
<1>4. job[j] = "waiting" /\ job' = [job EXCEPT ![j] = "active"]
    BY DEF TakeJob
<1>5. row[j[2]] # "none"
    BY <1>4 DEF Found
<1> HIDE DEF step
<1> QED BY <1>1, <1>2, <1>3, <1>4, <1>5 DEF Kinds

\* A path starts by looking for what is there, or at the budget.
LEMMA PathStarts ==
    ASSUME NEW task \in Requests
    PROVE  Path(task)[1] = IF task = "summary" THEN "has" ELSE "budget"
<1>1. CASE task = "summary"
    <2>1. Path(task) = <<"has", "budget", "read", "call", "save", "record">>
        BY <1>1 DEF Path, Summarize
    <2> QED BY <1>1, <2>1
<1>2. CASE task \in {"translation", "draft", "speech", "question"}
    <2>1. Path(task) = <<"budget", "read", "call", "record">>
        BY <1>2 DEF Path, Translate, DraftReply, ReadAloud, AnswerQuestionFrom
    <2> QED BY <1>2, <2>1
<1>3. CASE task \in {"search", "query"}
    <2>1. Path(task) = <<"budget", "call", "record">>
        BY <1>3 DEF Path, QueryVector
    <2> QED BY <1>3, <2>1
<1> QED BY <1>1, <1>2, <1>3 DEF Requests

LEMMA AskIs ==
    ASSUME Types, NEW s \in Slots, NEW request \in Requested, NEW m \in Messages, Ask(s, request, m)
    PROVE  /\ \E task \in Requests : \E step :
                 Starts(task, step) /\ slot' = [slot EXCEPT ![s] = Doing(step, task, m, 0)]
           /\ row[m] # "none" /\ UNCHANGED queueVars
<1> DEFINE task == IF request = "query" /\ ~Embeds THEN "question" ELSE request
<1>1. task \in Requests
    BY ProvidersAssumption DEF Requests
<1>2. slot' = [slot EXCEPT ![s] = Doing(Path(task)[1], task, m, 0)]
    BY DEF Ask, Doing
<1> HIDE DEF task
<1>3. Path(task)[1] = IF task = "summary" THEN "has" ELSE "budget"
    BY <1>1, PathStarts
<1>4. Starts(task, Path(task)[1])
    BY <1>1, <1>3 DEF Starts, StepOfTask, Tasks, Steps, Queries, Requests
<1>5. row[m] # "none" /\ UNCHANGED queueVars
    BY DEF Ask
<1> QED BY <1>1, <1>2, <1>4, <1>5

\* A step of a task that leaves it where it fits.
LEMMA DoingFits ==
    ASSUME NEW task, NEW step, StepOfTask(task, step), NEW of \in Messages, NEW cost \in 0..MaxCost,
           cost > 0 => step \in {"save", "record"}
    PROVE  Doing(step, task, of, cost) \in Task /\ Fit(Doing(step, task, of, cost))
BY DEF StepOfTask, Doing, Task, Fit

LEMMA IdleFits == Idle \in Task /\ Fit(Idle) /\ Idle.task \notin Kinds /\ Idle.step = "idle" /\ Idle.cost = 0
BY CallBounds DEF Idle, Task, Fit, Kinds, Steps

\* What one slot becomes, and the others stay.
LEMMA SlotsFit ==
    ASSUME Types, Fits, NEW s \in Slots, NEW t \in Task, Fit(t), slot' = [slot EXCEPT ![s] = t]
    PROVE  /\ slot' \in [Slots -> Task] /\ Fits'
           /\ slot'[s] = t /\ \A r \in Slots : r # s => slot'[r] = slot[r]
<1>1. /\ slot'[s] = t /\ (\A r \in Slots : r # s => slot'[r] = slot[r])
      /\ slot' \in [Slots -> Task]
    BY SlotTypes
<1> QED BY <1>1 DEF Fits

JobTypes ==
    /\ job \in [Kinds \X Messages -> {"none", "waiting", "active", "done", "dead"}]
    /\ tries \in [Kinds \X Messages -> 0..MaxAttempts]
    /\ slot \in [Slots -> Task]

\* The job of a task that has one, and whose tasks have other jobs.
LEMMA JobShape ==
    ASSUME Types, Fits, Working, NEW s \in Slots, IsJob(s)
    PROVE  /\ JobOf(s) \in Kinds \X Messages /\ slot[s].of \in Messages /\ slot[s].task \in Kinds
           /\ ~At(s, "idle") /\ slot[s] # Idle
           /\ job[JobOf(s)] = "active" /\ tries[JobOf(s)] < MaxAttempts
           /\ \A r \in Slots : r # s /\ IsJob(r) => JobOf(r) # JobOf(s)
<1>1. slot[s] # Idle
    BY IdleFits DEF IsJob
<1>2. slot[s].of \in Messages /\ slot[s].task \in Kinds /\ slot[s].step # "idle"
    BY <1>1 DEF Fits, Fit, IsJob, StepOfTask, Steps
<1>3. JobOf(s) \in Kinds \X Messages
    BY <1>2 DEF JobOf
<1>4. job[JobOf(s)] = "active" /\ \A r \in Slots : r # s /\ IsJob(r) => JobOf(r) # JobOf(s)
    BY DEF Working
<1>5. tries[JobOf(s)] < MaxAttempts
    BY <1>3, <1>4 DEF Working
<1> QED BY <1>1, <1>2, <1>3, <1>4, <1>5 DEF At

LEMMA StaysKeeps ==
    ASSUME Types, Fits, Working, NEW s \in Slots, ~At(s, "idle"), Stays(s)
    PROVE  /\ JobTypes' /\ Fits' /\ Working'
           /\ slot'[s].task = slot[s].task /\ slot'[s].of = slot[s].of
           /\ \A r \in Slots : r # s => slot'[r] = slot[r]
<1>1. PICK step, cost : /\ StepOfTask(slot[s].task, step) /\ cost \in 0..MaxCost
                        /\ cost > 0 => step \in {"save", "record"}
                        /\ slot' = [slot EXCEPT ![s] = Doing(step, slot[s].task, slot[s].of, cost)]
    BY DEF Stays
<1>2. slot[s].of \in Messages
    BY AtStep
<1>3. /\ Doing(step, slot[s].task, slot[s].of, cost) \in Task
      /\ Fit(Doing(step, slot[s].task, slot[s].of, cost))
    BY <1>1, <1>2, DoingFits
<1>4. /\ slot' \in [Slots -> Task] /\ Fits' /\ \A r \in Slots : r # s => slot'[r] = slot[r]
      /\ slot'[s] = Doing(step, slot[s].task, slot[s].of, cost)
    BY <1>1, <1>3, SlotsFit
<1>5. slot'[s].task = slot[s].task /\ slot'[s].of = slot[s].of
    BY <1>4, DoingIs
<1>6. UNCHANGED <<job, tries>>
    BY DEF Stays, queueVars
<1>7. \A r \in Slots : (IsJob(r)' <=> IsJob(r)) /\ JobOf(r)' = JobOf(r)
    BY <1>4, <1>5 DEF IsJob, JobOf
<1>8. Working'
    BY <1>6, <1>7 DEF Working
<1> QED BY <1>4, <1>5, <1>6, <1>8 DEF JobTypes, Types

LEMMA OnwardsKeeps ==
    ASSUME Types, Fits, Working, NEW s \in Slots, slot[s].task \in Queries, ~At(s, "idle"), Onwards(s)
    PROVE  /\ JobTypes' /\ Fits' /\ Working'
           /\ slot'[s] = Idle \/ slot'[s] = Doing("budget", "question", slot[s].of, 0)
           /\ \A r \in Slots : r # s => slot'[r] = slot[r]
<1>1. PICK t \in {Idle, Doing("budget", "question", slot[s].of, 0)} : slot' = [slot EXCEPT ![s] = t]
    BY DEF Onwards
<1>2. slot[s].of \in Messages
    BY AtStep
<1>3. StepOfTask("question", "budget") /\ 0 \in 0..MaxCost /\ ~(0 > 0)
    BY CallBounds DEF StepOfTask, Tasks, Requests, Steps
<1>4. t \in Task /\ Fit(t) /\ t.task \notin Kinds
    <2>1. CASE t = Idle
        BY <2>1, IdleFits
    <2>2. CASE t = Doing("budget", "question", slot[s].of, 0)
        BY <1>2, <1>3, <2>2, DoingFits, DoingIs DEF Kinds
    <2> QED BY <2>1, <2>2
<1>5. slot' \in [Slots -> Task] /\ Fits' /\ slot'[s] = t /\ \A r \in Slots : r # s => slot'[r] = slot[r]
    BY <1>1, <1>4, SlotsFit
<1>6. UNCHANGED <<job, tries>>
    BY DEF Onwards, queueVars
<1>7. \A r \in Slots : IsJob(r)' => IsJob(r) /\ JobOf(r)' = JobOf(r)
    BY <1>4, <1>5 DEF IsJob, JobOf
<1>8. Working'
    BY <1>6, <1>7 DEF Working
<1> QED BY <1>1, <1>5, <1>6, <1>8 DEF JobTypes, Types

LEMMA EndsKeeps ==
    ASSUME Types, Fits, Working, NEW s \in Slots, ~At(s, "idle"), Ends(s)
    PROVE  /\ JobTypes' /\ Fits' /\ Working'
           /\ slot'[s] = Idle /\ \A r \in Slots : r # s => slot'[r] = slot[r]
           /\ \A j \in Kinds \X Messages : job'[j] # "none" /\ job[j] = "none" => j[2] = slot[s].of
<1>1. slot' \in [Slots -> Task] /\ Fits' /\ slot'[s] = Idle /\ \A r \in Slots : r # s => slot'[r] = slot[r]
    BY IdleFits, SlotsFit DEF Ends
<1>2. \A r \in Slots : IsJob(r)' => r # s /\ IsJob(r) /\ JobOf(r)' = JobOf(r)
    BY <1>1, IdleFits DEF IsJob, JobOf
<1>3. CASE ~IsJob(s) /\ UNCHANGED queueVars
    <2>1. UNCHANGED <<job, tries>>
        BY <1>3 DEF queueVars
    <2>2. Working'
        BY <1>2, <2>1 DEF Working
    <2> QED BY <1>1, <2>1, <2>2 DEF JobTypes, Types
<1>4. ASSUME IsJob(s), NEW state \in {"done", "dead", "waiting"}, Settles(JobOf(s), state),
             job' = [job EXCEPT ![JobOf(s)] = state]
      PROVE  JobTypes' /\ Working' /\ \A j \in Kinds \X Messages : job'[j] # "none" /\ job[j] = "none" => j[2] = slot[s].of
    <2> DEFINE j == JobOf(s)
    <2>1. /\ j \in Kinds \X Messages /\ job[j] = "active" /\ tries[j] < MaxAttempts /\ tries[j] \in Nat
          /\ \A r \in Slots : r # s /\ IsJob(r) => JobOf(r) # j
        BY <1>4, JobShape, CallBounds DEF Types
    <2>2. /\ tries' \in [Kinds \X Messages -> 0..MaxAttempts]
          /\ \A k \in Kinds \X Messages : k # j => tries'[k] = tries[k]
          /\ state = "waiting" => tries'[j] < MaxAttempts
        <3>1. CASE UNCHANGED tries
            BY <2>1, <3>1 DEF Types
        <3>2. CASE tries' = [tries EXCEPT ![j] = @ + 1] /\ (state = "waiting" => ~(tries[j] + 1 >= MaxAttempts))
            <4>1. tries[j] + 1 \in 0..MaxAttempts /\ tries \in [Kinds \X Messages -> 0..MaxAttempts]
                BY <2>1, CallBounds DEF Types
            <4>2. tries'[j] = tries[j] + 1 /\ \A k \in Kinds \X Messages : k # j => tries'[k] = tries[k]
                BY <2>1, <3>2, <4>1
            <4> QED BY <2>1, <3>2, <4>1, <4>2, CallBounds
        <3> QED BY <1>4, <3>1, <3>2 DEF Settles
    <2>3. /\ job' \in [Kinds \X Messages -> {"none", "waiting", "active", "done", "dead"}]
          /\ job'[j] = state /\ \A k \in Kinds \X Messages : k # j => job'[k] = job[k]
        BY <1>4, <2>1 DEF Types
    <2> HIDE DEF j
    <2>4. \A r \in Slots : IsJob(r)' => job'[JobOf(r)'] = "active"
        BY <1>2, <2>1, <2>3, JobShape
    <2>5. \A r, t \in Slots : IsJob(r)' /\ IsJob(t)' /\ JobOf(r)' = JobOf(t)' => r = t
        BY <1>2 DEF Working
    <2>6. \A k \in Kinds \X Messages : job'[k] \in {"none", "waiting", "active"} => tries'[k] < MaxAttempts
        BY <1>4, <2>2, <2>3 DEF Working
    <2> QED BY <1>1, <2>1, <2>2, <2>3, <2>4, <2>5, <2>6 DEF JobTypes, Working
<1>5. ASSUME slot[s].task = "analyse", job[<<"embed", slot[s].of>>] = "none", UNCHANGED tries,
             job' = [[job EXCEPT ![JobOf(s)] = "done"] EXCEPT ![<<"embed", slot[s].of>>] = "waiting"]
      PROVE  JobTypes' /\ Working' /\ \A j \in Kinds \X Messages : job'[j] # "none" /\ job[j] = "none" => j[2] = slot[s].of
    <2> DEFINE j == JobOf(s)
               next == <<"embed", slot[s].of>>
    <2>1. /\ j \in Kinds \X Messages /\ job[j] = "active" /\ next[2] = slot[s].of
          /\ next \in Kinds \X Messages /\ job[next] = "none"
          /\ \A r \in Slots : r # s /\ IsJob(r) => JobOf(r) # j
        BY <1>5, JobShape DEF IsJob, Kinds
    <2>2. /\ job' \in [Kinds \X Messages -> {"none", "waiting", "active", "done", "dead"}]
          /\ job'[j] = "done" /\ job'[next] = "waiting"
          /\ \A k \in Kinds \X Messages : k # j /\ k # next => job'[k] = job[k]
        BY <1>5, <2>1 DEF Types
    <2> HIDE DEF j, next
    <2>3. \A r \in Slots : IsJob(r)' => job'[JobOf(r)'] = "active"
        BY <1>2, <2>1, <2>2, JobShape
    <2>4. \A r, t \in Slots : IsJob(r)' /\ IsJob(t)' /\ JobOf(r)' = JobOf(t)' => r = t
        BY <1>2 DEF Working
    <2>5. \A k \in Kinds \X Messages : job'[k] \in {"none", "waiting", "active"} => tries'[k] < MaxAttempts
        BY <1>5, <2>1, <2>2 DEF Working
    <2> QED BY <1>1, <1>5, <2>1, <2>2, <2>3, <2>4, <2>5 DEF JobTypes, Working, Types
<1> QED BY <1>1, <1>3, <1>4, <1>5 DEF Ends

\* Everything but the jobs and the tasks that carry them out.
Rest ==
    /\ day \in 1..MaxDays
    /\ row \in [Messages -> {"none", "stored", "gone"}]
    /\ summarised \subseteq Messages /\ embedded \subseteq Messages
    /\ meter \in Nat /\ bill \in Nat /\ escaped \in Nat
    /\ asked \in 0..MaxRequests
    /\ sweep \in [step : {"idle", "queue", "mark"}, list : SUBSET Messages]
    /\ backfilled \in BOOLEAN /\ looked \subseteq Messages
    /\ bought \in [Messages -> Int]
    /\ disturbed \in 0..MaxDisturbed

LEMMA TypesAre == Types <=> JobTypes /\ Rest
BY DEF Types, JobTypes, Rest

LEMMA DisturbTypes ==
    ASSUME Types, NEW kind, Disturb(kind)
    PROVE  disturbed' \in 0..MaxDisturbed
BY CallDisturbances DEF Types, Disturb

LEMMA LoseTypes ==
    ASSUME Types, NEW s \in Slots, Lose(s) \/ escaped' = escaped + 1 \/ UNCHANGED escaped
    PROVE  escaped' \in Nat
BY DEF Types, Lose

LEMMA BoughtTypes ==
    ASSUME Types, NEW s \in Slots, NEW k \in {1, -1},
           \/ UNCHANGED bought
           \/ bought' = [bought EXCEPT ![slot[s].of] = @ + k]
    PROVE  bought' \in [Messages -> Int]
BY DEF Types

LEMMA WorkRest ==
    ASSUME Base, NEW s \in Slots, Work(s)
    PROVE  Rest' /\ UNCHANGED <<row, sweep>>
<1>1. Types /\ Rest /\ Fits /\ ~At(s, "idle")
    BY WorkIs, TypesAre DEF Base
<1>2. slot[s].of \in Messages /\ slot[s].cost \in Nat
    BY <1>1, AtStep, CallBounds
<1>3. CASE FindStored(s) \/ AssertAffordable(s) \/ FindForAnalysis(s)
    <2>1. UNCHANGED <<day, row, summarised, embedded, meter, asked, sweep, backfilled, looked, bill, escaped, bought, disturbed>>
        BY <1>3 DEF FindStored, AssertAffordable, FindForAnalysis, mailVars, sweepVars, costVars
    <2> QED BY <1>1, <2>1 DEF Rest
<1>4. CASE ProceedUnchecked(s)
    <2>1. UNCHANGED <<day, row, summarised, embedded, meter, asked, sweep, backfilled, looked, bill, bought>>
        BY <1>4 DEF ProceedUnchecked, mailVars, sweepVars
    <2>2. disturbed' \in 0..MaxDisturbed /\ escaped' \in Nat
        BY <1>1, <1>4, DisturbTypes, LoseTypes DEF ProceedUnchecked
    <2> QED BY <1>1, <2>1, <2>2 DEF Rest
<1>5. CASE Answered(s)
    <2>1. UNCHANGED <<day, row, summarised, embedded, meter, asked, sweep, backfilled, looked, escaped>>
        BY <1>5 DEF Answered, mailVars, sweepVars
    <2>2. disturbed' \in 0..MaxDisturbed
        <3>1. disturbed' = disturbed \/ \E reply \in Strange(s) : Disturb(reply)
            BY <1>5 DEF Answered
        <3> QED BY <1>1, <3>1, DisturbTypes DEF Rest
    <2>3. bill' \in Nat
        BY <1>1, <1>5 DEF Answered, Rest
    <2>4. bought' \in [Messages -> Int]
        <3>1. bought' = bought \/ bought' = [bought EXCEPT ![slot[s].of] = @ + 1]
            BY <1>5 DEF Answered
        <3> QED BY <1>1, <3>1, BoughtTypes
    <2> QED BY <1>1, <2>1, <2>2, <2>3, <2>4 DEF Rest
<1>6. CASE Discarded(s)
    <2>1. UNCHANGED <<day, row, summarised, embedded, meter, asked, sweep, backfilled, looked, bought>>
        BY <1>6 DEF Discarded, mailVars, sweepVars
    <2>2. PICK reply \in Strange(s), cost \in 1..MaxCost : Disturb(reply) /\ bill' = bill + cost
        BY <1>6 DEF Discarded
    <2>3. disturbed' \in 0..MaxDisturbed
        BY <1>1, <2>2, DisturbTypes
    <2>4. bill' \in Nat
        BY <1>1, <2>2 DEF Rest
    <2>5. escaped' \in Nat
        BY <1>1, <1>6, LoseTypes DEF Discarded
    <2> QED BY <1>1, <2>1, <2>3, <2>4, <2>5 DEF Rest
<1>7. CASE Refused(s)
    <2>1. UNCHANGED <<day, row, summarised, embedded, meter, asked, sweep, backfilled, looked, bill, escaped, bought>>
        BY <1>7 DEF Refused, mailVars, sweepVars, costVars
    <2>2. \E reply \in Strange(s) : Disturb(reply)
        BY <1>7 DEF Refused
    <2>3. disturbed' \in 0..MaxDisturbed
        BY <1>1, <2>2, DisturbTypes
    <2> QED BY <1>1, <2>1, <2>3 DEF Rest
<1>8. CASE Save(s)
    <2>1. UNCHANGED <<day, row, meter, asked, sweep, backfilled, looked, disturbed>>
        BY <1>8 DEF Save, sweepVars
    <2>2. CASE SaveEmbedding(s)
        <3>1. UNCHANGED <<summarised, bill, escaped, bought>> /\ embedded' \subseteq Messages
            BY <1>1, <1>2, <2>2 DEF SaveEmbedding, costVars, Rest
        <3> QED BY <1>1, <2>1, <3>1 DEF Rest
    <2>3. CASE SaveAnalysis(s)
        <3>1. UNCHANGED <<embedded, bill, bought>> /\ summarised' \subseteq Messages
            BY <1>1, <1>2, <2>3 DEF SaveAnalysis, costVars, Rest
        <3>2. escaped' \in Nat
            <4>1. Lose(s) \/ UNCHANGED escaped
                BY <2>3 DEF SaveAnalysis, costVars
            <4> QED BY <1>1, <4>1, LoseTypes
        <3> QED BY <1>1, <2>1, <3>1, <3>2 DEF Rest
    <2> QED BY <1>8, <2>2, <2>3 DEF Save
<1>9. CASE RecordUsage(s)
    <2>1. UNCHANGED <<day, row, summarised, embedded, asked, sweep, backfilled, looked, bill, escaped, bought, disturbed>>
        BY <1>9 DEF RecordUsage, mailVars, sweepVars, costVars
    <2>2. meter' \in Nat
        BY <1>1, <1>2, <1>9 DEF RecordUsage, Rest
    <2> QED BY <1>1, <2>1, <2>2 DEF Rest
<1>10. CASE StepFails(s) \/ Crash(s)
    <2>1. UNCHANGED <<day, row, summarised, embedded, meter, asked, sweep, backfilled, looked, bill>>
        BY <1>10 DEF StepFails, Crash, mailVars, sweepVars
    <2>2. Lose(s) /\ Waste(s) /\ \E kind \in DisturbanceKinds : Disturb(kind)
        BY <1>10 DEF StepFails, Crash, DisturbanceKinds
    <2>3. disturbed' \in 0..MaxDisturbed /\ escaped' \in Nat
        BY <1>1, <2>2, DisturbTypes, LoseTypes
    <2>4. bought' \in [Messages -> Int]
        <3>1. bought' = bought \/ bought' = [bought EXCEPT ![slot[s].of] = @ - 1]
            BY <2>2 DEF Waste
        <3> QED BY <1>1, <3>1, BoughtTypes DEF Rest
    <2> QED BY <1>1, <2>1, <2>3, <2>4 DEF Rest
<1>11. CASE Notify(s) \/ QueueEmbedding(s)
    <2>1. UNCHANGED <<day, row, summarised, embedded, meter, asked, sweep, backfilled, looked, bill, escaped, bought>>
        BY <1>11 DEF Notify, QueueEmbedding, mailVars, sweepVars, costVars
    <2>2. UNCHANGED disturbed \/ Disturb("redis")
        BY <1>11 DEF Notify, QueueEmbedding
    <2>3. disturbed' \in 0..MaxDisturbed
        BY <1>1, <2>2, DisturbTypes DEF Rest
    <2> QED BY <1>1, <2>1, <2>3 DEF Rest
<1> QED BY <1>3, <1>4, <1>5, <1>6, <1>7, <1>8, <1>9, <1>10, <1>11 DEF Work

LEMMA WorkBase ==
    ASSUME Base, NEW s \in Slots, Work(s)
    PROVE  Base'
<1>1. Types /\ Fits /\ Working /\ Found /\ ~At(s, "idle")
    BY WorkIs DEF Base
<1>2. Rest' /\ UNCHANGED <<row, sweep>>
    BY WorkRest
<1>3. row[slot[s].of] # "none" /\ slot[s].of \in Messages
    BY <1>1, AtStep DEF Found
<1>4. /\ JobTypes' /\ Fits' /\ Working'
      /\ \A r \in Slots : r # s => slot'[r] = slot[r]
      /\ slot'[s].step = "idle" \/ slot'[s].of = slot[s].of
      /\ \A j \in Kinds \X Messages : job'[j] # "none" /\ job[j] = "none" => j[2] = slot[s].of
    <2>1. CASE Stays(s)
        <3>1. UNCHANGED job
            BY <2>1 DEF Stays, queueVars
        <3> QED BY <1>1, <2>1, <3>1, StaysKeeps
    <2>2. CASE Ends(s)
        BY <1>1, <2>2, EndsKeeps, IdleFits
    <2>3. CASE slot[s].task \in Queries /\ Onwards(s)
        <3>1. UNCHANGED job
            BY <2>3 DEF Onwards, queueVars
        <3> QED BY <1>1, <2>3, <3>1, OnwardsKeeps, IdleFits, DoingIs
    <2> QED BY <1>1, <2>1, <2>2, <2>3, WorkIs
<1>5. \A j \in Kinds \X Messages : job'[j] # "none" => row'[j[2]] # "none"
    BY <1>1, <1>2, <1>3, <1>4 DEF Found
<1>6. \A r \in Slots : ~At(r, "idle")' => row'[slot'[r].of] # "none"
    BY <1>1, <1>2, <1>3, <1>4 DEF Found, At
<1>7. \A m \in sweep'.list : row'[m] # "none"
    BY <1>1, <1>2 DEF Found
<1> QED BY <1>2, <1>4, <1>5, <1>6, <1>7, TypesAre DEF Base, Found, Types, JobTypes, Rest

LEMMA StartBase ==
    ASSUME Base, NEW s \in Slots, Start(s)
    PROVE  /\ Base' /\ At(s, "idle") /\ \A r \in Slots : r # s => slot'[r] = slot[r]
           /\ \E step, task, of : Starts(task, step) /\ slot'[s] = Doing(step, task, of, 0)
<1>1. Types /\ Fits /\ Working /\ Found /\ Rest
    BY TypesAre DEF Base
<1>2. 0 \in 0..MaxCost /\ ~(0 > 0)
    BY CallBounds
<1>3. ASSUME NEW j \in Kinds \X Messages, TakeJob(s, j)
      PROVE  /\ Base' /\ \A r \in Slots : r # s => slot'[r] = slot[r]
             /\ \E step, task, of : Starts(task, step) /\ slot'[s] = Doing(step, task, of, 0)
    <2>1. PICK step : /\ Starts(j[1], step)
                      /\ slot' = [slot EXCEPT ![s] = Doing(step, j[1], j[2], 0)]
        BY <1>1, <1>3, TakeJobIs
    <2>2. /\ j[1] \in Kinds /\ j[2] \in Messages /\ row[j[2]] # "none"
          /\ job[j] = "waiting" /\ job' = [job EXCEPT ![j] = "active"]
        BY <1>1, <1>3, TakeJobIs
    <2>3. /\ UNCHANGED <<day, row, summarised, embedded, tries, meter, asked, sweep, backfilled, looked, bill, escaped, bought, disturbed>>
        BY <1>3 DEF TakeJob, mailVars, sweepVars, costVars
    <2>4. Doing(step, j[1], j[2], 0) \in Task /\ Fit(Doing(step, j[1], j[2], 0))
        BY <1>2, <2>1, <2>2, DoingFits DEF Starts
    <2>5. /\ slot' \in [Slots -> Task] /\ Fits'
          /\ slot'[s] = Doing(step, j[1], j[2], 0) /\ \A r \in Slots : r # s => slot'[r] = slot[r]
        BY <1>1, <2>1, <2>4, SlotsFit
    <2>6. slot'[s].task = j[1] /\ slot'[s].of = j[2]
        BY <2>5, DoingIs
    <2>7. /\ job' \in [Kinds \X Messages -> {"none", "waiting", "active", "done", "dead"}]
          /\ job'[j] = "active" /\ \A k \in Kinds \X Messages : k # j => job'[k] = job[k]
        BY <1>1, <2>2 DEF Types
    <2>8. \A r \in Slots : JobOf(r)' = (IF r = s THEN j ELSE JobOf(r)) /\ (IsJob(r)' <=> r = s \/ IsJob(r))
        <3>1. <<j[1], j[2]>> = j
            OBVIOUS
        <3> QED BY <2>2, <2>5, <2>6, <3>1 DEF JobOf, IsJob
    <2>9. \A r \in Slots : r # s /\ IsJob(r) => JobOf(r) # j /\ JobOf(r) \in Kinds \X Messages
        <3>1. \A r \in Slots : IsJob(r) => job[JobOf(r)] = "active" /\ JobOf(r) \in Kinds \X Messages
            BY <1>1, JobShape
        <3> QED BY <2>2, <3>1
    <2>10. Working'
        <3>1. \A r \in Slots : IsJob(r)' => job'[JobOf(r)'] = "active"
            BY <1>1, <2>7, <2>8, <2>9 DEF Working
        <3>2. \A r, t \in Slots : IsJob(r)' /\ IsJob(t)' /\ JobOf(r)' = JobOf(t)' => r = t
            BY <1>1, <2>8, <2>9 DEF Working
        <3>3. \A k \in Kinds \X Messages : job'[k] \in {"none", "waiting", "active"} => tries'[k] < MaxAttempts
            BY <1>1, <2>2, <2>3, <2>7 DEF Working
        <3> QED BY <3>1, <3>2, <3>3 DEF Working
    <2>11. Found'
        <3>1. \A k \in Kinds \X Messages : job'[k] # "none" => row'[k[2]] # "none"
            BY <1>1, <2>2, <2>3, <2>7 DEF Found
        <3>2. \A r \in Slots : ~At(r, "idle")' => row'[slot'[r].of] # "none"
            BY <1>1, <2>2, <2>3, <2>5, <2>6 DEF Found, At
        <3>3. \A m \in sweep'.list : row'[m] # "none"
            BY <1>1, <2>3 DEF Found
        <3> QED BY <3>1, <3>2, <3>3 DEF Found
    <2>12. Types'
        BY <1>1, <2>3, <2>5, <2>7 DEF Types
    <2> QED BY <2>1, <2>5, <2>10, <2>11, <2>12 DEF Base
<1>4. ASSUME NEW request \in Requested, NEW m \in Messages, Ask(s, request, m)
      PROVE  /\ Base' /\ \A r \in Slots : r # s => slot'[r] = slot[r]
             /\ \E step, task, of : Starts(task, step) /\ slot'[s] = Doing(step, task, of, 0)
    <2>1. PICK task \in Requests : \E step : Starts(task, step) /\ slot' = [slot EXCEPT ![s] = Doing(step, task, m, 0)]
        BY <1>1, <1>4, AskIs
    <2>0. PICK step : Starts(task, step) /\ slot' = [slot EXCEPT ![s] = Doing(step, task, m, 0)]
        BY <2>1
    <2>2. row[m] # "none" /\ UNCHANGED <<job, tries>>
        BY <1>1, <1>4, AskIs DEF queueVars
    <2>3. /\ UNCHANGED <<day, row, summarised, embedded, meter, sweep, backfilled, looked, bill, escaped, bought, disturbed>>
          /\ asked < MaxRequests /\ asked' = asked + 1
        BY <1>4 DEF Ask, mailVars, sweepVars, costVars
    <2>4. Doing(step, task, m, 0) \in Task /\ Fit(Doing(step, task, m, 0))
        BY <1>2, <2>0, DoingFits DEF Starts
    <2>5. /\ slot' \in [Slots -> Task] /\ Fits'
          /\ slot'[s] = Doing(step, task, m, 0) /\ \A r \in Slots : r # s => slot'[r] = slot[r]
        BY <1>1, <2>0, <2>4, SlotsFit
    <2>6. slot'[s].task = task /\ slot'[s].of = m /\ task \notin Kinds
        BY <2>0, <2>5, DoingIs DEF Kinds, Requests
    <2>7. \A r \in Slots : IsJob(r)' => IsJob(r) /\ JobOf(r)' = JobOf(r)
        BY <2>5, <2>6 DEF IsJob, JobOf
    <2>8. Working'
        BY <1>1, <2>2, <2>7 DEF Working
    <2>9. Found'
        <3>1. \A r \in Slots : ~At(r, "idle")' => row'[slot'[r].of] # "none"
            BY <1>1, <2>2, <2>3, <2>5, <2>6 DEF Found, At
        <3> QED BY <1>1, <2>2, <2>3, <3>1 DEF Found
    <2>10. Types'
        <3>1. asked' \in 0..MaxRequests
            BY <1>1, <2>3, CallBounds DEF Types
        <3> QED BY <1>1, <2>2, <2>3, <2>5, <3>1 DEF Types
    <2> QED BY <2>0, <2>5, <2>8, <2>9, <2>10 DEF Base
<1>5. At(s, "idle")
    BY DEF Start, TakeJob, Ask
<1> QED BY <1>3, <1>4, <1>5 DEF Start

\* A job that is queued is one about a message there is.
LEMMA EnqueueKeeps ==
    ASSUME Types, Fits, Working, NEW j \in Kinds \X Messages, Enqueue(j), UNCHANGED <<tries, slot>>
    PROVE  /\ JobTypes' /\ Working'
           /\ \A k \in Kinds \X Messages : job'[k] # "none" => job[k] # "none" \/ k = j
<1>1. UNCHANGED job \/ (job[j] = "none" /\ job' = [job EXCEPT ![j] = "waiting"])
    BY DEF Enqueue
<1>2. /\ job' \in [Kinds \X Messages -> {"none", "waiting", "active", "done", "dead"}]
      /\ \A k \in Kinds \X Messages : job'[k] = job[k] \/ (job[k] = "none" /\ job'[k] = "waiting" /\ k = j)
    BY <1>1 DEF Types
<1>3. \A r \in Slots : (IsJob(r)' <=> IsJob(r)) /\ JobOf(r)' = JobOf(r)
    BY DEF IsJob, JobOf
<1>4. \A r \in Slots : IsJob(r)' => job'[JobOf(r)'] = "active"
    <2>1. \A r \in Slots : IsJob(r) => job[JobOf(r)] = "active" /\ JobOf(r) \in Kinds \X Messages
        BY JobShape
    <2> QED BY <1>2, <1>3, <2>1
<1>5. \A k \in Kinds \X Messages : job'[k] \in {"none", "waiting", "active"} => tries'[k] < MaxAttempts
    BY <1>2 DEF Working
<1> QED BY <1>2, <1>3, <1>4, <1>5 DEF Working, JobTypes, Types

LEMMA OtherBase ==
    ASSUME Base, Come \/ Midnight \/ Backfill
    PROVE  Base' /\ UNCHANGED slot
<1>1. Types /\ Fits /\ Working /\ Found /\ JobTypes /\ Rest
    BY TypesAre DEF Base
<1>2. UNCHANGED slot
    BY DEF Come, Arrive, Purge, Forget, Midnight, Backfill, Look, QueueBackfill, MarkBackfilled
<1>3. Fits' /\ (UNCHANGED <<job, tries>> => Working' /\ JobTypes')
    BY <1>1, <1>2 DEF Fits, Working, JobTypes, IsJob, JobOf
<1>4. ASSUME NEW m \in Messages, Arrive(m) PROVE Base'
    <2>1. /\ row[m] = "none" /\ row' = [row EXCEPT ![m] = "stored"] /\ Enqueue(<<"analyse", m>>) /\ UNCHANGED tries
          /\ UNCHANGED <<day, summarised, embedded, meter, asked, sweep, backfilled, looked, bill, escaped, bought, disturbed>>
        BY <1>4 DEF Arrive, sweepVars, costVars
    <2>2. <<"analyse", m>> \in Kinds \X Messages
        BY DEF Kinds
    <2>3. /\ JobTypes' /\ Working'
          /\ \A k \in Kinds \X Messages : job'[k] # "none" => job[k] # "none" \/ k = <<"analyse", m>>
        BY <1>1, <1>2, <2>1, <2>2, EnqueueKeeps
    <2>4. /\ row' \in [Messages -> {"none", "stored", "gone"}] /\ row'[m] = "stored"
          /\ \A n \in Messages : n # m => row'[n] = row[n]
        BY <1>1, <2>1 DEF Rest
    <2>5. Rest'
        BY <1>1, <2>1, <2>4 DEF Rest
    <2>6. \A k \in Kinds \X Messages : job'[k] # "none" => row'[k[2]] # "none"
        <3>1. \A k \in Kinds \X Messages : k[2] \in Messages
            OBVIOUS
        <3>2. <<"analyse", m>>[2] = m
            OBVIOUS
        <3> QED BY <1>1, <2>3, <2>4, <3>1, <3>2 DEF Found
    <2>7. \A r \in Slots : ~At(r, "idle")' => row'[slot'[r].of] # "none"
        <3>1. \A r \in Slots : ~At(r, "idle") => slot[r].of \in Messages
            BY <1>1, AtStep
        <3> QED BY <1>1, <1>2, <2>4, <3>1 DEF Found, At
    <2>8. \A n \in sweep'.list : row'[n] # "none"
        <3>1. sweep.list \subseteq Messages
            BY <1>1 DEF Rest
        <3> QED BY <1>1, <2>1, <2>4, <3>1 DEF Found
    <2> QED BY <1>3, <2>3, <2>5, <2>6, <2>7, <2>8, TypesAre DEF Base, Found, Types, JobTypes, Rest
<1>5. ASSUME NEW m \in Messages, Purge(m) PROVE Base'
    <2>1. /\ row' = [row EXCEPT ![m] = "gone"] /\ UNCHANGED <<job, tries>>
          /\ summarised' = summarised \ {m} /\ embedded' = embedded \ {m}
          /\ UNCHANGED <<day, meter, asked, sweep, backfilled, looked, bill, escaped, bought, disturbed>>
        BY <1>5 DEF Purge, sweepVars, costVars, queueVars
    <2>2. /\ row' \in [Messages -> {"none", "stored", "gone"}] /\ row'[m] = "gone"
          /\ \A n \in Messages : n # m => row'[n] = row[n]
        BY <1>1, <2>1 DEF Rest
    <2>3. Rest'
        BY <1>1, <2>1, <2>2 DEF Rest
    <2>4. \A n \in Messages : row[n] # "none" => row'[n] # "none"
        BY <2>2
    <2>5. \A k \in Kinds \X Messages : job'[k] # "none" => row'[k[2]] # "none"
        <3>1. \A k \in Kinds \X Messages : k[2] \in Messages
            OBVIOUS
        <3> QED BY <1>1, <2>1, <2>4, <3>1 DEF Found
    <2>6. \A r \in Slots : ~At(r, "idle")' => row'[slot'[r].of] # "none"
        <3>1. \A r \in Slots : ~At(r, "idle") => slot[r].of \in Messages
            BY <1>1, AtStep
        <3> QED BY <1>1, <1>2, <2>4, <3>1 DEF Found, At
    <2>7. \A n \in sweep'.list : row'[n] # "none"
        <3>1. sweep.list \subseteq Messages
            BY <1>1 DEF Rest
        <3> QED BY <1>1, <2>1, <2>4, <3>1 DEF Found
    <2> QED BY <1>3, <2>1, <2>3, <2>5, <2>6, <2>7 DEF Base, Found, Types, JobTypes, Rest
<1>6. ASSUME NEW j \in Kinds \X Messages, Forget(j) PROVE Base'
    <2>1. /\ job[j] \in {"done", "dead"} /\ job' = [job EXCEPT ![j] = "none"] /\ tries' = [tries EXCEPT ![j] = 0]
          /\ UNCHANGED <<day, row, summarised, embedded, meter, asked, sweep, backfilled, looked, bill, escaped, bought>>
        BY <1>6 DEF Forget, mailVars, sweepVars, costVars
    <2>2. disturbed' \in 0..MaxDisturbed
        BY <1>1, <1>6, DisturbTypes DEF Forget
    <2>3. /\ job' \in [Kinds \X Messages -> {"none", "waiting", "active", "done", "dead"}]
          /\ job'[j] = "none" /\ \A k \in Kinds \X Messages : k # j => job'[k] = job[k]
        BY <1>1, <2>1 DEF JobTypes
    <2>4. /\ tries' \in [Kinds \X Messages -> 0..MaxAttempts]
          /\ tries'[j] = 0 /\ \A k \in Kinds \X Messages : k # j => tries'[k] = tries[k]
        BY <1>1, <2>1, CallBounds DEF JobTypes
    <2>5. \A r \in Slots : IsJob(r)' => IsJob(r) /\ JobOf(r)' = JobOf(r)
        BY <1>2 DEF IsJob, JobOf
    <2>6. \A r \in Slots : IsJob(r)' => job'[JobOf(r)'] = "active"
        <3>1. \A r \in Slots : IsJob(r) => job[JobOf(r)] = "active" /\ JobOf(r) \in Kinds \X Messages
            BY <1>1, JobShape
        <3> QED BY <2>1, <2>3, <2>5, <3>1
    <2>7. \A k \in Kinds \X Messages : job'[k] \in {"none", "waiting", "active"} => tries'[k] < MaxAttempts
        BY <1>1, <2>3, <2>4, CallBounds DEF Working
    <2>8. Working'
        <3>1. \A r, t \in Slots : IsJob(r)' /\ IsJob(t)' /\ JobOf(r)' = JobOf(t)' => r = t
            BY <1>1, <2>5 DEF Working
        <3> QED BY <2>6, <2>7, <3>1 DEF Working
    <2>9. Found'
        BY <1>1, <1>2, <2>1, <2>3 DEF Found, At
    <2> QED BY <1>1, <1>2, <1>3, <2>1, <2>2, <2>3, <2>4, <2>8, <2>9 DEF Base, Types
<1>7. CASE Midnight
    <2>1. /\ day' = day + 1 /\ day < MaxDays /\ meter' = 0 /\ bill' = 0 /\ UNCHANGED <<job, tries>>
          /\ UNCHANGED <<row, summarised, embedded, asked, sweep, backfilled, looked, escaped, bought, disturbed>>
        BY <1>7 DEF Midnight, mailVars, sweepVars, queueVars
    <2>2. day' \in 1..MaxDays
        BY <1>1, <2>1, CallBounds DEF Rest
    <2>3. Rest'
        BY <1>1, <2>1, <2>2 DEF Rest
    <2> QED BY <1>1, <1>2, <1>3, <2>1, <2>3 DEF Base, Found, At, Types, JobTypes, Rest
<1>8. ASSUME NEW list \in SUBSET Messages, Look(list) PROVE Base'
    <2>1. /\ sweep' = [step |-> IF list = {} THEN "mark" ELSE "queue", list |-> list] /\ list \subseteq Stored \ embedded
          /\ looked' = Stored /\ UNCHANGED <<job, tries>>
          /\ UNCHANGED <<day, row, summarised, embedded, meter, asked, backfilled, bill, escaped, bought, disturbed>>
        BY <1>8 DEF Look, FindUnembedded, mailVars, queueVars, costVars
    <2>2. Rest'
        <3>1. sweep' \in [step : {"idle", "queue", "mark"}, list : SUBSET Messages] /\ looked' \subseteq Messages
            BY <2>1 DEF Stored
        <3> QED BY <1>1, <2>1, <3>1 DEF Rest
    <2>3. \A m \in sweep'.list : row'[m] # "none"
        BY <2>1 DEF Stored
    <2> QED BY <1>1, <1>2, <1>3, <2>1, <2>2, <2>3 DEF Base, Found, At, Types, JobTypes, Rest
<1>9. ASSUME NEW m \in Messages, QueueBackfill(m) PROVE Base'
    <2>1. /\ m \in sweep.list /\ UNCHANGED tries
          /\ UNCHANGED <<day, row, summarised, embedded, meter, asked, backfilled, looked, bill, escaped, bought>>
        BY <1>9 DEF QueueBackfill, mailVars, costVars
    <2>2. sweep' \in [step : {"idle", "queue", "mark"}, list : SUBSET Messages] /\ sweep'.list \subseteq sweep.list
        <3>1. sweep.list \subseteq Messages
            BY <1>1 DEF Rest
        <3> QED BY <1>9, <3>1 DEF QueueBackfill
    <2>3. disturbed' \in 0..MaxDisturbed
        <3>1. UNCHANGED disturbed \/ Disturb("redis")
            BY <1>9 DEF QueueBackfill
        <3> QED BY <1>1, <3>1, DisturbTypes DEF Rest
    <2>4. Rest'
        BY <1>1, <2>1, <2>2, <2>3 DEF Rest
    <2>5. <<"embed", m>> \in Kinds \X Messages /\ <<"embed", m>>[2] = m
        BY DEF Kinds
    <2>6. /\ JobTypes' /\ Working'
          /\ \A k \in Kinds \X Messages : job'[k] # "none" => job[k] # "none" \/ k = <<"embed", m>>
        <3>1. CASE Enqueue(<<"embed", m>>)
            BY <1>1, <1>2, <2>1, <2>5, <3>1, EnqueueKeeps
        <3>2. CASE UNCHANGED job
            BY <1>3, <2>1, <3>2
        <3> QED BY <1>9, <3>1, <3>2 DEF QueueBackfill
    <2>7. Found'
        BY <1>1, <1>2, <2>1, <2>2, <2>5, <2>6 DEF Found, At
    <2> QED BY <1>3, <2>4, <2>6, <2>7 DEF Base, Types, JobTypes, Rest
<1>10. CASE MarkBackfilled
    <2>1. /\ sweep' = [step |-> "idle", list |-> {}] /\ backfilled' = TRUE /\ UNCHANGED <<job, tries>>
          /\ UNCHANGED <<day, row, summarised, embedded, meter, asked, looked, bill, escaped, bought, disturbed>>
        BY <1>10 DEF MarkBackfilled, mailVars, queueVars, costVars
    <2>2. Rest' /\ sweep'.list = {}
        BY <1>1, <2>1 DEF Rest
    <2> QED BY <1>1, <1>2, <1>3, <2>1, <2>2 DEF Base, Found, At, Types, JobTypes, Rest
<1> QED BY <1>2, <1>4, <1>5, <1>6, <1>7, <1>8, <1>9, <1>10 DEF Come, Backfill

LEMMA BaseInit == Init => Base
<1> SUFFICES ASSUME Init PROVE Base
    OBVIOUS
<1>1. \A s \in Slots : slot[s] = Idle
    BY IdleFits DEF Init
<1>2. \A s \in Slots : ~IsJob(s) /\ At(s, "idle")
    BY <1>1, IdleFits DEF IsJob, At
<1>3. Types
    <2>1. slot \in [Slots -> Task]
        BY IdleFits DEF Init
    <2>2. /\ job \in [Kinds \X Messages -> {"none", "waiting", "active", "done", "dead"}]
          /\ tries \in [Kinds \X Messages -> 0..MaxAttempts]
        BY CallBounds DEF Init
    <2>3. /\ row \in [Messages -> {"none", "stored", "gone"}] /\ summarised \subseteq Messages /\ embedded \subseteq Messages
          /\ bought \in [Messages -> Int] /\ looked \subseteq Messages
        BY DEF Init
    <2>4. /\ day \in 1..MaxDays /\ meter \in Nat /\ bill \in Nat /\ escaped \in Nat
          /\ asked \in 0..MaxRequests /\ disturbed \in 0..MaxDisturbed
        BY CallBounds, CallDisturbances DEF Init
    <2>5. sweep \in [step : {"idle", "queue", "mark"}, list : SUBSET Messages] /\ backfilled \in BOOLEAN
        BY DEF Init
    <2> QED BY <2>1, <2>2, <2>3, <2>4, <2>5 DEF Types
<1>4. Fits /\ Working /\ Found
    BY <1>1, <1>2, CallBounds DEF Init, Fits, Fit, Working, Found
<1> QED BY <1>3, <1>4 DEF Base

LEMMA BaseNext == Base /\ [Next]_vars => Base'
<1> SUFFICES ASSUME Base, [Next]_vars PROVE Base'
    OBVIOUS
<1>1. CASE Next
    BY <1>1, WorkBase, StartBase, OtherBase DEF Next
<1>2. CASE UNCHANGED vars
    BY <1>2 DEF vars, mailVars, queueVars, sweepVars, costVars, Base, Types, Fits, Working, Found, IsJob, JobOf, At
<1> QED BY <1>1, <1>2

-----------------------------------------------------------------------------
(***************************************************************************)
(* An embedding is paid for once.                                          *)
(***************************************************************************)
Buying(s, m, steps) == slot[s].task = "embed" /\ slot[s].of = m /\ slot[s].step \in steps

\* What was bought is stored, or about to be, or its message is gone; and who is
\* about to buy has seen that there is none.
Paid(m) ==
    /\ bought[m] \in {0, 1}
    /\ bought[m] = 1 => m \in embedded \/ row[m] = "gone" \/ \E s \in Slots : Buying(s, m, {"save"})
    /\ \A s \in Slots : Buying(s, m, {"budget", "read", "call"}) => m \notin embedded
    /\ \A s \in Slots : Buying(s, m, {"call"}) => bought[m] = 0
    /\ \A s \in Slots : Buying(s, m, {"save"}) => bought[m] = 1
PaidOnce == \A m \in Messages : Paid(m)

LEMMA AdvanceTo ==
    ASSUME Types, Fits, NEW s \in Slots, slot[s].step \in {"has", "budget", "read", "save"}, Advance(s)
    PROVE  /\ slot'[s].step = Leads(slot[s].task, slot[s].step)
           /\ slot'[s].task = slot[s].task /\ slot'[s].of = slot[s].of /\ slot'[s].cost = slot[s].cost
<1>1. slot' = [slot EXCEPT ![s] = Doing(Leads(slot[s].task, slot[s].step), slot[s].task, slot[s].of, slot[s].cost)]
    BY AdvanceIs
<1>2. slot'[s] = Doing(Leads(slot[s].task, slot[s].step), slot[s].task, slot[s].of, slot[s].cost)
    BY <1>1, SlotTypes
<1> QED BY <1>2, DoingIs

\* Where the job of an embedding has come to.
EmbeddingAt(s, step) == slot'[s].task = "embed" /\ slot'[s].of = slot[s].of /\ slot'[s].step = step

\* What that job does: it looks, it is let through, it finds the message, it
\* buys, it stores, it loses what it bought, or it ends.
LEMMA EmbedSteps ==
    ASSUME Base, NEW s \in Slots, Work(s), slot[s].task = "embed"
    PROVE  \/ /\ At(s, "has") /\ slot[s].of \notin embedded /\ EmbeddingAt(s, "budget")
              /\ UNCHANGED <<bought, embedded>>
           \/ At(s, "budget") /\ EmbeddingAt(s, "read") /\ UNCHANGED <<bought, embedded>>
           \/ /\ At(s, "read") /\ row[slot[s].of] = "stored" /\ EmbeddingAt(s, "call")
              /\ UNCHANGED <<bought, embedded>>
           \/ /\ At(s, "call") /\ EmbeddingAt(s, "save") /\ UNCHANGED embedded
              /\ bought' = [bought EXCEPT ![slot[s].of] = @ + 1]
           \/ /\ At(s, "save") /\ EmbeddingAt(s, "record") /\ UNCHANGED bought
              /\ embedded' = IF row[slot[s].of] = "stored" THEN embedded \cup {slot[s].of} ELSE embedded
           \/ /\ At(s, "save") /\ slot'[s] = Idle /\ UNCHANGED embedded
              /\ bought' = [bought EXCEPT ![slot[s].of] = @ - 1]
           \/ ~At(s, "save") /\ slot'[s] = Idle /\ UNCHANGED <<bought, embedded>>
<1>1. /\ Types /\ Fits /\ ~At(s, "idle") /\ IsJob(s)
      /\ StepOfTask(slot[s].task, slot[s].step) /\ slot[s].task \notin Queries
    BY WorkIs, AtStep DEF Base, IsJob, Kinds, Queries
<1>2. \A t : slot' = [slot EXCEPT ![s] = t] => slot'[s] = t
    BY <1>1, SlotTypes
<1>3. ASSUME Complete(s) \/ Fail(s, TRUE) \/ Fail(s, FALSE) \/ Free(s) PROVE slot'[s] = Idle
    BY <1>1, <1>2, <1>3 DEF Complete, Fail, FailJob, Free
<1>4. CASE FindStored(s)
    <2>1. At(s, "has") /\ UNCHANGED <<bought, embedded>>
        BY <1>4 DEF FindStored, mailVars, costVars
    <2>2. CASE Complete(s)
        BY <1>3, <2>1, <2>2 DEF At
    <2>3. CASE ~Has(s) /\ Advance(s)
        <3>1. EmbeddingAt(s, "budget")
            BY <1>1, <2>1, <2>3, AdvanceTo DEF EmbeddingAt, At, Leads
        <3> QED BY <2>1, <2>3, <3>1 DEF Has
    <2> QED BY <1>4, <2>2, <2>3 DEF FindStored
<1>5. CASE AssertAffordable(s) \/ ProceedUnchecked(s)
    <2>1. At(s, "budget") /\ UNCHANGED <<bought, embedded>>
        BY <1>5 DEF AssertAffordable, ProceedUnchecked, mailVars, costVars
    <2>2. CASE Complete(s)
        BY <1>3, <2>1, <2>2 DEF At
    <2>3. CASE Advance(s)
        <3>1. EmbeddingAt(s, "read")
            BY <1>1, <2>1, <2>3, AdvanceTo DEF EmbeddingAt, At, Leads
        <3> QED BY <2>1, <3>1
    <2> QED BY <1>1, <1>5, <2>2, <2>3 DEF AssertAffordable, ProceedUnchecked, Skip
<1>6. CASE FindForAnalysis(s)
    <2>1. At(s, "read") /\ UNCHANGED <<bought, embedded>>
        BY <1>6 DEF FindForAnalysis, mailVars, costVars
    <2>2. CASE Complete(s)
        BY <1>3, <2>1, <2>2 DEF At
    <2>3. CASE row[slot[s].of] = "stored" /\ Advance(s)
        <3>1. EmbeddingAt(s, "call")
            BY <1>1, <2>1, <2>3, AdvanceTo DEF EmbeddingAt, At, Leads
        <3> QED BY <2>1, <2>3, <3>1
    <2> QED BY <1>6, <2>2, <2>3 DEF FindForAnalysis, Skip
<1>7. CASE Answered(s)
    <2>1. /\ At(s, "call") /\ UNCHANGED embedded /\ bought' = [bought EXCEPT ![slot[s].of] = @ + 1]
          /\ \E cost : GotoOwing(s, Following(s), cost)
        BY <1>1, <1>7 DEF Answered, Calling, mailVars, StepOfTask, At
    <2>2. Following(s) = "save"
        BY <1>1, <2>1, Follows DEF Leads, At
    <2>3. EmbeddingAt(s, "save")
        <3>1. PICK cost : slot' = [slot EXCEPT ![s] = Doing("save", slot[s].task, slot[s].of, cost)]
            BY <1>1, <2>1, <2>2, GotoOwingIs
        <3>2. slot'[s] = Doing("save", slot[s].task, slot[s].of, cost)
            BY <1>1, <3>1, SlotTypes
        <3> QED BY <3>2, DoingIs DEF EmbeddingAt
    <2> QED BY <2>1, <2>3
<1>8. CASE Discarded(s) \/ Refused(s)
    <2>1. ~At(s, "save") /\ UNCHANGED <<bought, embedded>>
        BY <1>8 DEF Discarded, Refused, Calling, At, mailVars, costVars
    <2>2. Fail(s, TRUE) \/ Fail(s, FALSE)
        BY <1>1, <1>8 DEF Discarded, Refused, CallFailed
    <2> QED BY <1>3, <2>1, <2>2
<1>9. CASE Save(s)
    <2>1. At(s, "save") /\ SaveEmbedding(s)
        BY <1>9 DEF Save
    <2>2. EmbeddingAt(s, "record")
        BY <1>1, <2>1, AdvanceTo DEF EmbeddingAt, At, Leads, SaveEmbedding
    <2> QED BY <2>1, <2>2 DEF SaveEmbedding, costVars
<1>10. CASE RecordUsage(s)
    <2>1. ~At(s, "save") /\ UNCHANGED <<bought, embedded>> /\ Complete(s)
        BY <1>1, <1>10 DEF RecordUsage, At, mailVars, costVars
    <2> QED BY <1>3, <2>1
<1>11. CASE StepFails(s) \/ Crash(s)
    <2>1. UNCHANGED embedded /\ Waste(s) /\ (Fail(s, TRUE) \/ Free(s))
        BY <1>1, <1>11 DEF StepFails, Crash, mailVars
    <2> QED BY <1>3, <2>1 DEF Waste
<1>12. CASE Notify(s)
    BY <1>1, <1>12 DEF Notify, At, StepOfTask
<1>13. CASE QueueEmbedding(s)
    <2>1. ~At(s, "save") /\ UNCHANGED <<bought, embedded>> /\ Free(s)
        BY <1>13 DEF QueueEmbedding, At, mailVars, costVars
    <2> QED BY <1>3, <2>1
<1> QED BY <1>4, <1>5, <1>6, <1>7, <1>8, <1>9, <1>10, <1>11, <1>12, <1>13 DEF Work

\* The other tasks buy and store no embedding.
LEMMA OtherTasks ==
    ASSUME Base, NEW s \in Slots, Work(s), slot[s].task # "embed"
    PROVE  UNCHANGED <<bought, embedded>> /\ slot'[s].task # "embed"
<1>1. UNCHANGED <<bought, embedded>>
    BY DEF Work, FindStored, AssertAffordable, ProceedUnchecked, FindForAnalysis, Answered, Discarded, Refused,
           Save, SaveAnalysis, RecordUsage, StepFails, Notify, QueueEmbedding, Crash, Waste, mailVars, costVars
<1>2. Types /\ Fits /\ Working /\ ~At(s, "idle")
    BY WorkIs DEF Base
<1>3. CASE Stays(s)
    BY <1>1, <1>2, <1>3, StaysKeeps
<1>4. CASE Ends(s)
    BY <1>1, <1>2, <1>4, EndsKeeps, IdleFits DEF Kinds
<1>5. CASE slot[s].task \in Queries /\ Onwards(s)
    BY <1>1, <1>2, <1>5, OnwardsKeeps, IdleFits, DoingIs DEF Kinds
<1> QED BY <1>1, <1>2, <1>3, <1>4, <1>5, WorkIs DEF Base

\* A message about whose embedding nothing changes.
LEMMA PaidSame ==
    ASSUME NEW n \in Messages, Paid(n), bought'[n] = bought[n], row'[n] = row[n], n \in embedded' <=> n \in embedded,
           \A r \in Slots : \/ slot'[r] = slot[r]
                            \/ /\ ~(slot[r].task = "embed" /\ slot[r].of = n)
                               /\ ~(slot'[r].task = "embed" /\ slot'[r].of = n)
    PROVE  Paid(n)'
<1>1. \A r \in Slots : \A steps : Buying(r, n, steps)' <=> Buying(r, n, steps)
    BY DEF Buying
<1> QED BY <1>1 DEF Paid

LEMMA PaidWork ==
    ASSUME Base, PaidOnce, NEW s \in Slots, Work(s)
    PROVE  PaidOnce'
<1>1. Types /\ Fits /\ Working /\ Found /\ ~At(s, "idle") /\ UNCHANGED row
    BY WorkIs, WorkRest DEF Base
<1>2. \A r \in Slots : r # s => slot'[r] = slot[r]
    BY <1>1, WorkIs, StaysKeeps, EndsKeeps, OnwardsKeeps
<1>3. CASE slot[s].task # "embed"
    <2>1. UNCHANGED <<bought, embedded>> /\ slot'[s].task # "embed"
        BY <1>3, OtherTasks
    <2> SUFFICES ASSUME NEW n \in Messages PROVE Paid(n)'
        BY DEF PaidOnce
    <2> QED BY <1>1, <1>2, <1>3, <2>1, PaidSame DEF PaidOnce
<1>4. CASE slot[s].task = "embed"
    <2>0. PICK m \in Messages : m = slot[s].of
        BY <1>1, AtStep
    <2>1. /\ m \in Messages /\ IsJob(s) /\ row[m] \in {"stored", "gone"}
          /\ \A r \in Slots : r # s => ~(slot[r].task = "embed" /\ slot[r].of = m)
        <3>1. m \in Messages /\ IsJob(s) /\ row[m] # "none"
            BY <1>1, <1>4, <2>0 DEF IsJob, Kinds, Found
        <3>2. \A r \in Slots : r # s /\ IsJob(r) => JobOf(r) # JobOf(s)
            BY <1>1, <3>1, JobShape
        <3>3. \A r \in Slots : r # s => ~(slot[r].task = "embed" /\ slot[r].of = m)
            BY <1>4, <2>0, <3>2 DEF JobOf, IsJob, Kinds
        <3> QED BY <1>1, <3>1, <3>3 DEF Types
    <2>2. slot'[s].task = "embed" => slot'[s].of = m
        BY <1>4, <2>0, EmbedSteps, IdleFits DEF EmbeddingAt, Kinds
    <2>3. bought \in [Messages -> Int] /\ embedded \subseteq Messages
        BY <1>1 DEF Types
    <2>4. \A n \in Messages : n # m => bought'[n] = bought[n] /\ (n \in embedded' <=> n \in embedded)
        BY <1>4, <2>0, <2>1, <2>3, EmbedSteps
    <2>5. ASSUME NEW n \in Messages, n # m PROVE Paid(n)'
        BY <1>1, <1>2, <1>4, <2>0, <2>2, <2>4, <2>5, PaidSame DEF PaidOnce
    <2>6. Paid(m)'
        <3>1. Paid(m)
            BY <2>1 DEF PaidOnce
        <3>2. \A r \in Slots : slot[r].task = "embed" /\ slot[r].of = m => r = s
            BY <2>1
        <3>3. \A r \in Slots : slot'[r].task = "embed" /\ slot'[r].of = m => r = s
            BY <1>2, <2>1
        <3>4. row'[m] = row[m] /\ slot[s].of = m
            BY <1>1, <2>0
        <3>5. slot'[s] = Idle => slot'[s].task # "embed"
            BY IdleFits DEF Kinds
        <3>6. CASE At(s, "has") /\ m \notin embedded /\ EmbeddingAt(s, "budget") /\ UNCHANGED <<bought, embedded>>
            <4>1. ~\E r \in Slots : Buying(r, m, {"save"})
                BY <3>2, <3>6 DEF Buying, At
            <4> QED BY <3>1, <3>3, <3>4, <3>6, <4>1 DEF Paid, Buying, EmbeddingAt
        <3>7. CASE At(s, "budget") /\ EmbeddingAt(s, "read") /\ UNCHANGED <<bought, embedded>>
            <4>1. (~\E r \in Slots : Buying(r, m, {"save"})) /\ m \notin embedded
                BY <1>4, <3>1, <3>2, <3>4, <3>7 DEF Paid, Buying, At
            <4> QED BY <3>1, <3>3, <3>4, <3>7, <4>1 DEF Paid, Buying, EmbeddingAt
        <3>8. CASE At(s, "read") /\ row[m] = "stored" /\ EmbeddingAt(s, "call") /\ UNCHANGED <<bought, embedded>>
            <4>1. (~\E r \in Slots : Buying(r, m, {"save"})) /\ m \notin embedded
                BY <1>4, <3>1, <3>2, <3>4, <3>8 DEF Paid, Buying, At
            <4>2. bought[m] = 0
                BY <3>1, <3>8, <4>1 DEF Paid
            <4> QED BY <3>3, <3>4, <3>8, <4>1, <4>2 DEF Paid, Buying, EmbeddingAt
        <3>9. CASE At(s, "call") /\ EmbeddingAt(s, "save") /\ UNCHANGED embedded /\ bought' = [bought EXCEPT ![m] = @ + 1]
            <4>1. bought[m] = 0
                BY <1>4, <3>1, <3>4, <3>9 DEF Paid, Buying, At
            <4>2. bought'[m] = 1
                BY <2>1, <2>3, <3>9, <4>1
            <4>3. Buying(s, m, {"save"})'
                BY <3>4, <3>9 DEF Buying, EmbeddingAt
            <4> QED BY <3>3, <3>9, <4>2, <4>3 DEF Paid, Buying, EmbeddingAt
        <3>10. CASE /\ At(s, "save") /\ EmbeddingAt(s, "record") /\ UNCHANGED bought
                    /\ embedded' = IF row[m] = "stored" THEN embedded \cup {m} ELSE embedded
            <4>1. m \in embedded' \/ row'[m] = "gone"
                BY <2>1, <3>4, <3>10
            <4> QED BY <3>1, <3>3, <3>10, <4>1 DEF Paid, Buying, EmbeddingAt
        <3>11. CASE At(s, "save") /\ slot'[s] = Idle /\ UNCHANGED embedded /\ bought' = [bought EXCEPT ![m] = @ - 1]
            <4>1. bought[m] = 1
                BY <1>4, <3>1, <3>4, <3>11 DEF Paid, Buying, At
            <4>2. bought'[m] = 0
                BY <2>1, <2>3, <3>11, <4>1
            <4> QED BY <3>3, <3>5, <3>11, <4>2 DEF Paid, Buying
        <3>12. CASE ~At(s, "save") /\ slot'[s] = Idle /\ UNCHANGED <<bought, embedded>>
            <4>1. ~\E r \in Slots : Buying(r, m, {"save"})
                BY <3>2, <3>12 DEF Buying, At
            <4> QED BY <3>1, <3>3, <3>4, <3>5, <3>12, <4>1 DEF Paid, Buying
        <3> QED BY <1>4, <2>0, <3>6, <3>7, <3>8, <3>9, <3>10, <3>11, <3>12, EmbedSteps
    <2> QED BY <2>5, <2>6 DEF PaidOnce
<1> QED BY <1>3, <1>4

LEMMA PaidOther ==
    ASSUME Base, PaidOnce, Come \/ Midnight \/ Backfill \/ (\E s \in Slots : Start(s))
    PROVE  PaidOnce'
<1>1. Types /\ Fits /\ row \in [Messages -> {"none", "stored", "gone"}] /\ embedded \subseteq Messages
    BY DEF Base, Types
<1>2. ASSUME UNCHANGED <<bought, row, embedded, slot>> PROVE PaidOnce'
    BY <1>2, PaidSame DEF PaidOnce
<1>3. ASSUME NEW m \in Messages, Arrive(m) PROVE PaidOnce'
    <2>1. UNCHANGED <<bought, embedded, slot>> /\ row[m] = "none" /\ row' = [row EXCEPT ![m] = "stored"]
        BY <1>3 DEF Arrive, costVars
    <2>2. \A n \in Messages : (row'[n] = "gone") <=> (row[n] = "gone")
        BY <1>1, <2>1
    <2>3. \A r \in Slots : \A n, steps : Buying(r, n, steps)' <=> Buying(r, n, steps)
        BY <2>1 DEF Buying
    <2> QED BY <2>1, <2>2, <2>3 DEF PaidOnce, Paid
<1>4. ASSUME NEW m \in Messages, Purge(m) PROVE PaidOnce'
    <2>1. UNCHANGED <<bought, slot>> /\ row' = [row EXCEPT ![m] = "gone"] /\ embedded' = embedded \ {m}
        BY <1>4 DEF Purge, costVars
    <2>2. \A n \in Messages : row'[n] = (IF n = m THEN "gone" ELSE row[n]) /\ (n \in embedded' <=> n \in embedded /\ n # m)
        BY <1>1, <2>1
    <2>3. \A r \in Slots : \A n, steps : Buying(r, n, steps)' <=> Buying(r, n, steps)
        BY <2>1 DEF Buying
    <2> QED BY <2>1, <2>2, <2>3 DEF PaidOnce, Paid
<1>5. ASSUME NEW s \in Slots, Start(s) PROVE PaidOnce'
    <2>1. UNCHANGED <<bought, row, embedded>>
        BY <1>5 DEF Start, TakeJob, Ask, mailVars, costVars
    <2>2. /\ At(s, "idle") /\ \A r \in Slots : r # s => slot'[r] = slot[r]
          /\ \E step, task, of : Starts(task, step) /\ slot'[s] = Doing(step, task, of, 0)
        BY <1>5, StartBase
    <2>3. \A n : ~Buying(s, n, {"budget", "read", "call"}) /\ ~Buying(s, n, {"call"}) /\ ~Buying(s, n, {"save"})
        BY <2>2 DEF Buying, At
    <2>4. slot'[s].task = "embed" => slot'[s].step \in {"has", "queue"}
        <3>1. PICK step, task, of : Starts(task, step) /\ slot'[s] = Doing(step, task, of, 0)
            BY <2>2
        <3> QED BY <3>1, DoingIs DEF Starts, StepOfTask
    <2>5. \A n : ~Buying(s, n, {"budget", "read", "call"})' /\ ~Buying(s, n, {"call"})' /\ ~Buying(s, n, {"save"})'
        BY <2>4 DEF Buying
    <2>6. \A r \in Slots : \A n, steps : r # s => (Buying(r, n, steps)' <=> Buying(r, n, steps))
        BY <2>2 DEF Buying
    <2> QED BY <2>1, <2>3, <2>5, <2>6 DEF PaidOnce, Paid
<1>6. ASSUME Midnight \/ Backfill \/ (\E j \in Kinds \X Messages : Forget(j)) PROVE UNCHANGED <<bought, row, embedded, slot>>
    BY <1>6 DEF Midnight, Backfill, Look, QueueBackfill, MarkBackfilled, Forget, mailVars, costVars
<1> QED BY <1>2, <1>3, <1>4, <1>5, <1>6 DEF Come

LEMMA PaidInit == Init => PaidOnce
<1> SUFFICES ASSUME Init PROVE PaidOnce
    OBVIOUS
<1>1. \A s \in Slots : slot[s] = Idle
    BY DEF Init
<1>2. \A s \in Slots : \A n, steps : ~Buying(s, n, steps)
    BY <1>1, IdleFits DEF Buying, Kinds
<1>3. \A m \in Messages : bought[m] = 0
    BY DEF Init
<1> QED BY <1>2, <1>3 DEF PaidOnce, Paid

LEMMA PaidNext == Base /\ PaidOnce /\ [Next]_vars => PaidOnce'
<1> SUFFICES ASSUME Base, PaidOnce, [Next]_vars PROVE PaidOnce'
    OBVIOUS
<1>1. CASE Next
    BY <1>1, PaidWork, PaidOther DEF Next
<1>2. CASE UNCHANGED vars
    BY <1>2, PaidSame DEF PaidOnce, vars, mailVars, costVars
<1> QED BY <1>1, <1>2

\* A message's embedding is paid for once, for any mail and any number of tasks:
\* who is about to buy one has seen that there is none, and has the job to itself.
THEOREM EmbeddingsBoughtOnce == Spec => []BoughtOnce
<1>1. PaidOnce => BoughtOnce
    BY DEF PaidOnce, Paid, BoughtOnce
<1> QED BY <1>1, BaseInit, BaseNext, PaidInit, PaidNext, PTL DEF Spec

\* Every variable of ModelCalls keeps its type: an embedding that is taken off
\* the count was on it.
THEOREM TypesHold == Spec => []TypeOK
<1>1. Base /\ PaidOnce => TypeOK
    <2> SUFFICES ASSUME Base, PaidOnce PROVE TypeOK
        OBVIOUS
    <2>1. bought \in [Messages -> Nat]
        BY DEF Base, Types, PaidOnce, Paid
    <2> QED BY <2>1 DEF Base, Types, TypeOK
<1> QED BY <1>1, BaseInit, BaseNext, PaidInit, PaidNext, PTL DEF Spec

-----------------------------------------------------------------------------
(***************************************************************************)
(* The backfill ends when it is done.                                      *)
(***************************************************************************)
\* From the moment it finds nothing left to embed.
Covers == backfilled \/ sweep.step = "mark" => \A m \in looked : m \in embedded \/ row[m] = "gone"

\* A batch is empty only when there is nothing to embed.
LEMMA NothingFound ==
    ASSUME FindUnembedded({}), Types
    PROVE  Stored \subseteq embedded
<1> DEFINE unembedded == Stored \ embedded
<1>1. IsFiniteSet(unembedded)
    <2>1. unembedded \subseteq Messages
        BY DEF Stored
    <2> QED BY <2>1, MessagesAssumption, FS_Subset
<1>2. Cardinality({}) = 0
    BY FS_EmptySet
<1>3. Cardinality(unembedded) \in Nat /\ Batch \in Nat \ {0}
    BY <1>1, FS_CardinalityType, CallBounds
<1>4. Cardinality({}) = IF Cardinality(unembedded) < Batch THEN Cardinality(unembedded) ELSE Batch
    BY DEF FindUnembedded
<1> HIDE DEF unembedded
<1>5. Cardinality(unembedded) = 0
    BY <1>2, <1>3, <1>4
<1>6. unembedded = {}
    BY <1>1, <1>5, FS_EmptySet
<1> QED BY <1>6 DEF unembedded

LEMMA CoversNext == Base /\ Covers /\ [Next]_vars => Covers'
<1> SUFFICES ASSUME Base, Covers, [Next]_vars PROVE Covers'
    OBVIOUS
<1>1. Types /\ row \in [Messages -> {"none", "stored", "gone"}] /\ looked \subseteq Messages
    BY DEF Base, Types
<1>2. ASSUME \A m \in looked : m \in embedded \/ row[m] = "gone" => m \in embedded' \/ row'[m] = "gone",
             UNCHANGED <<backfilled, looked>>, sweep'.step = "mark" => sweep.step = "mark" \/ backfilled
      PROVE  Covers'
    BY <1>2 DEF Covers
<1>3. ASSUME UNCHANGED <<sweep, backfilled, looked, embedded, row>> PROVE Covers'
    BY <1>2, <1>3
<1>4. ASSUME NEW s \in Slots, Work(s) PROVE Covers'
    <2>1. UNCHANGED <<sweep, backfilled, looked, row>>
        BY <1>4 DEF Work, FindStored, AssertAffordable, ProceedUnchecked, FindForAnalysis, Answered, Discarded, Refused,
                    Save, RecordUsage, StepFails, Notify, QueueEmbedding, Crash, mailVars, sweepVars
    <2>2. embedded \subseteq embedded'
        <3>1. CASE slot[s].task = "embed"
            BY <1>4, <3>1, EmbedSteps
        <3>2. CASE slot[s].task # "embed"
            BY <1>4, <3>2, OtherTasks
        <3> QED BY <3>1, <3>2
    <2> QED BY <1>2, <2>1, <2>2
<1>5. ASSUME NEW s \in Slots, Start(s) PROVE Covers'
    <2>1. UNCHANGED <<sweep, backfilled, looked, embedded, row>>
        BY <1>5 DEF Start, TakeJob, Ask, mailVars, sweepVars
    <2> QED BY <1>3, <2>1
<1>6. ASSUME NEW m \in Messages, Arrive(m) PROVE Covers'
    <2>1. UNCHANGED <<sweep, backfilled, looked, embedded>> /\ row[m] = "none" /\ row' = [row EXCEPT ![m] = "stored"]
        BY <1>6 DEF Arrive, sweepVars
    <2>2. \A n \in looked : row[n] = "gone" => row'[n] = "gone"
        BY <1>1, <2>1
    <2> QED BY <1>2, <2>1, <2>2
<1>7. ASSUME NEW m \in Messages, Purge(m) PROVE Covers'
    <2>1. UNCHANGED <<sweep, backfilled, looked>> /\ row' = [row EXCEPT ![m] = "gone"] /\ embedded' = embedded \ {m}
        BY <1>7 DEF Purge, sweepVars
    <2>2. \A n \in looked : n \in embedded \/ row[n] = "gone" => n \in embedded' \/ row'[n] = "gone"
        BY <1>1, <2>1
    <2> QED BY <1>2, <2>1, <2>2
<1>8. ASSUME NEW j \in Kinds \X Messages, Forget(j) PROVE Covers'
    <2>1. UNCHANGED <<sweep, backfilled, looked, embedded, row>>
        BY <1>8 DEF Forget, mailVars, sweepVars
    <2> QED BY <1>3, <2>1
<1>9. CASE Midnight
    <2>1. UNCHANGED <<sweep, backfilled, looked, embedded, row>>
        BY <1>9 DEF Midnight, mailVars, sweepVars
    <2> QED BY <1>3, <2>1
<1>10. ASSUME NEW list \in SUBSET Messages, Look(list) PROVE Covers'
    <2>1. /\ ~backfilled /\ looked' = Stored /\ FindUnembedded(list) /\ UNCHANGED <<backfilled, embedded, row>>
          /\ sweep' = [step |-> IF list = {} THEN "mark" ELSE "queue", list |-> list]
        BY <1>10 DEF Look, mailVars
    <2>2. CASE list = {}
        BY <1>1, <2>1, <2>2, NothingFound DEF Covers
    <2>3. CASE list # {}
        BY <2>1, <2>3 DEF Covers
    <2> QED BY <2>2, <2>3
<1>11. ASSUME NEW m \in Messages, QueueBackfill(m) PROVE Covers'
    <2>1. UNCHANGED <<backfilled, looked, embedded, row>> /\ sweep'.step # "mark"
        BY <1>11 DEF QueueBackfill, mailVars
    <2> QED BY <1>2, <2>1
<1>12. CASE MarkBackfilled
    <2>1. sweep.step = "mark" /\ UNCHANGED <<looked, embedded, row>>
        BY <1>12 DEF MarkBackfilled, mailVars
    <2> QED BY <2>1 DEF Covers
<1>13. CASE UNCHANGED vars
    BY <1>3, <1>13 DEF vars, mailVars, sweepVars
<1> QED BY <1>4, <1>5, <1>6, <1>7, <1>8, <1>9, <1>10, <1>11, <1>12, <1>13 DEF Next, Come, Backfill

\* A mailbox is marked done for ever only when every message the sweep could see
\* has its vector, for any mail and any size of batch: what is queued does not count.
THEOREM BackfillEndsDone == Spec => []BackfillCovers
<1>1. Init => Covers
    BY DEF Init, Covers
<1>2. Covers => BackfillCovers
    BY DEF Covers, BackfillCovers
<1> QED BY <1>1, <1>2, BaseInit, BaseNext, CoversNext, PTL DEF Spec

-----------------------------------------------------------------------------
(***************************************************************************)
(* What a day's calls can cost.                                            *)
(***************************************************************************)
\* Of a state of the slots: the tasks that have been charged and have not recorded
\* it, those that are let through and have not called, and each unit that is owed.
Spending == {"read", "call", "failover"}
ChargedOf(f) == {s \in Slots : f[s].cost > 0}
CommittedOf(f) == {s \in Slots : f[s].step \in Spending}
OwedOf(f) == {p \in Slots \X (1..MaxCost) : p[2] <= f[p[1]].cost}

\* What was charged is recorded, is owed, or has escaped.
Accounted == bill <= meter + Cardinality(OwedOf(slot)) + MaxCost * escaped
\* A task that is let through has room for its call.
Covered == bill + MaxCost * Cardinality(CommittedOf(slot)) <= Ceiling - 1 + MaxCost * (Cardinality(Slots) + escaped)

\* A task that spends nothing more and owes nothing.
Quits(s) == slot'[s].cost = 0 /\ slot'[s].step \notin Spending

LEMMA QuitsIs ==
    ASSUME Types, Fits, NEW s \in Slots, NEW r \in BOOLEAN,
           Complete(s) \/ Free(s) \/ FailJob(s, r) \/ Searched(s) \/ Fail(s, r)
    PROVE  Quits(s)
<1>1. ASSUME Free(s) PROVE Quits(s)
    <2>1. slot'[s] = Idle
        BY <1>1, SlotTypes DEF Free
    <2> QED BY <2>1, IdleFits DEF Quits, Spending
<1>2. ASSUME NEW step \in {"notify", "budget"}, NEW task, slot' = [slot EXCEPT ![s] = Doing(step, task, slot[s].of, 0)]
      PROVE  Quits(s)
    <2>1. slot'[s] = Doing(step, task, slot[s].of, 0)
        BY <1>2, SlotTypes
    <2> QED BY <2>1, DoingIs DEF Quits, Spending
<1>3. CASE Complete(s) \/ FailJob(s, r)
    BY <1>1, <1>3 DEF Complete, FailJob
<1>4. CASE Searched(s)
    <2>1. slot' = [slot EXCEPT ![s] = Idle] \/ slot' = [slot EXCEPT ![s] = Doing("budget", "question", slot[s].of, 0)]
        BY <1>4, SearchedIs DEF Onwards
    <2> QED BY <1>1, <1>2, <2>1 DEF Free
<1>5. CASE Fail(s, r)
    <2>1. Free(s) \/ GotoOwing(s, "notify", 0)
        <3>1. CASE ~IsJob(s)
            BY <1>5, <3>1 DEF Fail, IsJob, Kinds
        <3>2. CASE slot[s].task = "embed"
            BY <1>5, <3>2 DEF Fail, FailJob, IsJob, Kinds
        <3>3. CASE slot[s].task = "analyse"
            BY <1>5, <3>3 DEF Fail, FailJob, IsJob, Kinds
        <3> QED BY <3>1, <3>2, <3>3 DEF IsJob, Kinds
    <2>2. GotoOwing(s, "notify", 0) => slot' = [slot EXCEPT ![s] = Doing("notify", slot[s].task, slot[s].of, 0)]
        BY GotoOwingIs
    <2> QED BY <1>1, <1>2, <2>1, <2>2
<1> QED BY <1>1, <1>3, <1>4, <1>5

LEMMA SkipQuits ==
    ASSUME Types, Fits, NEW s \in Slots, slot[s].cost = 0, Skip(s)
    PROVE  Quits(s)
<1>1. CASE Complete(s)
    BY <1>1, QuitsIs
<1>2. CASE Goto(s, "notify")
    <2>1. slot' = [slot EXCEPT ![s] = Doing("notify", slot[s].task, slot[s].of, 0)]
        BY <1>2, GotoIs
    <2>2. slot'[s] = Doing("notify", slot[s].task, slot[s].of, 0)
        BY <2>1, SlotTypes
    <2> QED BY <2>2, DoingIs DEF Quits, Spending
<1> QED BY <1>1, <1>2 DEF Skip

\* The ways a step of a task bears on the account.
NotLater(s) == slot'[s].step \in Spending => slot[s].step \in Spending
GoesOn(s) == UNCHANGED <<bill, meter, escaped>> /\ slot'[s].cost = slot[s].cost /\ NotLater(s)
LetThrough(s) ==
    /\ ~IsOverBudget /\ UNCHANGED <<bill, meter, escaped>>
    /\ slot[s].cost = 0 /\ slot'[s].cost = 0 /\ slot[s].step \notin Spending
Unchecked(s) == UNCHANGED <<bill, meter>> /\ escaped' = escaped + 1 /\ slot[s].cost = 0 /\ slot'[s].cost = 0
Charges(s) ==
    /\ \E cost \in 1..MaxCost : bill' = bill + cost /\ slot'[s].cost = cost
    /\ slot[s].cost = 0 /\ slot[s].step \in Spending /\ slot'[s].step \notin Spending /\ UNCHANGED <<meter, escaped>>
ThrowsAway(s) ==
    /\ \E cost \in 1..MaxCost : bill' = bill + cost
    /\ escaped' = escaped + 1 /\ slot[s].cost = 0 /\ slot'[s].cost = 0 /\ NotLater(s) /\ UNCHANGED meter
Records(s) == meter' = meter + slot[s].cost /\ Quits(s) /\ UNCHANGED <<bill, escaped>>
Loses(s) == Lose(s) /\ slot'[s].cost = 0 /\ NotLater(s) /\ UNCHANGED <<bill, meter>>

LEMMA CallFailedQuits ==
    ASSUME Types, Fits, NEW s \in Slots, Calling(s), NEW r \in BOOLEAN, CallFailed(s, r)
    PROVE  slot[s].cost = 0 /\ slot'[s].cost = 0 /\ NotLater(s)
<1>1. slot[s].cost = 0 /\ slot[s].step \in Spending
    BY AtStep DEF Calling, At, Spending
<1>2. CASE Searched(s) \/ Fail(s, r)
    BY <1>1, <1>2, QuitsIs DEF Quits, NotLater
<1>3. CASE Goto(s, "failover")
    <2>1. slot' = [slot EXCEPT ![s] = Doing("failover", slot[s].task, slot[s].of, 0)]
        BY <1>1, <1>3, GotoIs
    <2>2. slot'[s] = Doing("failover", slot[s].task, slot[s].of, 0)
        BY <2>1, SlotTypes
    <2> QED BY <1>1, <2>2, DoingIs DEF NotLater
<1> QED BY <1>2, <1>3 DEF CallFailed

LEMMA WorkAccounts ==
    ASSUME Base, NEW s \in Slots, Work(s)
    PROVE  \/ GoesOn(s) \/ LetThrough(s) \/ Unchecked(s) \/ Charges(s)
           \/ ThrowsAway(s) \/ Records(s) \/ Loses(s)
<1>1. /\ Types /\ Fits /\ ~At(s, "idle") /\ slot[s].cost \in 0..MaxCost
      /\ StepOfTask(slot[s].task, slot[s].step)
      /\ slot[s].step \notin {"save", "record"} => slot[s].cost = 0
    BY WorkIs, AtStep DEF Base
<1>2. ASSUME UNCHANGED <<bill, meter, escaped>>, slot[s].cost = 0, Quits(s) PROVE GoesOn(s)
    BY <1>2 DEF GoesOn, Quits, NotLater
<1>3. CASE FindStored(s)
    <2>1. UNCHANGED <<bill, meter, escaped>> /\ slot[s].step = "has"
        BY <1>3 DEF FindStored, costVars, At
    <2>2. CASE Complete(s)
        BY <1>1, <1>2, <2>1, <2>2, QuitsIs
    <2>3. CASE Advance(s)
        <3>1. slot'[s].step = "budget" /\ slot'[s].cost = slot[s].cost
            BY <1>1, <2>1, <2>3, AdvanceTo DEF Leads
        <3> QED BY <2>1, <3>1 DEF GoesOn, NotLater, Spending
    <2> QED BY <1>3, <2>2, <2>3 DEF FindStored
<1>4. CASE AssertAffordable(s)
    <2>1. UNCHANGED <<bill, meter, escaped>> /\ slot[s].step = "budget"
        BY <1>4 DEF AssertAffordable, costVars, At
    <2>2. CASE ~IsOverBudget /\ Advance(s)
        <3>1. slot'[s].cost = slot[s].cost
            BY <1>1, <2>1, <2>2, AdvanceTo
        <3> QED BY <1>1, <2>1, <2>2, <3>1 DEF LetThrough, Spending
    <2>3. CASE Searched(s)
        BY <1>1, <1>2, <2>1, <2>3, QuitsIs
    <2>4. CASE Skip(s)
        BY <1>1, <1>2, <2>1, <2>4, SkipQuits
    <2> QED BY <1>4, <2>2, <2>3, <2>4 DEF AssertAffordable
<1>5. CASE ProceedUnchecked(s)
    <2>1. UNCHANGED <<bill, meter>> /\ escaped' = escaped + 1 /\ slot[s].step = "budget" /\ Advance(s)
        BY <1>5 DEF ProceedUnchecked, At
    <2>2. slot'[s].cost = slot[s].cost
        BY <1>1, <2>1, AdvanceTo
    <2> QED BY <1>1, <2>1, <2>2 DEF Unchecked
<1>6. CASE FindForAnalysis(s)
    <2>1. UNCHANGED <<bill, meter, escaped>> /\ slot[s].step = "read"
        BY <1>6 DEF FindForAnalysis, costVars, At
    <2>2. CASE Advance(s)
        <3>1. slot'[s].cost = slot[s].cost
            BY <1>1, <2>1, <2>2, AdvanceTo
        <3> QED BY <2>1, <3>1 DEF GoesOn, NotLater, Spending
    <2>3. CASE Skip(s)
        BY <1>1, <1>2, <2>1, <2>3, SkipQuits
    <2> QED BY <1>6, <2>2, <2>3 DEF FindForAnalysis
<1>7. CASE Answered(s)
    <2>1. /\ UNCHANGED <<meter, escaped>> /\ slot[s].step \in {"call", "failover"}
          /\ \E cost \in 1..MaxCost : bill' = bill + cost /\ GotoOwing(s, Following(s), cost)
        BY <1>7 DEF Answered, Calling, At
    <2>2. PICK cost \in 1..MaxCost : bill' = bill + cost /\ GotoOwing(s, Following(s), cost)
        BY <2>1
    <2>3. Following(s) \in {"save", "record"}
        BY <1>1, <2>1, Follows DEF Leads
    <2>4. slot' = [slot EXCEPT ![s] = Doing(Following(s), slot[s].task, slot[s].of, cost)]
        BY <1>1, <2>2, GotoOwingIs
    <2>5. slot'[s] = Doing(Following(s), slot[s].task, slot[s].of, cost)
        BY <1>1, <2>4, SlotTypes
    <2>6. slot'[s].cost = cost /\ slot'[s].step = Following(s)
        BY <2>5, DoingIs
    <2> QED BY <1>1, <2>1, <2>2, <2>3, <2>6 DEF Charges, Spending
<1>8. CASE Discarded(s)
    <2>1. /\ Calling(s) /\ UNCHANGED meter /\ escaped' = escaped + 1
          /\ \E cost \in 1..MaxCost : bill' = bill + cost
        BY <1>8 DEF Discarded
    <2>2. \E r \in BOOLEAN : CallFailed(s, r)
        BY <1>8 DEF Discarded
    <2>3. slot[s].cost = 0 /\ slot'[s].cost = 0 /\ NotLater(s)
        BY <1>1, <2>1, <2>2, CallFailedQuits
    <2> QED BY <2>1, <2>3 DEF ThrowsAway
<1>9. CASE Refused(s)
    <2>1. Calling(s) /\ UNCHANGED <<bill, meter, escaped>>
        BY <1>9 DEF Refused, costVars
    <2>2. \E r \in BOOLEAN : CallFailed(s, r)
        BY <1>9 DEF Refused
    <2>3. slot[s].cost = 0 /\ slot'[s].cost = 0 /\ NotLater(s)
        BY <1>1, <2>1, <2>2, CallFailedQuits
    <2> QED BY <2>1, <2>3 DEF GoesOn
<1>10. CASE Save(s)
    <2>1. UNCHANGED meter /\ slot[s].step = "save"
        BY <1>10 DEF Save, At
    <2>2. CASE Advance(s) /\ UNCHANGED costVars
        <3>1. slot'[s].step = "record" /\ slot'[s].cost = slot[s].cost
            BY <1>1, <2>1, <2>2, AdvanceTo DEF Leads
        <3> QED BY <2>1, <2>2, <3>1 DEF GoesOn, NotLater, Spending, costVars
    <2>3. CASE Fail(s, TRUE) /\ Lose(s) /\ UNCHANGED bill
        BY <1>1, <2>1, <2>3, QuitsIs DEF Quits, Loses, NotLater
    <2> QED BY <1>10, <2>2, <2>3 DEF Save, SaveEmbedding, SaveAnalysis
<1>11. CASE RecordUsage(s)
    <2>1. meter' = meter + slot[s].cost /\ UNCHANGED <<bill, escaped>>
        BY <1>11 DEF RecordUsage, costVars
    <2>2. Quits(s)
        <3>1. CASE GotoOwing(s, "notify", 0)
            <4>1. slot' = [slot EXCEPT ![s] = Doing("notify", slot[s].task, slot[s].of, 0)]
                BY <1>1, <3>1, GotoOwingIs
            <4>2. slot'[s] = Doing("notify", slot[s].task, slot[s].of, 0)
                BY <1>1, <4>1, SlotTypes
            <4> QED BY <4>2, DoingIs DEF Quits, Spending
        <3>2. CASE Searched(s) \/ Complete(s)
            BY <1>1, <3>2, QuitsIs
        <3>3. GotoOwing(s, "notify", 0) \/ Searched(s) \/ Complete(s)
            <4>1. CASE slot[s].task = "analyse"
                BY <1>11, <4>1 DEF RecordUsage, Queries
            <4>2. CASE slot[s].task \in Queries
                BY <1>11, <4>2 DEF RecordUsage, Queries
            <4>3. CASE slot[s].task # "analyse" /\ slot[s].task \notin Queries
                BY <1>11, <4>3 DEF RecordUsage
            <4> QED BY <4>1, <4>2, <4>3
        <3> QED BY <3>1, <3>2, <3>3
    <2> QED BY <2>1, <2>2 DEF Records
<1>12. CASE StepFails(s)
    <2>1. Lose(s) /\ UNCHANGED <<bill, meter>>
        BY <1>12 DEF StepFails
    <2>2. CASE Searched(s) \/ Fail(s, TRUE)
        BY <1>1, <2>1, <2>2, QuitsIs DEF Quits, Loses, NotLater
    <2>3. CASE At(s, "read") /\ Goto(s, "call")
        <3>1. slot' = [slot EXCEPT ![s] = Doing("call", slot[s].task, slot[s].of, 0)]
            BY <1>1, <2>3, GotoIs DEF At
        <3>2. slot'[s] = Doing("call", slot[s].task, slot[s].of, 0)
            BY <1>1, <3>1, SlotTypes
        <3> QED BY <2>1, <2>3, <3>2, DoingIs DEF Loses, NotLater, Spending, At
    <2> QED BY <1>12, <2>2, <2>3 DEF StepFails
<1>13. CASE Notify(s)
    <2>1. UNCHANGED <<bill, meter, escaped>> /\ slot[s].cost = 0
        BY <1>1, <1>13 DEF Notify, costVars, At
    <2>2. CASE FailJob(s, TRUE)
        BY <1>1, <1>2, <2>1, <2>2, QuitsIs
    <2>3. CASE Goto(s, "queue")
        <3>1. slot' = [slot EXCEPT ![s] = Doing("queue", slot[s].task, slot[s].of, 0)]
            BY <1>1, <2>1, <2>3, GotoIs
        <3>2. slot'[s] = Doing("queue", slot[s].task, slot[s].of, 0)
            BY <1>1, <3>1, SlotTypes
        <3>3. Quits(s)
            BY <3>2, DoingIs DEF Quits, Spending
        <3> QED BY <1>2, <2>1, <3>3
    <2> QED BY <1>13, <2>2, <2>3 DEF Notify
<1>14. CASE QueueEmbedding(s)
    <2>1. UNCHANGED <<bill, meter, escaped>> /\ slot[s].cost = 0 /\ Free(s)
        BY <1>1, <1>14 DEF QueueEmbedding, costVars, At
    <2> QED BY <1>1, <1>2, <2>1, QuitsIs
<1>15. CASE Crash(s)
    <2>1. Lose(s) /\ UNCHANGED <<bill, meter>> /\ Free(s)
        BY <1>15 DEF Crash
    <2> QED BY <1>1, <2>1, QuitsIs DEF Quits, Loses, NotLater
<1> QED BY <1>3, <1>4, <1>5, <1>6, <1>7, <1>8, <1>9, <1>10, <1>11, <1>12, <1>13, <1>14, <1>15 DEF Work

LEMMA Scale ==
    ASSUME NEW a \in Nat, NEW b \in Nat
    PROVE  /\ MaxCost * a \in Nat /\ MaxCost * (a + b) = MaxCost * a + MaxCost * b
           /\ a <= b => MaxCost * a <= MaxCost * b
<1>1. MaxCost \in Nat
    BY CallBounds
<1>2. MaxCost * a \in Nat /\ MaxCost * (a + b) = MaxCost * a + MaxCost * b
    BY <1>1
<1>3. ASSUME a <= b PROVE MaxCost * a <= MaxCost * b
    <2>1. PICK c \in Nat : b = a + c
        <3>1. b - a \in Nat /\ b = a + (b - a)
            BY <1>3
        <3> QED BY <3>1
    <2>2. MaxCost * c \in Nat /\ MaxCost * b = MaxCost * a + MaxCost * c
        BY <1>1, <2>1
    <2> QED BY <1>2, <2>2
<1> QED BY <1>2, <1>3

\* One slot's units and the others'.
LEMMA OwedParts ==
    ASSUME NEW f \in [Slots -> Task], NEW s \in Slots
    PROVE  LET others == {p \in OwedOf(f) : p[1] # s} IN
           /\ IsFiniteSet(others) /\ Cardinality(others) \in Nat /\ f[s].cost \in Nat
           /\ Cardinality(OwedOf(f)) = Cardinality(others) + f[s].cost
<1> DEFINE others == {p \in OwedOf(f) : p[1] # s}
           own == {s} \X (1..f[s].cost)
<1>1. MaxCost \in Nat /\ IsFiniteSet(Slots)
    BY CallBounds
<1>2. f[s].cost \in 0..MaxCost
    BY TaskShape
<1>3. f[s].cost \in Nat /\ f[s].cost <= MaxCost
    BY <1>1, <1>2
<1>4. IsFiniteSet(OwedOf(f))
    <2>1. IsFiniteSet(1..MaxCost)
        BY <1>1, FS_Interval
    <2>2. IsFiniteSet(Slots \X (1..MaxCost))
        BY <1>1, <2>1, FS_Product
    <2> QED BY <2>2, FS_Subset DEF OwedOf
<1>5. IsFiniteSet(others)
    BY <1>4, FS_Subset
<1>6. IsFiniteSet(own) /\ Cardinality(own) = f[s].cost
    <2>1. IsFiniteSet(1..f[s].cost) /\ Cardinality(1..f[s].cost) = f[s].cost
        <3>1. 1 \in Int /\ f[s].cost \in Int
            BY <1>3
        <3>2. IsFiniteSet(1..f[s].cost) /\ Cardinality(1..f[s].cost) = IF 1 > f[s].cost THEN 0 ELSE f[s].cost - 1 + 1
            BY <3>1, FS_Interval
        <3> QED BY <1>3, <3>2
    <2>2. IsFiniteSet({s}) /\ Cardinality({s}) = 1
        BY FS_Singleton
    <2>3. IsFiniteSet(own) /\ Cardinality(own) = Cardinality({s}) * Cardinality(1..f[s].cost)
        BY <2>1, <2>2, FS_Product
    <2> QED BY <1>3, <2>1, <2>2, <2>3
<1>7. OwedOf(f) = others \cup own
    <2>1. ASSUME NEW p \in own PROVE p \in OwedOf(f)
        <3>1. p \in Slots \X (1..MaxCost) /\ p[1] = s /\ p[2] <= f[s].cost
            BY <1>1, <1>3, <2>1
        <3> QED BY <3>1 DEF OwedOf
    <2>2. ASSUME NEW p \in OwedOf(f), p[1] = s PROVE p \in own
        <3>1. p \in Slots \X (1..MaxCost) /\ p[2] <= f[s].cost
            BY <2>2 DEF OwedOf
        <3>2. p[2] \in 1..f[s].cost
            BY <1>1, <1>3, <3>1
        <3>3. p = <<p[1], p[2]>>
            BY <3>1
        <3> QED BY <2>2, <3>2, <3>3
    <2> QED BY <2>1, <2>2
<1>8. others \cap own = {}
    OBVIOUS
<1> HIDE DEF others, own
<1>9. Cardinality(others \cup own) = Cardinality(others) + Cardinality(own) - Cardinality(others \cap own)
    BY <1>5, <1>6, FS_Union
<1>10. Cardinality(others) \in Nat /\ Cardinality(others \cap own) = 0
    BY <1>5, <1>8, FS_CardinalityType, FS_EmptySet
<1>11. Cardinality(OwedOf(f)) = Cardinality(others) + f[s].cost
    BY <1>3, <1>6, <1>7, <1>9, <1>10
<1> QED BY <1>3, <1>5, <1>10, <1>11 DEF others

\* What is owed follows the cost of the one slot that changes.
LEMMA OwedChange ==
    ASSUME NEW f \in [Slots -> Task], NEW g \in [Slots -> Task], NEW s \in Slots,
           \A r \in Slots : r # s => g[r] = f[r]
    PROVE  /\ Cardinality(OwedOf(f)) \in Nat /\ Cardinality(OwedOf(g)) \in Nat
           /\ Cardinality(OwedOf(g)) + f[s].cost = Cardinality(OwedOf(f)) + g[s].cost
<1> DEFINE others(h) == {p \in OwedOf(h) : p[1] # s}
<1>1. others(g) = others(f)
    <2>1. \A p \in Slots \X (1..MaxCost) : p[1] # s => g[p[1]] = f[p[1]]
        OBVIOUS
    <2> QED BY <2>1 DEF OwedOf
<1>2. \A h \in [Slots -> Task] : /\ Cardinality(others(h)) \in Nat /\ h[s].cost \in Nat
                                 /\ Cardinality(OwedOf(h)) = Cardinality(others(h)) + h[s].cost
    BY OwedParts
<1> HIDE DEF others
<1>3. Cardinality(others(f)) \in Nat /\ f[s].cost \in Nat /\ Cardinality(OwedOf(f)) = Cardinality(others(f)) + f[s].cost
    BY <1>2
<1>4. Cardinality(others(g)) \in Nat /\ g[s].cost \in Nat /\ Cardinality(OwedOf(g)) = Cardinality(others(g)) + g[s].cost
    BY <1>2
<1> QED BY <1>1, <1>3, <1>4

\* The tasks that are let through, when one slot changes.
LEMMA CommittedChange ==
    ASSUME NEW f \in [Slots -> Task], NEW g \in [Slots -> Task], NEW s \in Slots,
           \A r \in Slots : r # s => g[r] = f[r]
    PROVE  /\ Cardinality(CommittedOf(f)) \in Nat /\ Cardinality(CommittedOf(g)) \in Nat
           /\ Cardinality(CommittedOf(g)) <= Cardinality(CommittedOf(f)) + 1
           /\ (g[s].step \in Spending => f[s].step \in Spending) => Cardinality(CommittedOf(g)) <= Cardinality(CommittedOf(f))
           /\ f[s].step \in Spending /\ g[s].step \notin Spending => Cardinality(CommittedOf(g)) + 1 <= Cardinality(CommittedOf(f))
<1>1. \A h : IsFiniteSet(CommittedOf(h)) /\ Cardinality(CommittedOf(h)) \in Nat
    <2> SUFFICES ASSUME NEW h PROVE IsFiniteSet(CommittedOf(h)) /\ Cardinality(CommittedOf(h)) \in Nat
        OBVIOUS
    <2>1. IsFiniteSet(CommittedOf(h))
        BY CallBounds, FS_Subset DEF CommittedOf
    <2> QED BY <2>1, FS_CardinalityType
<1>2. Cardinality(CommittedOf(g)) <= Cardinality(CommittedOf(f)) + 1
    <2>1. CommittedOf(g) \subseteq CommittedOf(f) \cup {s}
        BY DEF CommittedOf
    <2>2. IsFiniteSet(CommittedOf(f) \cup {s}) /\ Cardinality(CommittedOf(f) \cup {s}) <= Cardinality(CommittedOf(f)) + 1
        BY <1>1, FS_AddElement
    <2>3. Cardinality(CommittedOf(f) \cup {s}) \in Nat
        BY <2>2, FS_CardinalityType
    <2>4. Cardinality(CommittedOf(g)) <= Cardinality(CommittedOf(f) \cup {s})
        BY <2>1, <2>2, FS_Subset
    <2> QED BY <1>1, <2>2, <2>3, <2>4
<1>3. ASSUME g[s].step \in Spending => f[s].step \in Spending PROVE Cardinality(CommittedOf(g)) <= Cardinality(CommittedOf(f))
    <2>1. CommittedOf(g) \subseteq CommittedOf(f)
        BY <1>3 DEF CommittedOf
    <2> QED BY <1>1, <2>1, FS_Subset
<1>4. ASSUME f[s].step \in Spending, g[s].step \notin Spending
      PROVE  Cardinality(CommittedOf(g)) + 1 <= Cardinality(CommittedOf(f))
    <2>1. CommittedOf(g) \subseteq CommittedOf(f) \ {s} /\ s \in CommittedOf(f)
        BY <1>4 DEF CommittedOf
    <2>2. IsFiniteSet(CommittedOf(f) \ {s}) /\ Cardinality(CommittedOf(f) \ {s}) = Cardinality(CommittedOf(f)) - 1
        BY <1>1, <2>1, FS_RemoveElement
    <2>3. Cardinality(CommittedOf(g)) <= Cardinality(CommittedOf(f) \ {s})
        BY <2>1, <2>2, FS_Subset
    <2> QED BY <1>1, <2>2, <2>3
<1> QED BY <1>1, <1>2, <1>3, <1>4

\* While a task is at the budget every other owes at most one call, or has room
\* for one, and not both.
LEMMA RoomForOne ==
    ASSUME NEW f \in [Slots -> Task], NEW s \in Slots, f[s].cost = 0, f[s].step \notin Spending,
           \A r \in Slots : f[r].cost > 0 => f[r].step \notin Spending
    PROVE  Cardinality(OwedOf(f)) + MaxCost * (Cardinality(CommittedOf(f)) + 1) <= MaxCost * Cardinality(Slots)
<1> DEFINE charged == ChargedOf(f)
           committed == CommittedOf(f)
<1>1. IsFiniteSet(Slots) /\ MaxCost \in Nat
    BY CallBounds
<1>2. charged \subseteq Slots \ {s} /\ committed \subseteq Slots \ {s} /\ charged \cap committed = {}
    BY DEF ChargedOf, CommittedOf
<1>3. IsFiniteSet(Slots \ {s}) /\ Cardinality(Slots \ {s}) = Cardinality(Slots) - 1 /\ Cardinality(Slots) \in Nat
    BY <1>1, FS_RemoveElement, FS_CardinalityType
<1>4. OwedOf(f) \subseteq charged \X (1..MaxCost)
    <2> SUFFICES ASSUME NEW p \in OwedOf(f) PROVE p \in charged \X (1..MaxCost)
        OBVIOUS
    <2>1. p \in Slots \X (1..MaxCost) /\ p[2] <= f[p[1]].cost
        BY DEF OwedOf
    <2>2. f[p[1]].cost \in 0..MaxCost
        BY <2>1, TaskShape
    <2>3. p[2] \in 1..MaxCost /\ p[1] \in Slots /\ f[p[1]].cost > 0 /\ p = <<p[1], p[2]>>
        BY <1>1, <2>1, <2>2
    <2> QED BY <2>3 DEF ChargedOf
<1> HIDE DEF charged, committed
<1>5. IsFiniteSet(charged) /\ IsFiniteSet(committed) /\ Cardinality(charged) \in Nat /\ Cardinality(committed) \in Nat
    BY <1>2, <1>3, FS_Subset, FS_CardinalityType
<1>6. Cardinality(charged) + Cardinality(committed) <= Cardinality(Slots) - 1
    <2>1. Cardinality(charged \cup committed) = Cardinality(charged) + Cardinality(committed) - Cardinality(charged \cap committed)
        BY <1>5, FS_Union
    <2>2. Cardinality(charged \cap committed) = 0
        BY <1>2, FS_EmptySet
    <2>3. Cardinality(charged \cup committed) <= Cardinality(Slots \ {s})
        BY <1>2, <1>3, FS_Subset
    <2> QED BY <1>3, <1>5, <2>1, <2>2, <2>3
<1>7. Cardinality(OwedOf(f)) <= MaxCost * Cardinality(charged) /\ Cardinality(OwedOf(f)) \in Nat
    <2>1. IsFiniteSet(1..MaxCost) /\ Cardinality(1..MaxCost) = MaxCost
        BY <1>1, FS_Interval
    <2>2. /\ IsFiniteSet(charged \X (1..MaxCost))
          /\ Cardinality(charged \X (1..MaxCost)) = Cardinality(charged) * Cardinality(1..MaxCost)
        BY <1>5, <2>1, FS_Product
    <2>3. Cardinality(OwedOf(f)) <= Cardinality(charged \X (1..MaxCost)) /\ IsFiniteSet(OwedOf(f))
        BY <1>4, <2>2, FS_Subset
    <2>4. Cardinality(charged) * MaxCost = MaxCost * Cardinality(charged)
        BY <1>1, <1>5
    <2> QED BY <2>1, <2>2, <2>3, <2>4, FS_CardinalityType
<1>8. /\ MaxCost * (Cardinality(charged) + (Cardinality(committed) + 1)) = MaxCost * Cardinality(charged) + MaxCost * (Cardinality(committed) + 1)
      /\ MaxCost * (Cardinality(charged) + (Cardinality(committed) + 1)) <= MaxCost * Cardinality(Slots)
      /\ MaxCost * Cardinality(charged) \in Nat /\ MaxCost * (Cardinality(committed) + 1) \in Nat /\ MaxCost * Cardinality(Slots) \in Nat
    <2>1. Cardinality(committed) + 1 \in Nat /\ Cardinality(charged) + (Cardinality(committed) + 1) \in Nat
          /\ Cardinality(charged) + (Cardinality(committed) + 1) <= Cardinality(Slots)
        BY <1>3, <1>5, <1>6
    <2> QED BY <1>3, <1>5, <2>1, Scale
<1> QED BY <1>7, <1>8 DEF committed

\* The account balances, and every task that is let through has room.
Account == Accounted /\ Covered

LEMMA AccountWork ==
    ASSUME Base, Account, NEW s \in Slots, Work(s)
    PROVE  Account'
<1> DEFINE owed == Cardinality(OwedOf(slot))
           owedNext == Cardinality(OwedOf(slot'))
           let == Cardinality(CommittedOf(slot))
           letNext == Cardinality(CommittedOf(slot'))
           c == slot[s].cost
           d == slot'[s].cost
           all == Cardinality(Slots)
<1>1. /\ Types /\ Fits /\ slot \in [Slots -> Task] /\ slot' \in [Slots -> Task]
      /\ \A r \in Slots : r # s => slot'[r] = slot[r]
    <2>1. Base'
        BY WorkBase
    <2>2. \A r \in Slots : r # s => slot'[r] = slot[r]
        BY WorkIs, StaysKeeps, EndsKeeps, OnwardsKeeps DEF Base
    <2> QED BY <2>1, <2>2 DEF Base, Types
<1>2. /\ bill \in Nat /\ meter \in Nat /\ escaped \in Nat /\ MaxCost \in Nat /\ Ceiling \in Nat \ {0}
      /\ all \in Nat
    BY <1>1, CallBounds, FS_CardinalityType DEF Types
<1>3. c \in 0..MaxCost /\ d \in 0..MaxCost
    BY <1>1, TaskShape
<1>4. owed \in Nat /\ owedNext \in Nat /\ owedNext + c = owed + d
    BY <1>1, OwedChange
<1>5. /\ let \in Nat /\ letNext \in Nat /\ letNext <= let + 1
      /\ NotLater(s) => letNext <= let
      /\ slot[s].step \in Spending /\ slot'[s].step \notin Spending => letNext + 1 <= let
    <2>1. let \in Nat /\ letNext \in Nat /\ letNext <= let + 1
        BY <1>1, CommittedChange
    <2>2. (slot'[s].step \in Spending => slot[s].step \in Spending) => letNext <= let
        BY <1>1, CommittedChange
    <2>3. slot[s].step \in Spending /\ slot'[s].step \notin Spending => letNext + 1 <= let
        BY <1>1, CommittedChange
    <2> QED BY <2>1, <2>2, <2>3 DEF NotLater
<1>6. bill <= meter + owed + MaxCost * escaped /\ bill + MaxCost * let <= Ceiling - 1 + MaxCost * (all + escaped)
    BY DEF Account, Accounted, Covered
<1>7. LetThrough(s) => owed + MaxCost * (let + 1) <= MaxCost * all
    <2> SUFFICES ASSUME LetThrough(s) PROVE owed + MaxCost * (let + 1) <= MaxCost * all
        OBVIOUS
    <2>1. slot[s].cost = 0 /\ slot[s].step \notin Spending
        BY DEF LetThrough
    <2>2. \A r \in Slots : slot[r].cost > 0 => slot[r].step \notin Spending
        <3>1. \A r \in Slots : slot[r].cost > 0 => slot[r].step \in {"save", "record"}
            BY <1>1, IdleFits, CallBounds DEF Fits, Fit
        <3> QED BY <3>1 DEF Spending
    <2> QED BY <1>1, <2>1, <2>2, RoomForOne
<1>8. Account' <=> /\ bill' <= meter' + owedNext + MaxCost * escaped'
                   /\ bill' + MaxCost * letNext <= Ceiling - 1 + MaxCost * (all + escaped')
    BY DEF Account, Accounted, Covered
<1>9. Quits(s) => d = 0 /\ NotLater(s)
    BY DEF Quits, NotLater
<1>10. \A a, b \in Nat : /\ MaxCost * a \in Nat /\ MaxCost * (a + b) = MaxCost * a + MaxCost * b
                         /\ a <= b => MaxCost * a <= MaxCost * b
    BY Scale
<1> HIDE DEF owed, owedNext, let, letNext, c, d, all
<1>11. MaxCost * (escaped + 1) = MaxCost * escaped + MaxCost /\ MaxCost * escaped \in Nat
    BY <1>2
<1>12. /\ MaxCost * (all + escaped) = MaxCost * all + MaxCost * escaped
       /\ MaxCost * (all + (escaped + 1)) = MaxCost * all + MaxCost * escaped + MaxCost
       /\ MaxCost * all \in Nat
    BY <1>2
<1>13. /\ MaxCost * let \in Nat /\ MaxCost * letNext \in Nat
       /\ MaxCost * (let + 1) = MaxCost * let + MaxCost /\ MaxCost * (letNext + 1) = MaxCost * letNext + MaxCost
    BY <1>2, <1>5
<1>14. /\ letNext <= let => MaxCost * letNext <= MaxCost * let
       /\ letNext + 1 <= let => MaxCost * letNext + MaxCost <= MaxCost * let
       /\ MaxCost * letNext <= MaxCost * let + MaxCost
    <2>1. letNext + 1 \in Nat /\ let + 1 \in Nat
        BY <1>5
    <2>2. letNext <= let => MaxCost * letNext <= MaxCost * let
        BY <1>5, <1>10
    <2>3. letNext + 1 <= let => MaxCost * (letNext + 1) <= MaxCost * let
        BY <1>5, <1>10, <2>1
    <2>4. MaxCost * letNext <= MaxCost * (let + 1)
        BY <1>5, <1>10, <2>1
    <2> QED BY <1>13, <2>2, <2>3, <2>4
<1>15. CASE GoesOn(s)
    <2>1. UNCHANGED <<bill, meter, escaped>> /\ d = c /\ letNext <= let
        BY <1>5, <1>15 DEF GoesOn, c, d
    <2>2. owedNext = owed
        BY <1>3, <1>4, <2>1
    <2> QED BY <1>2, <1>6, <1>8, <1>12, <1>13, <1>14, <2>1, <2>2
<1>16. CASE LetThrough(s)
    <2>1. UNCHANGED <<bill, meter, escaped>> /\ d = 0 /\ c = 0 /\ meter <= Ceiling - 1
        BY <1>2, <1>16 DEF LetThrough, c, d, IsOverBudget
    <2>2. owedNext = owed
        BY <1>4, <2>1
    <2>3. bill + MaxCost * letNext <= Ceiling - 1 + (MaxCost * all + MaxCost * escaped)
        BY <1>2, <1>4, <1>6, <1>7, <1>11, <1>12, <1>13, <1>14, <1>16, <2>1
    <2> QED BY <1>2, <1>6, <1>8, <1>12, <2>1, <2>2, <2>3
<1>17. CASE Unchecked(s)
    <2>1. UNCHANGED <<bill, meter>> /\ escaped' = escaped + 1 /\ d = 0 /\ c = 0
        BY <1>17 DEF Unchecked, c, d
    <2>2. owedNext = owed
        BY <1>4, <2>1
    <2>3. bill <= meter + owedNext + MaxCost * escaped'
        BY <1>2, <1>4, <1>6, <1>11, <2>1, <2>2
    <2>4. bill + MaxCost * letNext <= Ceiling - 1 + MaxCost * (all + escaped')
        BY <1>2, <1>6, <1>11, <1>12, <1>13, <1>14, <2>1
    <2> QED BY <1>8, <2>1, <2>3, <2>4
<1>18. CASE Charges(s)
    <2>1. PICK cost \in 1..MaxCost : bill' = bill + cost /\ d = cost
        BY <1>18 DEF Charges, d
    <2>2. UNCHANGED <<meter, escaped>> /\ c = 0 /\ letNext + 1 <= let
        BY <1>5, <1>18 DEF Charges, c
    <2>3. owedNext = owed + cost /\ cost \in Nat /\ cost <= MaxCost
        BY <1>2, <1>4, <2>1, <2>2
    <2>4. bill' <= meter' + owedNext + MaxCost * escaped'
        BY <1>2, <1>4, <1>6, <1>11, <2>1, <2>2, <2>3
    <2>5. bill' + MaxCost * letNext <= Ceiling - 1 + MaxCost * (all + escaped')
        BY <1>2, <1>6, <1>12, <1>13, <1>14, <2>1, <2>2, <2>3
    <2> QED BY <1>8, <2>4, <2>5
<1>19. CASE ThrowsAway(s)
    <2>1. PICK cost \in 1..MaxCost : bill' = bill + cost
        BY <1>19 DEF ThrowsAway
    <2>2. UNCHANGED meter /\ escaped' = escaped + 1 /\ c = 0 /\ d = 0 /\ letNext <= let
        BY <1>5, <1>19 DEF ThrowsAway, c, d
    <2>3. owedNext = owed /\ cost \in Nat /\ cost <= MaxCost
        BY <1>2, <1>4, <2>1, <2>2
    <2>4. bill' <= meter' + owedNext + MaxCost * escaped'
        BY <1>2, <1>4, <1>6, <1>11, <2>1, <2>2, <2>3
    <2>5. bill' + MaxCost * letNext <= Ceiling - 1 + MaxCost * (all + escaped')
        BY <1>2, <1>6, <1>11, <1>12, <1>13, <1>14, <2>1, <2>2, <2>3
    <2> QED BY <1>8, <2>4, <2>5
<1>20. CASE Records(s)
    <2>1. meter' = meter + c /\ UNCHANGED <<bill, escaped>> /\ d = 0 /\ letNext <= let
        BY <1>5, <1>9, <1>20 DEF Records, c
    <2>2. owedNext + c = owed /\ c \in Nat
        BY <1>2, <1>3, <1>4, <2>1
    <2>3. bill' <= meter' + owedNext + MaxCost * escaped'
        BY <1>2, <1>4, <1>6, <1>11, <2>1, <2>2
    <2>4. bill' + MaxCost * letNext <= Ceiling - 1 + MaxCost * (all + escaped')
        BY <1>2, <1>6, <1>12, <1>13, <1>14, <2>1
    <2> QED BY <1>8, <2>3, <2>4
<1>21. CASE Loses(s)
    <2>1. UNCHANGED <<bill, meter>> /\ escaped' = escaped + (IF c > 0 THEN 1 ELSE 0) /\ d = 0 /\ letNext <= let
        BY <1>5, <1>21 DEF Loses, Lose, c, d
    <2>2. owedNext + c = owed /\ c \in Nat /\ c <= MaxCost
        BY <1>2, <1>3, <1>4, <2>1
    <2>3. CASE c > 0
        <3>1. escaped' = escaped + 1
            BY <2>1, <2>3
        <3>2. bill' <= meter' + owedNext + MaxCost * escaped'
            BY <1>2, <1>4, <1>6, <1>11, <2>1, <2>2, <3>1
        <3>3. bill' + MaxCost * letNext <= Ceiling - 1 + MaxCost * (all + escaped')
            BY <1>2, <1>6, <1>11, <1>12, <1>13, <1>14, <2>1, <3>1
        <3> QED BY <1>8, <3>2, <3>3
    <2>4. CASE c = 0
        <3>1. escaped' = escaped
            BY <1>2, <2>1, <2>4
        <3>2. bill' <= meter' + owedNext + MaxCost * escaped'
            BY <1>2, <1>4, <1>6, <1>11, <2>1, <2>2, <2>4, <3>1
        <3>3. bill' + MaxCost * letNext <= Ceiling - 1 + MaxCost * (all + escaped')
            BY <1>2, <1>6, <1>12, <1>13, <1>14, <2>1, <3>1
        <3> QED BY <1>8, <3>2, <3>3
    <2> QED BY <2>2, <2>3, <2>4
<1> QED BY <1>15, <1>16, <1>17, <1>18, <1>19, <1>20, <1>21, WorkAccounts

LEMMA AccountStart ==
    ASSUME Base, Account, NEW s \in Slots, Start(s)
    PROVE  Account'
<1>1. /\ Base' /\ At(s, "idle") /\ \A r \in Slots : r # s => slot'[r] = slot[r]
      /\ \E step, task, of : Starts(task, step) /\ slot'[s] = Doing(step, task, of, 0)
    BY StartBase
<1>2. slot \in [Slots -> Task] /\ slot' \in [Slots -> Task] /\ UNCHANGED <<bill, meter, escaped>>
    BY <1>1 DEF Base, Types, Start, TakeJob, Ask, costVars
<1>3. slot[s].cost = 0
    <2>1. slot[s] = Idle
        BY <1>1 DEF Base, Fits, Fit, StepOfTask, At
    <2> QED BY <2>1, IdleFits
<1>4. slot'[s].cost = 0 /\ slot'[s].step \notin Spending
    <2>1. PICK step, task, of : Starts(task, step) /\ slot'[s] = Doing(step, task, of, 0)
        BY <1>1
    <2> QED BY <2>1, DoingIs DEF Starts, Spending
<1>5. Cardinality(OwedOf(slot')) = Cardinality(OwedOf(slot))
    BY <1>1, <1>2, <1>3, <1>4, OwedChange
<1>6. /\ Cardinality(CommittedOf(slot')) <= Cardinality(CommittedOf(slot))
      /\ Cardinality(CommittedOf(slot')) \in Nat /\ Cardinality(CommittedOf(slot)) \in Nat
    BY <1>1, <1>2, <1>4, CommittedChange
<1>7. /\ MaxCost * Cardinality(CommittedOf(slot')) <= MaxCost * Cardinality(CommittedOf(slot))
      /\ MaxCost * Cardinality(CommittedOf(slot')) \in Nat /\ MaxCost * Cardinality(CommittedOf(slot)) \in Nat
    BY <1>6, Scale
<1>8. bill \in Nat /\ Ceiling \in Nat /\ MaxCost * (Cardinality(Slots) + escaped) \in Nat
    <2>1. Cardinality(Slots) + escaped \in Nat /\ bill \in Nat /\ Ceiling \in Nat
        BY CallBounds, FS_CardinalityType DEF Base, Types
    <2> QED BY <2>1, Scale
<1>9. Accounted'
    BY <1>2, <1>5 DEF Account, Accounted
<1>10. Covered'
    <2>1. bill + MaxCost * Cardinality(CommittedOf(slot)) <= Ceiling - 1 + MaxCost * (Cardinality(Slots) + escaped)
        BY DEF Account, Covered
    <2>2. bill + MaxCost * Cardinality(CommittedOf(slot')) <= Ceiling - 1 + MaxCost * (Cardinality(Slots) + escaped)
        BY <1>7, <1>8, <2>1
    <2> QED BY <1>2, <2>2 DEF Covered
<1> QED BY <1>9, <1>10 DEF Account

\* A day that begins has been charged nothing; the tasks in flight cost no more
\* than one call each.
LEMMA FreshDay ==
    ASSUME Types, NEW f \in [Slots -> Task]
    PROVE  /\ 0 <= 0 + Cardinality(OwedOf(f)) + MaxCost * escaped
           /\ 0 + MaxCost * Cardinality(CommittedOf(f)) <= Ceiling - 1 + MaxCost * (Cardinality(Slots) + escaped)
<1>1. IsFiniteSet(Slots) /\ Cardinality(Slots) \in Nat /\ Ceiling \in Nat \ {0} /\ MaxCost \in Nat /\ escaped \in Nat
    BY CallBounds, FS_CardinalityType DEF Types
<1>2. Cardinality(OwedOf(f)) \in Nat
    <2>1. IsFiniteSet(Slots \X (1..MaxCost))
        <3>1. IsFiniteSet(1..MaxCost)
            BY <1>1, FS_Interval
        <3> QED BY <1>1, <3>1, FS_Product
    <2>2. IsFiniteSet(OwedOf(f))
        BY <2>1, FS_Subset DEF OwedOf
    <2> QED BY <2>2, FS_CardinalityType
<1>3. Cardinality(CommittedOf(f)) <= Cardinality(Slots) /\ Cardinality(CommittedOf(f)) \in Nat
    <2>1. CommittedOf(f) \subseteq Slots
        BY DEF CommittedOf
    <2> QED BY <1>1, <2>1, FS_Subset, FS_CardinalityType
<1>4. Cardinality(Slots) + escaped \in Nat /\ Cardinality(CommittedOf(f)) <= Cardinality(Slots) + escaped
    BY <1>1, <1>3
<1>5. /\ MaxCost * Cardinality(CommittedOf(f)) <= MaxCost * (Cardinality(Slots) + escaped)
      /\ MaxCost * Cardinality(CommittedOf(f)) \in Nat /\ MaxCost * (Cardinality(Slots) + escaped) \in Nat
      /\ MaxCost * escaped \in Nat
    BY <1>1, <1>3, <1>4, Scale
<1> QED BY <1>1, <1>2, <1>5

LEMMA AccountInit == Init => Account
<1> SUFFICES ASSUME Init PROVE Account
    OBVIOUS
<1>1. Types /\ slot \in [Slots -> Task] /\ bill = 0 /\ meter = 0
    BY BaseInit DEF Base, Types, Init
<1> QED BY <1>1, FreshDay DEF Account, Accounted, Covered

LEMMA AccountNext == Base /\ Account /\ [Next]_vars => Account'
<1> SUFFICES ASSUME Base, Account, [Next]_vars PROVE Account'
    OBVIOUS
<1>1. ASSUME UNCHANGED <<bill, meter, escaped, slot>> PROVE Account'
    BY <1>1 DEF Account, Accounted, Covered
<1>2. CASE Come \/ Backfill
    <2>1. UNCHANGED <<bill, meter, escaped, slot>>
        BY <1>2 DEF Come, Arrive, Purge, Forget, Backfill, Look, QueueBackfill, MarkBackfilled, costVars
    <2> QED BY <1>1, <2>1
<1>3. CASE Midnight
    <2>1. Base' /\ bill' = 0 /\ meter' = 0
        BY <1>3, OtherBase DEF Midnight
    <2>2. UNCHANGED <<escaped, slot>>
        BY <1>3 DEF Midnight
    <2>3. /\ 0 <= 0 + Cardinality(OwedOf(slot)) + MaxCost * escaped
          /\ 0 + MaxCost * Cardinality(CommittedOf(slot)) <= Ceiling - 1 + MaxCost * (Cardinality(Slots) + escaped)
        BY FreshDay DEF Base, Types
    <2> QED BY <2>1, <2>2, <2>3 DEF Account, Accounted, Covered
<1>4. CASE \E s \in Slots : Start(s) \/ Work(s)
    BY <1>4, AccountStart, AccountWork
<1>5. CASE UNCHANGED vars
    BY <1>1, <1>5 DEF vars, costVars
<1> QED BY <1>2, <1>3, <1>4, <1>5 DEF Next

\* For any ceiling, any cost of a call and any number of tasks at once: what
\* providers charge in a day passes the ceiling by at most one call for each task,
\* besides the calls that escaped the account.
THEOREM DaysSpendIsBounded == Spec => []SpendBounded
<1>1. Base /\ Account => SpendBounded
    <2> SUFFICES ASSUME Base, Account PROVE SpendBounded
        OBVIOUS
    <2>1. Cardinality(CommittedOf(slot)) \in Nat
        BY CallBounds, FS_Subset, FS_CardinalityType DEF CommittedOf
    <2>2. Cardinality(Slots) + escaped \in Nat /\ bill \in Nat /\ Ceiling \in Nat
        BY CallBounds, FS_CardinalityType DEF Base, Types
    <2>3. MaxCost * Cardinality(CommittedOf(slot)) \in Nat /\ MaxCost * (Cardinality(Slots) + escaped) \in Nat
        BY <2>1, <2>2, Scale
    <2>4. bill + MaxCost * Cardinality(CommittedOf(slot)) <= Ceiling - 1 + MaxCost * (Cardinality(Slots) + escaped)
        BY DEF Account, Covered
    <2> QED BY <2>2, <2>3, <2>4 DEF SpendBounded
<1> QED BY <1>1, BaseInit, BaseNext, AccountInit, AccountNext, PTL DEF Spec
=============================================================================
