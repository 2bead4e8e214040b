--------------------------- MODULE SchedulerProofs ---------------------------
(***************************************************************************)
(* What holds of the conformance scheduler for every set of tests, every   *)
(* number of threads and of workers, and every file that cannot be read:   *)
(* no test is lost or run twice in a phase, the files of tasks with        *)
(* different names do not disturb each other, and exit code 0 is honest.   *)
(***************************************************************************)
EXTENDS Scheduler, TLAPS

\* What a thread holds goes with where its task is.
Control ==
  /\ main # "deal" => undealt = {}
  /\ main = "deal" => gathered = 0 /\ counted = {} /\ \A t \in Thread : pc[t] = "idle"
  /\ \A t \in Thread : pc[t] = "idle" => done[t] = {} /\ failed[t] = {}
  /\ \A t \in Thread :
       pc[t] \in {"idle", "ready", "next", "ended", "raised"} => current[t] = {}
  /\ \A t \in Thread : pc[t] = "ended" => queue[t] = {}
  /\ \A t \in Thread : t < gathered => pc[t] = "ended"
  /\ main # "exit" => exit = NoExit

\* The tests of the phase are those to be dealt and those of the threads, but
\* for one lost with a task that ended with an error.
Partition ==
  /\ undealt \subseteq ToRun(phase)
  /\ \A t \in Thread : Held(t) \subseteq ToRun(phase)
  /\ \A x \in ToRun(phase) :
       x \in undealt \/ \E t \in Thread : x \in Held(t) \/ pc[t] = "raised"
  /\ OnePlace
  /\ \A t \in Thread : queue[t] \intersect current[t] = {}
  /\ \A x : x \in counted <=> \E t \in Thread : t < gathered /\ x \in done[t]

\* Without a collision the name of a task is its own, and so is its file.
FilesApart ==
  ~collided =>
    /\ wrong = {}
    /\ \A t, u \in Thread : t # u /\ HasName(t) /\ HasName(u) => name[t] # name[u]
    /\ \A t \in Thread : pc[t] \in {"run", "remove"} => files[name[t]] = t

\* All results of a phase are in when all tasks are gathered.
Counted == main = "gather" /\ gathered = Threads => counted = ToRun(phase)

\* The tests of the phases before.
Earlier(p) == {x \in Tests : \E q \in 1 .. 3 : q < p /\ x \in ToRun(q)}
Fails(x) == verdict[x] = "failure" /\ x \notin wrong
FailuresKept ==
  /\ \A t \in Thread : \A x \in done[t] : Fails(x) => x \in failed[t]
  /\ \A x \in counted \union ran : Fails(x) => x \in failures
  /\ main # "exit" => ran = Earlier(phase)
  /\ exit = "0" => ran = Tests \ Blacklisted /\ failures \subseteq Excused

IInv == TypeOK /\ Control /\ Partition /\ FilesApart /\ FailuresKept

----------------------------------------------------------------------------
(* The phases *)

\* The tests of a phase are tests, and the three phases have all that are not
\* on the blacklist.
LEMMA PhasesCover ==
  /\ \A p \in 1 .. 3 : ToRun(p) \subseteq Tests \ Blacklisted
  /\ ToRun(1) \union ToRun(2) \union ToRun(3) = Tests \ Blacklisted
  BY SchedulerAssumption, SMTT(30) DEF ToRun

\* A step of the program is one of the main thread, of a task, or of neither.
LEMMA StepCases ==
  ASSUME [Next]_vars
  PROVE  \/ Deal \/ Spawn \/ Gather \/ NextPhase \/ Finish
         \/ \E t \in Thread : \/ Start(t) \/ Take(t) \/ Write(t) \/ RunPython(t)
                              \/ Remove(t) \/ Record(t) \/ End(t)
         \/ UNCHANGED vars
  BY DEF Next, Main, Task

----------------------------------------------------------------------------
(* Type correctness *)

LEMMA NoTests == [t \in Thread |-> {}] \in [Thread -> SUBSET Tests]
  <1>1. {} \in SUBSET Tests
    OBVIOUS
  <1> QED
    BY <1>1, Zenon

LEMMA TypeInit == Init => TypeOK
  <1> SUFFICES ASSUME Init PROVE TypeOK
    OBVIOUS
  <1>1. undealt \subseteq Tests /\ verdict \in [Tests -> Verdicts]
    BY PhasesCover, SchedulerAssumption DEF Init
  <1>2. 0 \in Thread /\ gathered \in 0 .. Threads
    BY SchedulerAssumption DEF Init, Thread
  <1>3. /\ queue \in [Thread -> SUBSET Tests] /\ current \in [Thread -> SUBSET Tests]
        /\ done \in [Thread -> SUBSET Tests] /\ failed \in [Thread -> SUBSET Tests]
    BY NoTests DEF Init
  <1>4. pc \in [Thread -> {"idle", "ready", "next", "write", "run", "remove", "record",
                          "ended", "raised"}]
    BY DEF Init
  <1>5. files \in [Names -> Thread \union {Absent}]
    BY DEF Init
  <1> QED
    <2>1. phase \in 1 .. 3 /\ main \in {"deal", "gather", "exit"} /\ thread \in Thread
      BY <1>2 DEF Init
    <2>2. /\ name \in [Thread -> Names] /\ wrong \subseteq Tests /\ collided \in BOOLEAN
          /\ counted \subseteq Tests /\ ran \subseteq Tests /\ failures \subseteq Tests
          /\ exit \in {NoExit, "0", "1", "error"}
      BY DEF Init
    <2> QED
      BY <1>1, <1>2, <1>3, <1>4, <1>5, <2>1, <2>2, Zenon DEF TypeOK

LEMMA TypeStep == TypeOK /\ [Next]_vars => TypeOK'
  <1> SUFFICES ASSUME TypeOK, [Next]_vars PROVE TypeOK'
    OBVIOUS
  <1>1. CASE Deal
    <2>1. NextThread(thread) \in Thread
      BY SchedulerAssumption, SMT DEF NextThread, Thread, TypeOK
    <2> QED
      BY <1>1, <2>1 DEF Deal, TypeOK, fileVars
  <1>2. CASE Spawn
    BY <1>2 DEF Spawn, TypeOK, fileVars
  <1>3. CASE Gather
    <2>1. gathered \in Thread /\ gathered + 1 \in 0 .. Threads
      BY <1>3, SchedulerAssumption DEF Gather, TypeOK, Thread
    <2> QED
      BY <1>3, <2>1 DEF Gather, TypeOK, fileVars, taskVars
  <1>4. CASE NextPhase
    <2>1. phase + 1 \in 1 .. 3 /\ 0 \in Thread /\ 0 \in 0 .. Threads
      BY <1>4, SchedulerAssumption DEF NextPhase, TypeOK, Thread
    <2>2. /\ queue' \in [Thread -> SUBSET Tests] /\ done' \in [Thread -> SUBSET Tests]
          /\ failed' \in [Thread -> SUBSET Tests]
      BY <1>4, NoTests DEF NextPhase
    <2>3. undealt' \subseteq Tests
      BY <1>4, <2>1, PhasesCover DEF NextPhase
    <2>4. pc' \in [Thread -> {"idle"}]
      BY <1>4 DEF NextPhase
    <2> QED
      BY <1>4, <2>1, <2>2, <2>3, <2>4 DEF NextPhase, TypeOK, fileVars
  <1>5. CASE Finish
    BY <1>5 DEF Finish, TypeOK, fileVars, taskVars
  <1>6. ASSUME NEW t \in Thread, Start(t) PROVE TypeOK'
    BY <1>6 DEF Start, TypeOK, Goto, mainVars, fileVars
  <1>7. ASSUME NEW t \in Thread, Take(t) PROVE TypeOK'
    <2>1. PICK x \in queue[t] : Take(t)!2!(x)
      BY <1>7 DEF Take
    <2>2. collided' \in BOOLEAN /\ name' \in [Thread -> Names]
      BY <2>1 DEF TypeOK, fileVars
    <2>3. current' \in [Thread -> SUBSET Tests] /\ done' \in [Thread -> SUBSET Tests]
      BY <2>1 DEF TypeOK, fileVars
    <2>4. queue' \in [Thread -> SUBSET Tests] /\ files' = files /\ wrong' = wrong
      BY <2>1 DEF TypeOK, fileVars
    <2>5. pc' \in [Thread -> {"idle", "ready", "next", "write", "run", "remove", "record",
                              "ended", "raised"}]
      BY <2>1 DEF TypeOK, Goto
    <2> QED
      BY <1>7, <2>2, <2>3, <2>4, <2>5 DEF Take, TypeOK, mainVars
  <1>8. ASSUME NEW t \in Thread, Write(t) PROVE TypeOK'
    BY <1>8 DEF Write, TypeOK, Goto, mainVars
  <1>9. ASSUME NEW t \in Thread, RunPython(t) PROVE TypeOK'
    BY <1>9 DEF RunPython, TypeOK, Goto, mainVars
  <1>10. ASSUME NEW t \in Thread, Remove(t) PROVE TypeOK'
    BY <1>10 DEF Remove, Removed, TypeOK, Goto, mainVars
  <1>11. ASSUME NEW t \in Thread, Record(t) PROVE TypeOK'
    BY <1>11 DEF Record, AfterTest, TypeOK, Goto, mainVars, fileVars
  <1>12. ASSUME NEW t \in Thread, End(t) PROVE TypeOK'
    BY <1>12 DEF End, TypeOK, Goto, mainVars, fileVars
  <1>13. CASE UNCHANGED vars
    BY <1>13 DEF vars, mainVars, fileVars, taskVars, TypeOK
  <1> QED
    BY <1>1, <1>2, <1>3, <1>4, <1>5, <1>6, <1>7, <1>8, <1>9, <1>10, <1>11, <1>12, <1>13,
       StepCases

----------------------------------------------------------------------------
(* What a thread holds *)

LEMMA ControlInit == Init => Control
  BY SchedulerAssumption, SMT DEF Init, Control, Thread

LEMMA ControlStep == TypeOK /\ Control /\ [Next]_vars => Control'
  <1> SUFFICES ASSUME TypeOK /\ Control, [Next]_vars PROVE Control'
    OBVIOUS
  <1>1. CASE Deal
    BY <1>1 DEF Deal, Control, TypeOK, Thread, mainVars, fileVars, taskVars
  <1>2. CASE Spawn
    BY <1>2 DEF Spawn, Control, TypeOK, Thread, mainVars, fileVars, taskVars
  <1>3. CASE Gather
    BY <1>3 DEF Gather, Control, TypeOK, Thread, mainVars, fileVars, taskVars
  <1>4. CASE NextPhase
    BY <1>4 DEF NextPhase, Control, TypeOK, Thread, mainVars, fileVars, taskVars
  <1>5. CASE Finish
    BY <1>5 DEF Finish, Control, TypeOK, Thread, mainVars, fileVars, taskVars
  <1>6. ASSUME NEW t \in Thread, Start(t) PROVE Control'
    BY <1>6 DEF Start, Goto, Control, TypeOK, mainVars, fileVars, AfterTest
  <1>7. ASSUME NEW t \in Thread, Take(t) PROVE Control'
    BY <1>7 DEF Take, Goto, Control, TypeOK, mainVars, fileVars, AfterTest
  <1>8. ASSUME NEW t \in Thread, Write(t) PROVE Control'
    BY <1>8 DEF Write, Goto, Control, TypeOK, mainVars, fileVars, AfterTest
  <1>9. ASSUME NEW t \in Thread, RunPython(t) PROVE Control'
    BY <1>9 DEF RunPython, Goto, Control, TypeOK, mainVars, fileVars, AfterTest
  <1>10. ASSUME NEW t \in Thread, Remove(t) PROVE Control'
    BY <1>10 DEF Remove, Goto, Control, TypeOK, mainVars, fileVars, AfterTest
  <1>11. ASSUME NEW t \in Thread, Record(t) PROVE Control'
    BY <1>11 DEF Record, Goto, Control, TypeOK, mainVars, fileVars, AfterTest
  <1>12. ASSUME NEW t \in Thread, End(t) PROVE Control'
    BY <1>12 DEF End, Goto, Control, TypeOK, mainVars, fileVars, AfterTest
  <1>13. CASE UNCHANGED vars
    BY <1>13 DEF vars, Control, TypeOK, Thread, mainVars, fileVars, taskVars
  <1> QED
    BY <1>1, <1>2, <1>3, <1>4, <1>5, <1>6, <1>7, <1>8, <1>9, <1>10, <1>11,
       <1>12, <1>13, StepCases

----------------------------------------------------------------------------
(* The files of the tasks *)

LEMMA FilesInit == Init => FilesApart
  BY SMT DEF Init, FilesApart, HasName

LEMMA FilesStep == TypeOK /\ FilesApart /\ [Next]_vars => FilesApart'
  <1> SUFFICES ASSUME TypeOK /\ FilesApart, [Next]_vars PROVE FilesApart'
    OBVIOUS
  <1>1. CASE Deal
    BY <1>1 DEF Deal, FilesApart, HasName, TypeOK, mainVars, fileVars, taskVars
  <1>2. CASE Spawn
    BY <1>2 DEF Spawn, FilesApart, HasName, TypeOK, mainVars, fileVars, taskVars
  <1>3. CASE Gather
    BY <1>3 DEF Gather, FilesApart, HasName, TypeOK, mainVars, fileVars, taskVars
  <1>4. CASE NextPhase
    BY <1>4 DEF NextPhase, FilesApart, HasName, TypeOK, mainVars, fileVars, taskVars
  <1>5. CASE Finish
    BY <1>5 DEF Finish, FilesApart, HasName, TypeOK, mainVars, fileVars, taskVars
  <1>6. ASSUME NEW t \in Thread, Start(t) PROVE FilesApart'
    BY <1>6 DEF Start, Goto, FilesApart, HasName, TypeOK, mainVars, fileVars, AfterTest, Absent, Thread, Removed
  <1>7. ASSUME NEW t \in Thread, Take(t) PROVE FilesApart'
    <2>1. PICK x \in queue[t] : Take(t)!2!(x)
      BY <1>7 DEF Take
    <2>2. CASE pc' = pc \/ pc' = [pc EXCEPT ![t] = "raised"]
      <3>1. pc[t] = "next" /\ pc'[t] # "write"
        BY <1>7, <2>2 DEF Take, TypeOK
      <3>2. UNCHANGED fileVars
        BY <2>1, <3>1 DEF Goto, TypeOK
      <3> QED
        BY <2>2, <3>2 DEF FilesApart, HasName, TypeOK, fileVars
    <2>3. CASE pc' = [pc EXCEPT ![t] = "write"]
      <3>1. PICK n \in Names :
              /\ name' = [name EXCEPT ![t] = n]
              /\ collided' = (collided \/ \E u \in Thread \ {t} : HasName(u) /\ name[u] = n)
        BY <1>7, <2>1, <2>3 DEF Goto, TypeOK, Take
      <3>2. UNCHANGED <<files, wrong>>
        BY <2>1 DEF fileVars
      <3>3. ASSUME ~collided'
            PROVE  ~collided /\ \A u \in Thread \ {t} : HasName(u) => name[u] # n
        BY <3>1, <3>3
      <3>4. \A u \in Thread \ {t} : name'[u] = name[u] /\ pc'[u] = pc[u]
        BY <2>3, <3>1 DEF TypeOK
      <3>5. name'[t] = n /\ pc'[t] = "write"
        BY <2>3, <3>1 DEF TypeOK
      <3> QED
        BY <3>2, <3>3, <3>4, <3>5 DEF FilesApart, HasName
    <2> QED
      BY <2>1, <2>2, <2>3 DEF Goto, fileVars
  <1>8. ASSUME NEW t \in Thread, Write(t) PROVE FilesApart'
    BY <1>8 DEF Write, Goto, FilesApart, HasName, TypeOK, mainVars, fileVars, AfterTest, Absent, Thread, Removed
  <1>9. ASSUME NEW t \in Thread, RunPython(t) PROVE FilesApart'
    BY <1>9 DEF RunPython, Goto, FilesApart, HasName, TypeOK, mainVars, fileVars, AfterTest, Absent, Thread, Removed
  <1>10. ASSUME NEW t \in Thread, Remove(t) PROVE FilesApart'
    BY <1>10 DEF Remove, Goto, FilesApart, HasName, TypeOK, mainVars, fileVars, AfterTest, Absent, Thread, Removed
  <1>11. ASSUME NEW t \in Thread, Record(t) PROVE FilesApart'
    BY <1>11 DEF Record, Goto, FilesApart, HasName, TypeOK, mainVars, fileVars, AfterTest, Absent, Thread, Removed
  <1>12. ASSUME NEW t \in Thread, End(t) PROVE FilesApart'
    BY <1>12 DEF End, Goto, FilesApart, HasName, TypeOK, mainVars, fileVars, AfterTest, Absent, Thread, Removed
  <1>13. CASE UNCHANGED vars
    BY <1>13 DEF vars, FilesApart, HasName, TypeOK, mainVars, fileVars, taskVars
  <1> QED
    BY <1>1, <1>2, <1>3, <1>4, <1>5, <1>6, <1>7, <1>8, <1>9, <1>10, <1>11,
       <1>12, <1>13, StepCases

----------------------------------------------------------------------------
(* The failures *)

LEMMA FailuresInit == Init => FailuresKept
  BY SMT DEF Init, FailuresKept, Earlier, NoExit

LEMMA FailuresStep ==
  TypeOK /\ Control /\ Counted /\ FailuresKept /\ [Next]_vars => FailuresKept'
  <1> SUFFICES ASSUME TypeOK /\ Control /\ Counted /\ FailuresKept, [Next]_vars PROVE FailuresKept'
    OBVIOUS
  <1>1. CASE Deal
    BY <1>1 DEF Deal, FailuresKept, Fails, Control, TypeOK, mainVars, fileVars, taskVars
  <1>2. CASE Spawn
    BY <1>2 DEF Spawn, FailuresKept, Fails, Control, TypeOK, mainVars, fileVars, taskVars
  <1>3. CASE Gather
    <2>1. gathered \in Thread
      BY <1>3, SchedulerAssumption DEF Gather, TypeOK, Thread
    <2>2. UNCHANGED <<verdict, wrong, done, failed, ran, phase>>
      BY <1>3 DEF Gather, fileVars, taskVars
    <2>3. CASE pc[gathered] = "ended"
      <3>1. /\ counted' = counted \union done[gathered]
            /\ failures' = failures \union failed[gathered]
            /\ UNCHANGED <<main, exit>>
        BY <1>3, <2>3 DEF Gather
      <3>2. exit # "0"
        BY <1>3 DEF Gather, Control, NoExit
      <3> QED
        BY <2>1, <2>2, <3>1, <3>2 DEF FailuresKept, Fails, Earlier
    <2>4. CASE main' = "exit" /\ exit' = "error" /\ UNCHANGED <<counted, failures>>
      BY <2>2, <2>4 DEF FailuresKept, Fails
    <2> QED
      BY <1>3, <2>3, <2>4 DEF Gather
  <1>4. CASE NextPhase
    <2>1. counted = ToRun(phase) /\ phase \in 1 .. 2 /\ exit # "0"
      BY <1>4 DEF NextPhase, Counted, Control, TypeOK, NoExit
    <2>2. Earlier(phase + 1) = Earlier(phase) \union ToRun(phase)
      BY <2>1, PhasesCover DEF Earlier
    <2>3. /\ phase' = phase + 1 /\ ran' = ran \union counted /\ counted' = {}
          /\ done' = [t \in Thread |-> {}]
          /\ UNCHANGED <<verdict, wrong, failures, exit>>
      BY <1>4 DEF NextPhase, fileVars
    <2>4. ran = Earlier(phase)
      BY <1>4 DEF NextPhase, FailuresKept
    <2>5. ran' = Earlier(phase')
      BY <2>1, <2>2, <2>3, <2>4
    <2> QED
      BY <2>1, <2>3, <2>5 DEF FailuresKept, Fails
  <1>5. CASE Finish
    <2>1. counted = ToRun(3) /\ ran = Earlier(3)
      BY <1>5 DEF Finish, Counted, FailuresKept
    <2>2. Earlier(3) = ToRun(1) \union ToRun(2)
      BY PhasesCover DEF Earlier
    <2>3. /\ ran' = ran \union counted /\ main' = "exit"
          /\ exit' = "0" => failures \subseteq Excused
          /\ UNCHANGED <<verdict, wrong, counted, failures, done, failed>>
      BY <1>5 DEF Finish, fileVars, taskVars
    <2>4. ran' = Tests \ Blacklisted
      BY <2>1, <2>2, <2>3, PhasesCover
    <2> QED
      BY <2>3, <2>4 DEF FailuresKept, Fails
  <1>6. ASSUME NEW t \in Thread, Start(t) PROVE FailuresKept'
    BY <1>6 DEF Start, Goto, FailuresKept, Fails, Control, TypeOK, mainVars, fileVars, AfterTest
  <1>7. ASSUME NEW t \in Thread, Take(t) PROVE FailuresKept'
    BY <1>7 DEF Take, Goto, FailuresKept, Fails, Control, TypeOK, mainVars, fileVars, AfterTest
  <1>8. ASSUME NEW t \in Thread, Write(t) PROVE FailuresKept'
    BY <1>8 DEF Write, Goto, FailuresKept, Fails, Control, TypeOK, mainVars, fileVars, AfterTest
  <1>9. ASSUME NEW t \in Thread, RunPython(t) PROVE FailuresKept'
    BY <1>9 DEF RunPython, Goto, FailuresKept, Fails, Control, TypeOK, mainVars, fileVars, AfterTest
  <1>10. ASSUME NEW t \in Thread, Remove(t) PROVE FailuresKept'
    BY <1>10 DEF Remove, Goto, FailuresKept, Fails, Control, TypeOK, mainVars, fileVars, AfterTest
  <1>11. ASSUME NEW t \in Thread, Record(t) PROVE FailuresKept'
    BY <1>11 DEF Record, Goto, FailuresKept, Fails, Control, TypeOK, mainVars, fileVars, AfterTest
  <1>12. ASSUME NEW t \in Thread, End(t) PROVE FailuresKept'
    BY <1>12 DEF End, Goto, FailuresKept, Fails, Control, TypeOK, mainVars, fileVars, AfterTest
  <1>13. CASE UNCHANGED vars
    BY <1>13 DEF vars, FailuresKept, Fails, Control, TypeOK, mainVars, fileVars, taskVars
  <1> QED
    BY <1>1, <1>2, <1>3, <1>4, <1>5, <1>6, <1>7, <1>8, <1>9, <1>10, <1>11,
       <1>12, <1>13, StepCases

----------------------------------------------------------------------------
(* The tests of a phase *)

LEMMA PartitionInit == Init => Partition
  BY SMT DEF Init, Partition, OnePlace, Held

LEMMA PartitionStep == TypeOK /\ Control /\ Partition /\ [Next]_vars => Partition'
  <1> SUFFICES ASSUME TypeOK /\ Control /\ Partition, [Next]_vars PROVE Partition'
    OBVIOUS
  <1>1. CASE Deal
    BY <1>1 DEF Deal, Partition, OnePlace, Held, Control, TypeOK, mainVars, fileVars, taskVars
  <1>2. CASE Spawn
    BY <1>2 DEF Spawn, Partition, OnePlace, Held, Control, TypeOK, mainVars, fileVars, taskVars
  <1>3. CASE Gather
    <2>1. gathered \in Thread /\ \A t \in Thread : t < gathered + 1 <=> t < gathered \/ t = gathered
      BY <1>3, SchedulerAssumption DEF Gather, TypeOK, Thread
    <2>2. UNCHANGED <<phase, undealt, queue, current, done, pc>>
      BY <1>3 DEF Gather, taskVars
    <2>3. CASE counted' = counted \union done[gathered] /\ gathered' = gathered + 1
      BY <2>1, <2>2, <2>3 DEF Partition, OnePlace, Held
    <2>4. CASE UNCHANGED <<counted, gathered>>
      BY <2>2, <2>4 DEF Partition, OnePlace, Held
    <2> QED
      BY <1>3, <2>3, <2>4 DEF Gather
  <1>4. CASE NextPhase
    <2>1. \A t \in Thread : pc[t] = "ended"
      BY <1>4 DEF NextPhase, Control, TypeOK, Thread
    <2>2. \A t \in Thread : current'[t] = {} /\ queue'[t] = {} /\ done'[t] = {}
      BY <1>4, <2>1 DEF NextPhase, Control
    <2>3. /\ phase' = phase + 1 /\ undealt' = ToRun(phase') /\ counted' = {}
          /\ gathered' = 0
      BY <1>4 DEF NextPhase
    <2>4. \A t \in Thread : Held(t)' = {}
      BY <2>2 DEF Held
    <2> QED
      BY <2>2, <2>3, <2>4 DEF Partition, OnePlace
  <1>5. CASE Finish
    BY <1>5 DEF Finish, Partition, OnePlace, Held, Control, TypeOK, mainVars, fileVars, taskVars
  <1>6. ASSUME NEW t \in Thread, Start(t) PROVE Partition'
    BY <1>6 DEF Start, Goto, Partition, OnePlace, Held, Control, TypeOK, mainVars, fileVars, AfterTest
  <1>7. ASSUME NEW t \in Thread, Take(t) PROVE Partition'
    BY <1>7 DEF Take, Goto, Partition, OnePlace, Held, Control, TypeOK, mainVars, fileVars, AfterTest
  <1>8. ASSUME NEW t \in Thread, Write(t) PROVE Partition'
    BY <1>8 DEF Write, Goto, Partition, OnePlace, Held, Control, TypeOK, mainVars, fileVars, AfterTest
  <1>9. ASSUME NEW t \in Thread, RunPython(t) PROVE Partition'
    BY <1>9 DEF RunPython, Goto, Partition, OnePlace, Held, Control, TypeOK, mainVars, fileVars, AfterTest
  <1>10. ASSUME NEW t \in Thread, Remove(t) PROVE Partition'
    BY <1>10 DEF Remove, Goto, Partition, OnePlace, Held, Control, TypeOK, mainVars, fileVars, AfterTest
  <1>11. ASSUME NEW t \in Thread, Record(t) PROVE Partition'
    BY <1>11 DEF Record, Goto, Partition, OnePlace, Held, Control, TypeOK, mainVars, fileVars, AfterTest
  <1>12. ASSUME NEW t \in Thread, End(t) PROVE Partition'
    BY <1>12 DEF End, Goto, Partition, OnePlace, Held, Control, TypeOK, mainVars, fileVars, AfterTest
  <1>13. CASE UNCHANGED vars
    BY <1>13 DEF vars, Partition, OnePlace, Held, Control, TypeOK, mainVars, fileVars, taskVars
  <1> QED
    BY <1>1, <1>2, <1>3, <1>4, <1>5, <1>6, <1>7, <1>8, <1>9, <1>10, <1>11,
       <1>12, <1>13, StepCases

\* When all tasks are gathered none of them ended with an error, so that the
\* tests of the threads are those of the phase, and they are done.
LEMMA AllCounted == TypeOK /\ Control /\ Partition => Counted
  <1> SUFFICES ASSUME TypeOK, Control, Partition, main = "gather", gathered = Threads
               PROVE  counted = ToRun(phase)
    BY DEF Counted
  <1>1. \A t \in Thread : t < gathered /\ pc[t] = "ended"
    BY SchedulerAssumption DEF Control, TypeOK, Thread
  <1>2. \A t \in Thread : Held(t) = done[t]
    BY <1>1 DEF Control, Held
  <1>3. undealt = {}
    BY DEF Control
  <1>4. \A x : x \in counted <=> \E t \in Thread : x \in done[t]
    BY <1>1 DEF Partition
  <1>5. \A x \in ToRun(phase) : \E t \in Thread : x \in done[t]
    BY <1>1, <1>2, <1>3 DEF Partition
  <1>6. \A t \in Thread : done[t] \subseteq ToRun(phase)
    BY <1>2 DEF Partition
  <1> QED
    BY <1>4, <1>5, <1>6

----------------------------------------------------------------------------
(* The theorems *)

LEMMA Inductive == Spec => []IInv
  <1>1. Init => IInv
    BY TypeInit, ControlInit, PartitionInit, FilesInit, FailuresInit DEF IInv
  <1>2. IInv /\ [Next]_vars => IInv'
    BY TypeStep, ControlStep, PartitionStep, FilesStep, AllCounted, FailuresStep DEF IInv
  <1> QED
    BY <1>1, <1>2, PTL DEF Spec

\* Every variable of the scheduler keeps its kind.
THEOREM SchedulerTypeCorrect == Spec => []TypeOK
  <1>1. IInv => TypeOK
    BY DEF IInv
  <1> QED
    BY <1>1, Inductive, PTL

\* Whatever the number of threads, the order in which the tests are dealt and
\* the order in which the tasks end, no test is with two threads and none is
\* missing when the results of a phase are gathered.
THEOREM NoTestLost == Spec => []EveryTestCounted
  <1>1. IInv => EveryTestCounted
    BY AllCounted DEF IInv, Partition, Counted, EveryTestCounted
  <1> QED
    BY <1>1, Inductive, PTL

\* Tasks whose files have different names never give each other a wrong root,
\* whatever the order in which they write, read and remove them.
THEOREM RootsRight == Spec => []RootRight
  <1>1. IInv => RootRight
    BY DEF IInv, FilesApart, RootRight
  <1> QED
    BY <1>1, Inductive, PTL

\* An exit code 0 means that every test that is not on the blacklist was taken
\* up in some phase and that the failed ones, roots being right, are excused.
THEOREM ExitCodeHonest == Spec => []ExitHonest
  <1>1. IInv => ExitHonest
    BY DEF IInv, FailuresKept, Fails, ExitHonest
  <1> QED
    BY <1>1, Inductive, PTL
==============================================================================
