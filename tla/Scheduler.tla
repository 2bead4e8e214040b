------------------------------ MODULE Scheduler ------------------------------
(***************************************************************************)
(* The conformance tests, Conform/Main.lean: three phases, one after the   *)
(* other, each of which deals its tests to threads, starts a task for each *)
(* thread and gathers the results when the tasks have ended.  A test asks  *)
(* a Python process for roots of tries, and hands it the entries in a      *)
(* temporary file (EvmYul/State/TrieRoot.lean); one root stands for all    *)
(* that a test asks for.                                                   *)
(***************************************************************************)
EXTENDS Integers, FiniteSets

CONSTANTS
  Tests,        \* the tests in the files
  Performance,  \* those under vmPerformance
  Delayed,      \* DelayFiles
  Blacklisted,  \* GlobalBlacklist
  Excused,      \* the tests whose names are in ExpectedToFail
  Outcomes,     \* what can become of the tests when the roots are right
  Faulty,       \* the tests whose file can fail to be read a second time
  Threads,      \* the number of threads, nproc or the first argument
  Workers,      \* the tasks that the runtime runs at the same time
  Names         \* the names that a temporary file can have

Verdicts == {"success", "failure", "discarded", "skipped"}

ASSUME SchedulerAssumption ==
  /\ Performance \subseteq Tests /\ Delayed \subseteq Tests
  /\ Blacklisted \subseteq Tests /\ Excused \subseteq Tests
  /\ Outcomes \subseteq [Tests -> Verdicts] /\ Faulty \subseteq Tests
  /\ Threads \in Nat \ {0} /\ Workers \in Nat \ {0}

Thread == 0 .. Threads - 1
Absent == -1
NoExit == "none"

\* The tests of a phase: all but the slow ones, then those of the performance
\* directory, then the delayed ones from every directory.
ToRun(phase) ==
  CASE phase = 1 -> Tests \ (Performance \union Delayed \union Blacklisted)
    [] phase = 2 -> Performance \ Blacklisted
    [] phase = 3 -> Delayed \ Blacklisted

VARIABLES
  verdict,   \* of each test: what becomes of it when the roots are right
  phase,     \* 1 to 3
  main,      \* what the main thread does: "deal", "gather" or "exit"
  undealt,   \* the tests that are not in the list of a thread yet
  thread,    \* the thread that gets the next test
  queue,     \* of each thread: the tests to come
  current,   \* the one that it runs, at most one
  done,      \* and those it has done
  pc,        \* where its task is
  failed,    \* the tests of the task that did not succeed
  name,      \* the name of its temporary file
  files,     \* of each name: whose data the file has, or Absent
  wrong,     \* the tests that were given a root of something else
  collided,  \* whether two tasks ever had the same name at the same time
  gathered,  \* the number of tasks whose results are in
  counted,   \* the tests of the phase with a result
  ran,       \* the tests of earlier phases with a result
  failures,  \* the failed tests so far, of all phases
  exit       \* how the program ended

mainVars == <<verdict, phase, main, undealt, thread, gathered, counted, ran, failures, exit>>
fileVars == <<name, files, wrong, collided>>
taskVars == <<queue, current, done, pc, failed>>
vars == <<mainVars, fileVars, taskVars>>

Init ==
  /\ verdict \in Outcomes
  /\ phase = 1 /\ main = "deal" /\ undealt = ToRun(1) /\ thread = 0
  /\ queue = [t \in Thread |-> {}] /\ current = [t \in Thread |-> {}]
  /\ done = [t \in Thread |-> {}] /\ failed = [t \in Thread |-> {}]
  /\ pc = [t \in Thread |-> "idle"]
  /\ name \in [Thread -> Names] /\ files = [n \in Names |-> Absent]
  /\ wrong = {} /\ collided = FALSE
  /\ gathered = 0 /\ counted = {} /\ ran = {} /\ failures = {}
  /\ exit = NoExit

----------------------------------------------------------------------------
(* The main thread *)

\* mutant: the counter of threads wraps one too late
NextThread_Late(t) == (t + 1) % (Threads + 1)
NextThread(t) == (t + 1) % Threads

\* A test is dealt to the next thread; a list that does not exist takes none.
Deal ==
  /\ main = "deal"
  /\ \E x \in undealt :
       /\ undealt' = undealt \ {x}
       /\ queue' = [t \in Thread |-> IF t = thread THEN queue[t] \union {x} ELSE queue[t]]
  /\ thread' = NextThread(thread)
  /\ UNCHANGED <<verdict, phase, main, gathered, counted, ran, failures, exit, fileVars,
                 current, done, pc, failed>>

Spawn ==
  /\ main = "deal" /\ undealt = {}
  /\ main' = "gather"
  /\ pc' = [t \in Thread |-> "ready"]
  /\ UNCHANGED <<verdict, phase, undealt, thread, gathered, counted, ran, failures, exit,
                 fileVars, queue, current, done, failed>>

\* The results of the tasks are taken in the order of the threads, and the
\* error of a task is an error of the program.
\* mutant: the error of a task is ignored
Gather_Ignores ==
  /\ main = "gather" /\ gathered < Threads
  /\ pc[gathered] \in {"ended", "raised"}
  /\ counted' = counted \union done[gathered]
  /\ failures' = failures \union failed[gathered]
  /\ gathered' = gathered + 1
  /\ UNCHANGED <<verdict, phase, main, undealt, thread, ran, exit, fileVars, taskVars>>
Gather ==
  /\ main = "gather" /\ gathered < Threads
  /\ \/ /\ pc[gathered] = "ended"
        /\ counted' = counted \union done[gathered]
        /\ failures' = failures \union failed[gathered]
        /\ gathered' = gathered + 1
        /\ UNCHANGED <<main, exit>>
     \/ /\ pc[gathered] = "raised"
        /\ main' = "exit" /\ exit' = "error"
        /\ UNCHANGED <<counted, failures, gathered>>
  /\ UNCHANGED <<verdict, phase, undealt, thread, ran, fileVars, taskVars>>

NextPhase ==
  /\ main = "gather" /\ gathered = Threads /\ phase < 3
  /\ phase' = phase + 1
  /\ main' = "deal" /\ undealt' = ToRun(phase + 1) /\ thread' = 0
  /\ ran' = ran \union counted /\ counted' = {} /\ gathered' = 0
  /\ queue' = [t \in Thread |-> {}] /\ done' = [t \in Thread |-> {}]
  /\ failed' = [t \in Thread |-> {}] /\ pc' = [t \in Thread |-> "idle"]
  /\ UNCHANGED <<verdict, failures, exit, current, fileVars>>

Finish ==
  /\ main = "gather" /\ gathered = Threads /\ phase = 3
  /\ main' = "exit"
  /\ ran' = ran \union counted
  /\ exit' = IF failures \subseteq Excused THEN "0" ELSE "1"
  /\ UNCHANGED <<verdict, phase, undealt, thread, gathered, counted, failures, fileVars, taskVars>>

Main == Deal \/ Spawn \/ Gather \/ NextPhase \/ Finish

----------------------------------------------------------------------------
(* The tasks *)

Running == {t \in Thread : pc[t] \notin {"idle", "ready", "ended", "raised"}}
Goto(t, where) == pc' = [pc EXCEPT ![t] = where]

Start(t) ==
  /\ pc[t] = "ready" /\ Cardinality(Running) < Workers
  /\ Goto(t, "next")
  /\ UNCHANGED <<mainVars, fileVars, queue, current, done, failed>>

End(t) ==
  /\ pc[t] = "next" /\ queue[t] = {}
  /\ Goto(t, "ended")
  /\ UNCHANGED <<mainVars, fileVars, queue, current, done, failed>>

\* The names that tasks have in use.
HasName(u) == pc[u] \in {"write", "run", "remove"}

\* A test is taken up.  Its file was read when the phase began; when it cannot
\* be read again the task ends with the error.  A test that cannot be parsed
\* and one of another fork end here, and for the others a name is made of random
\* bytes and the clock.
Take(t) ==
  /\ pc[t] = "next"
  /\ \E x \in queue[t] :
       /\ queue' = [queue EXCEPT ![t] = @ \ {x}]
       /\ \/ /\ x \in Faulty
             /\ Goto(t, "raised")
             /\ UNCHANGED <<current, done, fileVars>>
          \/ /\ verdict[x] \in {"discarded", "skipped"}
             /\ done' = [done EXCEPT ![t] = @ \union {x}]
             /\ UNCHANGED <<pc, current, fileVars>>
          \/ /\ verdict[x] \in {"success", "failure"}
             /\ current' = [current EXCEPT ![t] = {x}]
             /\ Goto(t, "write")
             /\ \E n \in Names :
                  /\ name' = [name EXCEPT ![t] = n]
                  /\ collided' = (collided \/ \E u \in Thread \ {t} : HasName(u) /\ name[u] = n)
             /\ UNCHANGED <<done, files, wrong>>
  /\ UNCHANGED <<mainVars, failed>>

Write(t) ==
  /\ pc[t] = "write"
  /\ files' = [files EXCEPT ![name[t]] = t]
  /\ Goto(t, "run")
  /\ UNCHANGED <<mainVars, name, wrong, collided, queue, current, done, failed>>

\* The process reads what is there; without a file it fails, and the empty
\* default answer takes the place of the root.
RunPython(t) ==
  /\ pc[t] = "run"
  /\ Goto(t, IF files[name[t]] = Absent THEN "record" ELSE "remove")
  /\ wrong' = IF files[name[t]] = t THEN wrong ELSE wrong \union current[t]
  /\ UNCHANGED <<mainVars, name, files, collided, queue, current, done, failed>>

\* Removing a file that is gone fails too.
\* mutant: every temporary file is removed
Removed_All(n) == [m \in Names |-> Absent]
Removed(n) == [files EXCEPT ![n] = Absent]
Remove(t) ==
  /\ pc[t] = "remove"
  /\ files' = Removed(name[t])
  /\ wrong' = IF files[name[t]] = Absent THEN wrong \union current[t] ELSE wrong
  /\ Goto(t, "record")
  /\ UNCHANGED <<mainVars, name, collided, queue, current, done, failed>>

\* The result of the test; with a wrong root it can be any.
\* mutant: the test stays the next one
AfterTest_Again(t) == [queue EXCEPT ![t] = @ \union current[t]]
AfterTest(t) == queue
Record(t) ==
  /\ pc[t] = "record"
  /\ done' = [done EXCEPT ![t] = @ \union current[t]]
  /\ \E bad \in SUBSET current[t] :
       /\ \A x \in current[t] \ wrong : x \in bad <=> verdict[x] = "failure"
       /\ failed' = [failed EXCEPT ![t] = @ \union bad]
  /\ current' = [current EXCEPT ![t] = {}]
  /\ queue' = AfterTest(t)
  /\ Goto(t, "next")
  /\ UNCHANGED <<mainVars, fileVars>>

Task(t) ==
  \/ Start(t) \/ Take(t) \/ Write(t) \/ RunPython(t) \/ Remove(t) \/ Record(t) \/ End(t)

Next == Main \/ \E t \in Thread : Task(t)

\* The operating system lets every thread go on, and tests end.
Spec ==
  /\ Init /\ [][Next]_vars
  /\ WF_vars(Main) /\ \A t \in Thread : WF_vars(Task(t))

----------------------------------------------------------------------------
(* Properties *)

\* Type invariant: every variable keeps its kind.
TypeOK ==
  /\ verdict \in [Tests -> Verdicts]
  /\ phase \in 1 .. 3 /\ main \in {"deal", "gather", "exit"}
  /\ undealt \subseteq Tests /\ thread \in Thread
  /\ queue \in [Thread -> SUBSET Tests] /\ current \in [Thread -> SUBSET Tests]
  /\ done \in [Thread -> SUBSET Tests] /\ failed \in [Thread -> SUBSET Tests]
  /\ pc \in [Thread -> {"idle", "ready", "next", "write", "run", "remove", "record",
                        "ended", "raised"}]
  /\ name \in [Thread -> Names] /\ files \in [Names -> Thread \union {Absent}]
  /\ wrong \subseteq Tests /\ collided \in BOOLEAN
  /\ gathered \in 0 .. Threads /\ counted \subseteq Tests /\ ran \subseteq Tests
  /\ failures \subseteq Tests /\ exit \in {NoExit, "0", "1", "error"}

\* Every test of a phase is in one place: to be dealt, or with one thread, to
\* come, running or done; but the one whose file ended a task.
Held(t) == queue[t] \union current[t] \union done[t]
OnePlace ==
  /\ \A t \in Thread : undealt \intersect Held(t) = {}
  /\ \A t, u \in Thread : t # u => Held(t) \intersect Held(u) = {}
  /\ \A t \in Thread : queue[t] \intersect done[t] = {}

\* When all tasks of a phase are gathered, the results are of the tests of the
\* phase, all of them and no others, although the lists were dealt in turn and
\* the tasks ended in any order; and no test was with two threads.
EveryTestCounted ==
  /\ OnePlace
  /\ main = "gather" /\ gathered = Threads => counted = ToRun(phase)

\* A test is given a wrong root only after two tasks had the same name for
\* their files at the same time, of which TrieRoot.lean says that it "makes
\* testing in parallel technically nondeterministic".  Writing, reading and
\* removing the files disturb no other task.
RootRight == ~collided => wrong = {}

\* The exit code 0 says that every test that is not on the blacklist was run
\* in some phase, and that none failed but the excused ones.
ExitHonest ==
  exit = "0" =>
    /\ ran = Tests \ Blacklisted
    /\ \A x \in ran \ (wrong \union Excused) : verdict[x] # "failure"

\* The program ends, whatever the order of the threads and however few of them
\* run at a time.
Terminates == <>(main = "exit")
==============================================================================
