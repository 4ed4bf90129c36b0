---------------------------- MODULE PuppeteerPool ----------------------------
(***************************************************************************)
(* The pool of headless-browser tasks, shared/services/                    *)
(* puppeteer-pool.service.ts, and the caller that retries once,            *)
(* annix-orbit/services/nix-cv-pdf.service.ts.                             *)
(*                                                                         *)
(* One Node process: a step is what runs between two awaits.  At most      *)
(* MaxConcurrent tasks run, the others wait in taskQueue; processQueue     *)
(* has no await in its loop, so isProcessingQueue is FALSE between steps.  *)
(* All tasks share one Chrome process, started by the first that needs it. *)
(* `chrome' records every process ever launched, in order; a launch, its   *)
(* promise and its process are all named by their position, and 0 is null. *)
(***************************************************************************)
EXTENDS Integers, Sequences, FiniteSets, FiniteSetsExt

CONSTANTS Tasks,          \* calls of executeWithPage
          MaxConcurrent,  \* maxConcurrent
          MaxFaults,      \* bound: launches that fail, processes that die or hang
          Retriers        \* the calls of the CV renderer, made again if they fail

ASSUME PoolAssumption ==
    /\ MaxConcurrent \in Nat \ {0}
    /\ MaxFaults \in Nat
    /\ Retriers \subseteq Tasks /\ IsFiniteSet(Tasks)

VARIABLES pc,              \* where each task is
          held,            \* the process a task checks, awaits or renders with
          retried,         \* the calls that have been made again
          outcome,         \* how the last attempt of a task ended
          taskQueue, activeTaskCount,
          browser, browserPromise,   \* the service's fields
          idleTimer,       \* idleTimeout is set
          chrome,          \* state of every Chrome process launched
          faults,          \* faults so far
          stopping,        \* onModuleDestroy has been called
          closing,         \* the process closeBrowser awaits the end of
          overtaken        \* history: a task gave up a process that another
                           \* had given up before it

vars == <<pc, held, retried, outcome, taskQueue, activeTaskCount, browser,
          browserPromise, idleTimer, chrome, faults, stopping, closing, overtaken>>

Launches == DOMAIN chrome
Running == {t \in Tasks : pc[t] \in {"checking", "launching", "awaiting", "rendering"}}

TypeOK ==
    /\ pc \in [Tasks -> {"idle", "queued", "checking", "launching", "awaiting",
                         "rendering", "settled"}]
    /\ held \in [Tasks -> Launches \union {0}]
    /\ retried \in SUBSET Retriers
    /\ outcome \in [Tasks -> {"none", "done", "error"}]
    /\ taskQueue \in Seq(Tasks) /\ activeTaskCount \in 0..MaxConcurrent
    /\ {browser, browserPromise, closing} \subseteq Launches \union {0}
    /\ {idleTimer, stopping, overtaken} \subseteq BOOLEAN
    /\ chrome \in Seq({"launching", "up", "hung", "down", "failed"})
    /\ faults \in 0..MaxFaults

Init ==
    /\ pc = [t \in Tasks |-> "idle"] /\ held = [t \in Tasks |-> 0]
    /\ retried = {} /\ outcome = [t \in Tasks |-> "none"]
    /\ taskQueue = <<>> /\ activeTaskCount = 0
    /\ browser = 0 /\ browserPromise = 0 /\ closing = 0
    /\ idleTimer = FALSE /\ stopping = FALSE /\ overtaken = FALSE
    /\ chrome = <<>> /\ faults = 0

-----------------------------------------------------------------------------
\* What a step leaves when it hands over to processQueue.
Left(queue, active, promise, timer, at, using) ==
    [queue |-> queue, active |-> active, promise |-> promise, timer |-> timer,
     at |-> at, using |-> using]

\* A bug: a task launches although a launch is under way.
AcquireAlone(t, s) ==
    LET l == IF browser # 0 THEN browser ELSE Len(chrome) + 1
        what == IF browser # 0 THEN "checking" ELSE "launching"
    IN /\ pc' = [s.at EXCEPT ![t] = what]
       /\ held' = [s.using EXCEPT ![t] = l]
       /\ browserPromise' = IF what = "launching" THEN l ELSE s.promise
       /\ chrome' = IF what = "launching" THEN Append(chrome, "launching") ELSE chrome

\* acquireBrowser up to its first await: check the browser there is, join the
\* launch under way, or launch.
Acquire(t, s) ==
    LET l == IF browser # 0 THEN browser
             ELSE IF s.promise # 0 THEN s.promise ELSE Len(chrome) + 1
        what == IF browser # 0 THEN "checking"
                ELSE IF s.promise # 0 THEN "awaiting" ELSE "launching"
    IN /\ pc' = [s.at EXCEPT ![t] = what]
       /\ held' = [s.using EXCEPT ![t] = l]
       /\ browserPromise' = IF what = "launching" THEN l ELSE s.promise
       /\ chrome' = IF what = "launching" THEN Append(chrome, "launching") ELSE chrome

\* A bug: one task more than the slots.
ProcessQueueOverfull(s) ==
    /\ taskQueue' = IF s.queue # <<>> /\ s.active <= MaxConcurrent THEN Tail(s.queue) ELSE s.queue
    /\ activeTaskCount' = IF s.queue # <<>> /\ s.active <= MaxConcurrent THEN s.active + 1 ELSE s.active
    /\ idleTimer' = s.timer
    /\ IF s.queue # <<>> /\ s.active <= MaxConcurrent
       THEN Acquire(Head(s.queue), s)
       ELSE pc' = s.at /\ held' = s.using /\ browserPromise' = s.promise /\ UNCHANGED chrome

\* processQueue: start the head of the queue if a slot is free.  A call asks
\* for one slot or frees one, so its loop starts one task at most.
ProcessQueue(s) ==
    IF s.queue # <<>> /\ s.active < MaxConcurrent
    THEN /\ taskQueue' = Tail(s.queue)
         /\ activeTaskCount' = s.active + 1
         /\ idleTimer' = FALSE
         /\ Acquire(Head(s.queue), s)
    ELSE /\ taskQueue' = s.queue /\ activeTaskCount' = s.active
         /\ idleTimer' = s.timer /\ browserPromise' = s.promise
         /\ pc' = s.at /\ held' = s.using
         /\ UNCHANGED chrome

\* executeWithPage hands the task to enqueue; a caller that retries does so
\* once its attempt has failed.
Enqueue(t) ==
    /\ \/ pc[t] = "idle" /\ UNCHANGED retried
       \/ /\ outcome[t] = "error" /\ t \in Retriers \ retried
          /\ retried' = retried \union {t}
    /\ outcome' = [outcome EXCEPT ![t] = "none"]
    /\ ProcessQueue(Left(Append(taskQueue, t), activeTaskCount, browserPromise, idleTimer,
                         [pc EXCEPT ![t] = "queued"], held))
    /\ UNCHANGED <<browser, faults, stopping, closing, overtaken>>

\* browser.version() answers; the field is read again, whatever it is now.
CheckAnswers(t) ==
    /\ pc[t] = "checking" /\ chrome[held[t]] = "up"
    /\ pc' = [pc EXCEPT ![t] = "rendering"]
    /\ held' = [held EXCEPT ![t] = browser]
    /\ UNCHANGED <<retried, outcome, taskQueue, activeTaskCount, browser, browserPromise,
                   idleTimer, chrome, faults, stopping, closing, overtaken>>

\* browser.version() rejects: both fields are dropped, whatever they hold by
\* now, and the task launches.
CheckFails(t) ==
    /\ pc[t] = "checking" /\ chrome[held[t]] # "up"
    /\ overtaken' = (overtaken \/ browser # held[t])
    /\ browser' = 0
    /\ browserPromise' = Len(chrome) + 1
    /\ chrome' = Append(chrome, "launching")
    /\ pc' = [pc EXCEPT ![t] = "launching"]
    /\ held' = [held EXCEPT ![t] = Len(chrome) + 1]
    /\ UNCHANGED <<retried, outcome, taskQueue, activeTaskCount, idleTimer, faults, stopping, closing>>

\* The launch succeeded: the task that launched keeps the browser, those
\* that joined it only use it.
LaunchResolves(t) ==
    /\ pc[t] \in {"launching", "awaiting"}
    /\ chrome[held[t]] \in {"up", "hung", "down"}
    /\ pc' = [pc EXCEPT ![t] = "rendering"]
    /\ browser' = IF pc[t] = "launching" THEN held[t] ELSE browser
    /\ UNCHANGED <<held, retried, outcome, taskQueue, activeTaskCount, browserPromise,
                   idleTimer, chrome, faults, stopping, closing, overtaken>>

\* A bug: the slot is freed and nobody is started in it.
SettleOnly(t, o, promise, timer) ==
    /\ outcome' = [outcome EXCEPT ![t] = o]
    /\ activeTaskCount' = activeTaskCount - 1
    /\ pc' = [pc EXCEPT ![t] = "settled"] /\ held' = [held EXCEPT ![t] = 0]
    /\ browserPromise' = promise /\ idleTimer' = timer
    /\ UNCHANGED <<taskQueue, chrome, retried, browser, faults, stopping, closing, overtaken>>

\* A task ends: activeTaskCount goes down, its caller gets the outcome, and
\* the next in the queue starts.
Settle(t, o, promise, timer) ==
    /\ outcome' = [outcome EXCEPT ![t] = o]
    /\ ProcessQueue(Left(taskQueue, activeTaskCount - 1, promise, timer,
                         [pc EXCEPT ![t] = "settled"], [held EXCEPT ![t] = 0]))
    /\ UNCHANGED <<retried, browser, faults, stopping, closing, overtaken>>

\* A bug: the promise of a launch that failed is kept.
LaunchRejectsKeeps(t) ==
    /\ pc[t] \in {"launching", "awaiting"} /\ chrome[held[t]] = "failed"
    /\ Settle(t, "error", browserPromise, idleTimer)

\* The launch failed: the task that launched clears browserPromise, whichever
\* launch it holds by now, and fails; those that joined it fail too.
LaunchRejects(t) ==
    /\ pc[t] \in {"launching", "awaiting"} /\ chrome[held[t]] = "failed"
    /\ Settle(t, "error", IF pc[t] = "launching" THEN 0 ELSE browserPromise, idleTimer)

\* scheduleIdleClose, called in the task's finally, before its own end is
\* counted.
IdleTimerSet == idleTimer \/ (activeTaskCount = 0 /\ taskQueue = <<>>)

\* The page is made, loaded, rendered and closed; without a browser that
\* answers, every one of these calls fails, and any may fail or time out.
Render(t) ==
    /\ pc[t] = "rendering"
    /\ \/ /\ held[t] # 0 /\ chrome[held[t]] = "up"
          /\ Settle(t, "done", browserPromise, IdleTimerSet)
       \/ Settle(t, "error", browserPromise, IdleTimerSet)

\* closeBrowser, called by the idle timer and by onModuleDestroy; the fields
\* are cleared once the process is closed, whatever they hold by then.
CloseBrowser ==
    /\ idleTimer \/ ~stopping
    /\ closing = 0 /\ closing' = browser
    /\ idleTimer' = FALSE
    /\ stopping' = (stopping \/ ~idleTimer)
    /\ UNCHANGED <<pc, held, retried, outcome, taskQueue, activeTaskCount, browser,
                   browserPromise, chrome, faults, overtaken>>

BrowserClosed ==
    /\ closing # 0
    /\ chrome' = [chrome EXCEPT ![closing] = "down"]
    /\ overtaken' = (overtaken \/ browser # closing)
    /\ browser' = 0 /\ browserPromise' = 0 /\ closing' = 0
    /\ UNCHANGED <<pc, held, retried, outcome, taskQueue, activeTaskCount, idleTimer, faults, stopping>>

-----------------------------------------------------------------------------
\* puppeteer.launch settles; it has a timeout of a minute.
LaunchSettles(l) ==
    /\ chrome[l] = "launching"
    /\ \/ chrome' = [chrome EXCEPT ![l] = "up"] /\ UNCHANGED faults
       \/ /\ faults < MaxFaults
          /\ chrome' = [chrome EXCEPT ![l] = "failed"] /\ faults' = faults + 1
    /\ UNCHANGED <<pc, held, retried, outcome, taskQueue, activeTaskCount, browser,
                   browserPromise, idleTimer, stopping, closing, overtaken>>

\* A Chrome process dies, or lives on without answering.
ChromeFails(l) ==
    /\ chrome[l] = "up" /\ faults < MaxFaults
    /\ \E s \in {"down", "hung"} : chrome' = [chrome EXCEPT ![l] = s]
    /\ faults' = faults + 1
    /\ UNCHANGED <<pc, held, retried, outcome, taskQueue, activeTaskCount, browser,
                   browserPromise, idleTimer, stopping, closing, overtaken>>
-----------------------------------------------------------------------------
Proceed(t) == CheckAnswers(t) \/ CheckFails(t) \/ LaunchResolves(t) \/ LaunchRejects(t) \/ Render(t)

Next ==
    \/ \E t \in Tasks : \/ Enqueue(t) \/ CheckAnswers(t) \/ CheckFails(t)
                        \/ LaunchResolves(t) \/ LaunchRejects(t) \/ Render(t)
    \/ \E l \in Launches : LaunchSettles(l) \/ ChromeFails(l)
    \/ CloseBrowser \/ BrowserClosed

\* Every browser call a task awaits settles (launch, navigation and page calls
\* carry timeouts, the protocol has one for the rest), and so does a launch.
\* Nothing makes a caller come, Chrome fail or the process stop.
Fairness ==
    /\ \A t \in Tasks : WF_vars(Proceed(t))
    /\ WF_vars(\E l \in Launches : LaunchSettles(l))

Spec == Init /\ [][Next]_vars /\ Fairness

-----------------------------------------------------------------------------
\* A slot is counted for each task that runs and for no other, and nobody
\* waits beside a free slot: processQueue is called whenever one is freed.
SlotsUsed ==
    /\ activeTaskCount = Cardinality(Running)
    /\ taskQueue # <<>> => activeTaskCount = MaxConcurrent
    /\ Cardinality({t \in Tasks : pc[t] = "queued"}) = Len(taskQueue)
    /\ \A i \in DOMAIN taskQueue : pc[taskQueue[i]] = "queued"

\* A Chrome process that answers is never lost from sight: the pool has it,
\* awaits its launch or its end, or a running task uses it.  Two tasks that
\* find the same browser gone both relaunch, and the second forgets what the
\* first launched; nothing else loses one.
NoStrayBrowser ==
    \/ overtaken
    \/ \A l \in Launches : chrome[l] = "up" =>
          l \in {browser, browserPromise, closing} \union {held[t] : t \in Running}

\* A launch that failed is not what later tasks are made to wait for: while
\* browserPromise holds it, the task that launched it is about to clear it.
NoDeadPromise ==
    browserPromise # 0 /\ chrome[browserPromise] = "failed" =>
        \E t \in Tasks : pc[t] = "launching" /\ held[t] = browserPromise

\* Every task handed to the pool ends, whatever Chrome does and whichever
\* task drops or closes the browser under it.
EveryTaskSettles == \A t \in Tasks : pc[t] = "queued" ~> pc[t] = "settled"
=============================================================================
