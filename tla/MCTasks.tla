------------------------------- MODULE MCTasks -------------------------------
(* The life of asynchronous tasks in three parts, one of which a behaviour  *)
(* is about: "tasks" is the end of Suno and video tasks (TaskBilling),      *)
(* "submit" their submission (TaskSubmit), "midjourney" the whole life of   *)
(* Midjourney tasks.                                                        *)
EXTENDS MCTaskBilling, Midjourney

CONSTANTS
    Parts,
    BasePrice, Funds, RetryTimes, MaxPolls

VARIABLES
    part,
    sub, purse, provider, taskRow, route, polls

submitVars == <<sub, purse, provider, taskRow, route, polls>>

Simple == [model |-> "sora-2-pro", prompt |-> TRUE, images |-> 0, inline |-> FALSE, image |-> FALSE,
           seconds |-> 0, duration |-> 0, meta |-> 0, size |-> "", video |-> FALSE, badmeta |-> FALSE,
           remix |-> FALSE]

\* Requests that meet every adaptor's cases: durations under each name, sizes that change
\* the price or are refused, images singly and in lists, a remix.
MCRequests ==
    LET wan == [Simple EXCEPT !.model = "wan2.5-t2v-preview"]
        veo4k == [Simple EXCEPT !.model = "veo-3.1-generate-preview", !.size = "3840x2160"]
    IN  {[Simple EXCEPT !.seconds = 2, !.size = "1792x1024"],
         [Simple EXCEPT !.duration = 3, !.images = 1, !.inline = TRUE],
         [Simple EXCEPT !.seconds = -1, !.image = TRUE],
         [wan EXCEPT !.seconds = 2],
         [wan EXCEPT !.size = "1920*1080", !.meta = 3],
         [wan EXCEPT !.size = "1792x1024"],
         [veo4k EXCEPT !.seconds = 2, !.images = 2],
         [veo4k EXCEPT !.duration = 2, !.images = 3],
         [Simple EXCEPT !.model = "doubao-seedance-2-0-260128", !.video = TRUE],
         [Simple EXCEPT !.badmeta = TRUE], [Simple EXCEPT !.prompt = FALSE],
         [Simple EXCEPT !.remix = TRUE]}

\* The platforms of the model's channels.
MCRoutes == {{"sora", "ali"}, {"gemini", "kling", "ali"}, {"vertex", "vidu", "doubao"},
             {"hailuo", "jimeng", "sora"}, {"suno"}}

Submission == INSTANCE TaskSubmit WITH Routes <- MCRoutes, TaskRequests <- MCRequests

MCInit ==
    /\ part \in Parts /\ Init /\ InitMj /\ Submission!InitSubmit
    /\ part # "submit" => route = {"suno"}

MCNext ==
    \/ part = "tasks" /\ Next /\ UNCHANGED <<part, mjvars, submitVars>>
    \/ part = "midjourney" /\ NextMj /\ UNCHANGED <<part, vars, submitVars>>
    \/ part = "submit" /\ Submission!NextSubmit /\ UNCHANGED <<part, vars, mjvars>>

\* The loops of the master go on for ever, and time passes: weak fairness of the polls and of the clock.
Loops ==
    \/ part = "tasks" /\ Poller /\ UNCHANGED <<part, mjvars, submitVars>>
    \/ part = "midjourney" /\ MjLoop /\ UNCHANGED <<part, vars, submitVars>>

Time ==
    \/ part = "tasks" /\ (\E t \in Tasks : TimesOut(t)) /\ UNCHANGED <<part, mjvars, submitVars>>
    \/ /\ part = "midjourney" /\ (\E r \in DOMAIN rows : Ages(r))
       /\ UNCHANGED <<part, vars, submitVars>>

all == <<part, vars, mjvars, submitVars>>
MCSpec == MCInit /\ [][MCNext]_all /\ WF_all(Loops) /\ WF_all(Time)

\* See TaskSubmit: the user pays for what the accepting channel was asked for, and the
\* task is polled at the path it was sent to.
TaskPaysAsServed == Submission!TaskPaysAsServed

\* Every task ends: a Suno or video task by the poll or the sweep, a Midjourney task the
\* proxy knows at the latest an hour after its submission.
AllTasksEnd ==
    <>[](CASE part = "tasks" -> \A t \in Tasks : row[t] \in Ended
           [] part = "midjourney" -> AllEnded
           [] OTHER -> TRUE)
=============================================================================
