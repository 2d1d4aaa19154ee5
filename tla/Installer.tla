----------------------------- MODULE Installer ------------------------------
(***************************************************************************)
(* The installation wizard (installer/bootstrap.go, platform/config, the      *)
(* install module) beside the API and the worker that boot from what it       *)
(* saves.  A configuration is the database URL, the generated secrets (one    *)
(* key here: JWT_SECRET and APP_ENCRYPTION_KEY are treated alike) and one      *)
(* optional setting that may be blank or hold a value LoadFrom refuses.       *)
(***************************************************************************)
EXTENDS Integers, FiniteSets

CONSTANTS
    Saves,       \* the submissions of the form handled at the same time
    Operators,   \* the requests that create the first administrator
    MaxKeys,     \* bound: submissions, each of which generates a key
    MaxCrashes,  \* bound: crashes of the API or the worker
    MaxEdits     \* bound: edits of the env file by hand

VARIABLES
    base,     \* the environment the processes are started with
    file,     \* the env file
    api,      \* the API process and its environment
    worker,   \* the key of the worker, 0 when it is not running
    save,     \* the submissions being handled
    signal,   \* whether a restart is scheduled
    creating, \* the requests that found no administrator
    admins,   \* who became administrator
    count,    \* keys generated, crashes, edits
    life,     \* what happened since the wizard booted
    used,     \* history: the keys something was encrypted with
    events    \* history: what weakens or breaks a guarantee
vars == <<base, file, api, worker, save, signal, creating, admins, count, life, used, events>>

Settings == {"blank", "good", "bad"}
Config == [db : BOOLEAN, key : 0..MaxKeys, opt : Settings]
Blank == [db |-> FALSE, key |-> 0, opt |-> "blank"]
Idle == [at |-> "off", new |-> Blank]
Fresh == [saved |-> FALSE, twice |-> FALSE, edited |-> FALSE]

Init ==
    /\ base \in {Blank, [Blank EXCEPT !.opt = "good"]}
    /\ file \in {Blank, [Blank EXCEPT !.opt = "good"], [Blank EXCEPT !.opt = "bad"]}
    /\ api = [at |-> "down", env |-> base] /\ worker = 0
    /\ save = [s \in Saves |-> Idle] /\ signal = FALSE
    /\ creating = {} /\ admins = {}
    /\ count = [keys |-> 0, crashes |-> 0, edits |-> 0]
    /\ life = Fresh /\ used = {} /\ events = {}

When(b, e) == IF b THEN {e} ELSE {}
\* A value of the first configuration wins over one of the second.
Overlay(c, d) ==
    [db |-> c.db \/ d.db,
     key |-> IF c.key # 0 THEN c.key ELSE d.key,
     opt |-> IF c.opt # "blank" THEN c.opt ELSE d.opt]
\* LoadFrom: what is required is there, and nothing is refused.
LoadFrom(c) == c.db /\ c.key # 0 /\ c.opt # "bad"

-----------------------------------------------------------------------------
(* The processes.                                                          *)

\* ApplyEnvFile, Load: the full API, or the wizard in its place.
Boot ==
    LET env == Overlay(api.env, file)
        ok == LoadFrom(env)
    IN  /\ api.at = "down"
        /\ api' = [at |-> IF ok THEN "full" ELSE "wizard", env |-> env]
        /\ used' = used \cup When(ok, env.key)
        /\ events' = events \cup When(life.saved /\ ~life.twice /\ ~life.edited /\ ~ok, "refused")
        /\ life' = Fresh
        /\ UNCHANGED <<base, file, worker, save, signal, creating, admins, count>>

\* RunBootstrap and execSelf: the requests are waited for, or cut off after five
\* seconds, and the process starts anew with the environment it has now.
Restart ==
    /\ api.at = "wizard" /\ signal
    /\ api' = [api EXCEPT !.at = "down"]
    /\ signal' = FALSE /\ save' = [s \in Saves |-> Idle]
    /\ life' = [life EXCEPT !.saved = TRUE]
    /\ UNCHANGED <<base, file, worker, creating, admins, count, used, events>>

\* A crashed process is started again with the environment it was given at first.
Crash ==
    /\ count.crashes < MaxCrashes /\ count' = [count EXCEPT !.crashes = @ + 1]
    /\ \/ /\ api.at # "down" /\ api' = [at |-> "down", env |-> base]
          /\ signal' = FALSE /\ save' = [s \in Saves |-> Idle] /\ creating' = {} /\ life' = Fresh
          /\ UNCHANGED worker
       \/ /\ worker # 0 /\ worker' = 0
          /\ UNCHANGED <<api, signal, save, creating, life>>
    /\ UNCHANGED <<base, file, admins, used, events>>

\* The worker exits, and is started again, until the configuration is complete.
WorkerRun ==
    LET env == Overlay(base, file)
    IN  /\ worker = 0 /\ LoadFrom(env)
        /\ worker' = env.key /\ used' = used \cup {env.key}
        /\ UNCHANGED <<base, file, api, save, signal, creating, admins, count, life, events>>

-----------------------------------------------------------------------------
(* The form.                                                               *)

\* Mutant: a key is generated although there is one.
AlwaysGenerate(env) == TRUE
\* A secret is only generated where the environment has none.
Generates(env) == env.key = 0
\* Mutant: the submitted values alone are validated.
ValuesAlone(env, new) == LoadFrom(Overlay(new, [env EXCEPT !.opt = "blank"]))
\* The new values under the environment are what the next boot will load.
Validated(env, new) == LoadFrom(Overlay(env, new))
Save(s) ==
    /\ api.at = "wizard" /\ save[s].at = "off" /\ count.keys < MaxKeys
    /\ \E o \in Settings :
         LET k == count.keys + 1
             new == [db |-> TRUE, opt |-> o, key |-> IF Generates(api.env) THEN k ELSE 0]
         IN  /\ Validated(api.env, new)
             /\ save' = [save EXCEPT ![s] = [at |-> "write", new |-> new]]
             /\ count' = [count EXCEPT !.keys = k]
    /\ life' = [life EXCEPT !.twice = @ \/ signal \/ \E q \in Saves : save[q].at # "off"]
    /\ UNCHANGED <<base, file, api, worker, signal, creating, admins, used, events>>

\* WriteEnvFile: the file is read and the new values laid over it ...
ReadEnvFile(s) ==
    /\ save[s].at = "write"
    /\ save' = [save EXCEPT ![s] = [at |-> "rename", new |-> Overlay(@.new, file)]]
    /\ UNCHANGED <<base, file, api, worker, signal, creating, admins, count, life, used, events>>
\* ... and a new file takes its place; a failing write schedules no restart.
WriteEnvFile(s) ==
    /\ save[s].at = "rename"
    /\ save' = [save EXCEPT ![s] = Idle]
    /\ \/ /\ file' = save[s].new /\ signal' = TRUE
          /\ events' = events \cup When(life.twice, "twice")
       \/ UNCHANGED <<file, signal, events>>
    /\ UNCHANGED <<base, api, worker, creating, admins, count, life, used>>

\* The operator changes the optional setting in the file, or takes the database out.
EditFile ==
    /\ count.edits < MaxEdits /\ count' = [count EXCEPT !.edits = @ + 1]
    /\ \/ \E o \in Settings : o # file.opt /\ file' = [file EXCEPT !.opt = o]
       \/ file.db /\ file' = [file EXCEPT !.db = FALSE]
    /\ life' = [life EXCEPT !.edited = TRUE]
    /\ UNCHANGED <<base, api, worker, save, signal, creating, admins, used, events>>

-----------------------------------------------------------------------------
(* The first administrator.                                                *)

\* Mutant: whether there is one is not asked.
AlwaysOpen == TRUE
\* ExistsAnyAdmin, asked by every request.
NoAdmin == admins = {}
CreateAdmin(o) ==
    /\ api.at = "full" /\ o \notin creating \cup admins /\ NoAdmin
    /\ creating' = creating \cup {o}
    /\ events' = events \cup When(creating # {}, "both")
    /\ UNCHANGED <<base, file, api, worker, save, signal, admins, count, life, used>>
InsertAdmin(o) ==
    /\ o \in creating /\ creating' = creating \ {o}
    /\ admins' = admins \cup {o} \/ UNCHANGED admins
    /\ UNCHANGED <<base, file, api, worker, save, signal, count, life, used, events>>

Next ==
    \/ Boot \/ Restart \/ Crash \/ WorkerRun \/ EditFile
    \/ \E s \in Saves : Save(s) \/ ReadEnvFile(s) \/ WriteEnvFile(s)
    \/ \E o \in Operators : CreateAdmin(o) \/ InsertAdmin(o)
Spec == Init /\ [][Next]_vars

-----------------------------------------------------------------------------
(* Properties.                                                             *)

\* save generates the secrets only "when left blank": whatever the API or the worker
\* encrypted, they still have the key, through crashes, restarts and wizards of later
\* boots, unless two submissions met in one life of the wizard.
OneKey == "twice" \notin events => Cardinality(used) <= 1

\* "there is exactly one place that decides what valid means": what a submission was
\* accepted with is what the process that restarts for it accepts, unless another
\* submission or an edit came between.
AcceptedBoots == "refused" \notin events

\* CreateAdmin "can never be used to add a second admin after the real install":
\* only requests that asked before either had inserted make two.
OneAdmin == "both" \notin events => Cardinality(admins) <= 1

\* "a real env var still wins, mirroring ApplyEnvFile's own precedence": the file a
\* submission wrote is complete for a process started with the real environment, too.
\* It is not: the values the first boot took from the file count as real ones when the
\* submission is validated, and a submitted value in their place goes unchecked.
SavedIsValid == signal /\ ~life.twice /\ ~life.edited => LoadFrom(Overlay(base, file))
=============================================================================
