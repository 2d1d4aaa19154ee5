------------------------------ MODULE Options ------------------------------
(***************************************************************************)
(* The configurable options of the catalogue: groups, the options in them    *)
(* and the values of an option, each with a price delta.  Deleting a row     *)
(* deletes what lies below it (ON DELETE CASCADE).                           *)
(***************************************************************************)
EXTENDS Integers

CONSTANTS
    Groups,    \* configurable_option_groups
    Opts,      \* configurable_options
    Vals,      \* configurable_option_values
    Requests,  \* bound: the requests handled at the same time
    MaxDelta,  \* bound: the price delta of a value
    MaxWrites  \* bound: the administrators' writes

VARIABLES
    groups,   \* the groups that exist
    options,  \* the group of each option ("none": no row)
    values,   \* the option and the delta of each value
    request,  \* the requests being handled
    writes    \* history: the administrators' writes
vars == <<groups, options, values, request, writes>>

NoValue == [option |-> "none", delta |-> 0]
Idle == [at |-> "off", id |-> "none", up |-> "none", delta |-> 0]
Init ==
    /\ groups = Groups
    /\ \E g \in Groups : options \in [Opts -> {g, "none"}]
    /\ values = [v \in Vals |-> NoValue]
    /\ request = [r \in Requests |-> Idle]
    /\ writes = 0

At(r, p) == request[r].at = p
Done(r) == request' = [request EXCEPT ![r] = Idle]
Begin(r, q) == At(r, "off") /\ writes < MaxWrites /\ request' = [request EXCEPT ![r] = q]
Written == writes < MaxWrites /\ writes' = writes + 1
IsOption(o) == o \in Opts /\ options[o] # "none"
IsValue(v) == values[v].option # "none"

-----------------------------------------------------------------------------
(* Administration.                                                         *)

CreateOptionGroup(g) ==
    /\ Written /\ g \notin groups /\ groups' = groups \cup {g}
    /\ UNCHANGED <<options, values, request>>
\* ON DELETE CASCADE, from options to values.
WithoutValues(os) == [v \in Vals |-> IF values[v].option \in os THEN NoValue ELSE values[v]]
DeleteOptionGroup(g) ==
    /\ Written /\ g \in groups /\ groups' = groups \ {g}
    /\ options' = [o \in Opts |-> IF options[o] = g THEN "none" ELSE options[o]]
    /\ values' = WithoutValues({o \in Opts : options[o] = g})
    /\ UNCHANGED <<request>>
DeleteOption(o) ==
    /\ Written /\ IsOption(o)
    /\ options' = [options EXCEPT ![o] = "none"] /\ values' = WithoutValues({o})
    /\ UNCHANGED <<groups, request>>
DeleteOptionValue(v) ==
    /\ Written /\ IsValue(v) /\ values' = [values EXCEPT ![v] = NoValue]
    /\ UNCHANGED <<groups, options, request>>

\* CreateOption and CreateOptionValue look the parent up, then insert; the key
\* refuses a parent that is gone.
CreateOption(r, o, g) ==
    /\ ~IsOption(o) /\ g \in groups
    /\ Begin(r, [Idle EXCEPT !.at = "option", !.id = o, !.up = g])
    /\ UNCHANGED <<groups, options, values, writes>>
InsertOption(r) ==
    /\ At(r, "option") /\ Done(r)
    /\ IF request[r].up \in groups /\ ~IsOption(request[r].id)
       THEN Written /\ options' = [options EXCEPT ![request[r].id] = request[r].up]
       ELSE UNCHANGED <<writes, options>>
    /\ UNCHANGED <<groups, values>>
checkPriceDeltas(d) == d >= 0
CreateOptionValue(r, v, o, d) ==
    /\ checkPriceDeltas(d) /\ ~IsValue(v) /\ IsOption(o)
    /\ Begin(r, [Idle EXCEPT !.at = "value", !.id = v, !.up = o, !.delta = d])
    /\ UNCHANGED <<groups, options, values, writes>>
\* Mutant: the row goes in although its option is gone.
InsertAnyway(o) == TRUE
\* The key on option_id.
References(o) == IsOption(o)
InsertOptionValue(r) ==
    /\ At(r, "value") /\ Done(r)
    /\ IF References(request[r].up) /\ ~IsValue(request[r].id)
       THEN Written /\ values' = [values EXCEPT ![request[r].id] = [option |-> request[r].up, delta |-> request[r].delta]]
       ELSE UNCHANGED <<writes, values>>
    /\ UNCHANGED <<groups, options>>
UpdateOptionValue(r, v, d) ==
    /\ checkPriceDeltas(d) /\ IsValue(v) /\ d # values[v].delta
    /\ Begin(r, [Idle EXCEPT !.at = "update", !.id = v, !.delta = d])
    /\ UNCHANGED <<groups, options, values, writes>>
SaveOptionValue(r) ==
    /\ At(r, "update") /\ Done(r)
    /\ IF IsValue(request[r].id)
       THEN Written /\ values' = [values EXCEPT ![request[r].id].delta = request[r].delta]
       ELSE UNCHANGED <<writes, values>>
    /\ UNCHANGED <<groups, options>>

Next ==
    \/ \E g \in Groups : CreateOptionGroup(g) \/ DeleteOptionGroup(g)
    \/ \E o \in Opts : DeleteOption(o)
    \/ \E v \in Vals : DeleteOptionValue(v)
    \/ \E r \in Requests :
         \/ \E o \in Opts, g \in Groups : CreateOption(r, o, g)
         \/ \E v \in Vals, d \in -1..MaxDelta : UpdateOptionValue(r, v, d) \/ \E o \in Opts : CreateOptionValue(r, v, o, d)
         \/ InsertOption(r) \/ InsertOptionValue(r) \/ SaveOptionValue(r)
Spec == Init /\ [][Next]_vars

-----------------------------------------------------------------------------
(* Properties.                                                             *)

\* No option outlives its group and no value its option, however creations
\* and deletions interleave (the services look the parent up before they
\* insert; the keys decide).
NoStrays ==
    /\ \A o \in Opts : IsOption(o) => options[o] \in groups
    /\ \A v \in Vals : IsValue(v) => IsOption(values[v].option)
=============================================================================
