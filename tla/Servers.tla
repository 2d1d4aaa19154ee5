------------------------------ MODULE Servers -------------------------------
(***************************************************************************)
(* The administration of servers and server groups (provisioning/service.go, *)
(* provisioning/repo.go) while services are being placed on the servers.      *)
(* A request reads, checks and then writes; only the foreign keys of the      *)
(* database see the other requests.                                          *)
(***************************************************************************)
EXTENDS Integers

CONSTANTS
    Requests,   \* the requests handled at the same time
    Groups,     \* server groups
    Ids,        \* server ids
    Accounts,   \* services
    MaxWrites,  \* bound: requests of administrators
    MaxSecrets  \* bound: passwords saved

VARIABLES
    groups,   \* the groups there are
    servers,  \* server rows
    services, \* the server and the status of every service
    request,  \* the requests being handled
    saved,    \* history: the last password saved for each server
    count,    \* writes and passwords so far
    events    \* history: stale rows written, accounts without a server
vars == <<groups, servers, services, request, saved, count, events>>

NoGroup == "none"
NoServer == [live |-> FALSE, group |-> NoGroup, active |-> FALSE, secret |-> 0]
Off == [at |-> "off", id |-> 0, row |-> NoServer, secret |-> 0, stale |-> FALSE]

Init ==
    /\ groups = Groups
    /\ \E i \in Ids, g \in Groups :
         servers = [s \in Ids |-> IF s = i THEN [live |-> TRUE, group |-> g, active |-> TRUE, secret |-> 0]
                                  ELSE NoServer]
    /\ services = [a \in Accounts |-> [server |-> 0, status |-> "pending"]]
    /\ request = [r \in Requests |-> Off]
    /\ saved = [s \in Ids |-> 0] /\ count = [writes |-> 0, secrets |-> 0] /\ events = {}

When(b, e) == IF b THEN {e} ELSE {}
At(r, p) == request[r].at = p
Put(r, new) == request' = [request EXCEPT ![r] = new]
Leave(r) == Put(r, Off)
Live == {s \in Ids : servers[s].live}

-----------------------------------------------------------------------------
(* Creating and updating a server.                                         *)

\* encryptServerSecrets: a blank field keeps what the row has.  Mutant: it clears it.
Overwrite(row, secret) == [row EXCEPT !.secret = secret]
encryptServerSecrets(row, secret) == IF secret = 0 THEN row ELSE [row EXCEPT !.secret = secret]

\* GetGroupByID: the group of the form exists, or none is given.
GroupThere(g) == g = NoGroup \/ g \in groups
\* The form: a group, the switch, and a new password or none.
Form(r, kind, i, row) ==
    /\ At(r, "off") /\ count.writes < MaxWrites
    /\ \E g \in Groups \cup {NoGroup}, b \in BOOLEAN, new \in BOOLEAN :
         LET k == count.secrets + 1
             filled == [row EXCEPT !.live = TRUE, !.group = g, !.active = b]
         IN  /\ GroupThere(g) /\ (new => k <= MaxSecrets)
             /\ Put(r, [at |-> kind, id |-> i, row |-> encryptServerSecrets(filled, IF new THEN k ELSE 0),
                        secret |-> IF new THEN k ELSE 0, stale |-> FALSE])
             /\ count' = [writes |-> count.writes + 1, secrets |-> IF new THEN k ELSE count.secrets]
    /\ UNCHANGED <<groups, servers, services, saved, events>>
CreateServer(r) == \E i \in Ids \ Live : Form(r, "create", i, NoServer)
UpdateServer(r) == \E i \in Live : Form(r, "update", i, servers[i])

\* servers.group_id REFERENCES server_groups.
GroupKept(g) == g = NoGroup \/ g \in groups
\* The row is written whole; who has read this server has an old copy now.
Written(r, i, row) ==
    /\ servers' = [servers EXCEPT ![i] = row]
    /\ request' = [q \in Requests |->
                     IF q = r THEN Off
                     ELSE [request[q] EXCEPT !.stale = @ \/ (request[q].at = "update" /\ request[q].id = i)]]
InsertServer(r) ==
    LET q == request[r]
    IN  /\ At(r, "create")
        /\ \/ /\ GroupKept(q.row.group) /\ ~servers[q.id].live
              /\ Written(r, q.id, q.row) /\ saved' = [saved EXCEPT ![q.id] = q.secret]
           \/ Leave(r) /\ UNCHANGED <<servers, saved>>
        /\ UNCHANGED <<groups, services, count, events>>
WriteServer(r) ==
    LET q == request[r]
    IN  /\ At(r, "update")
        /\ \/ /\ GroupKept(q.row.group) /\ servers[q.id].live
              /\ Written(r, q.id, q.row)
              /\ saved' = [saved EXCEPT ![q.id] = IF q.secret = 0 THEN @ ELSE q.secret]
              /\ events' = events \cup When(q.stale, "stale")
           \/ Leave(r) /\ UNCHANGED <<servers, saved, events>>
        /\ UNCHANGED <<groups, services, count>>

-----------------------------------------------------------------------------
(* Deleting.                                                               *)

\* CountByServer: services that are not over.
CountByServer(i) == {a \in Accounts : services[a].server = i /\ services[a].status # "terminated"}
DeleteServer(r) ==
    /\ At(r, "off") /\ count.writes < MaxWrites
    /\ \E i \in Live : CountByServer(i) = {} /\ Put(r, [Off EXCEPT !.at = "delete", !.id = i])
    /\ count' = [count EXCEPT !.writes = @ + 1]
    /\ UNCHANGED <<groups, servers, services, saved, events>>
\* Mutant: the count the request has made is trusted.
Counted(i) == TRUE
\* services_server_id_fkey: no row names the server, also not one that is over.
Unreferenced(i) == \A a \in Accounts : services[a].server # i
DeleteRow(r) ==
    LET i == request[r].id
    IN  /\ At(r, "delete")
        /\ \/ servers[i].live /\ Unreferenced(i) /\ Written(r, i, NoServer)
           \/ Leave(r) /\ UNCHANGED servers
        /\ UNCHANGED <<groups, services, saved, count, events>>

CreateGroup == count.writes < MaxWrites /\ \E g \in Groups \ groups : groups' = groups \cup {g}
\* Mutant: only the groups of active servers are kept.
GroupIdle(g) == \A i \in Live : servers[i].active => servers[i].group # g
\* isFKViolation: a group is kept while a server names it.
GroupUnreferenced(g) == \A i \in Live : servers[i].group # g
DeleteGroup == count.writes < MaxWrites /\ \E g \in groups : GroupUnreferenced(g) /\ groups' = groups \ {g}
ChangeGroups ==
    /\ CreateGroup \/ DeleteGroup
    /\ count' = [count EXCEPT !.writes = @ + 1]
    /\ UNCHANGED <<servers, services, request, saved, events>>

-----------------------------------------------------------------------------
(* Services.                                                               *)

\* ProvisionCreate: PickServer, among the active servers of the group ...
PickServer(r) ==
    /\ At(r, "off")
    /\ \E a \in Accounts, i \in Live :
         /\ services[a] = [server |-> 0, status |-> "pending"]
         /\ servers[i].active /\ servers[i].group # NoGroup
         /\ Put(r, [Off EXCEPT !.at = a, !.id = i])
    /\ UNCHANGED <<groups, servers, services, saved, count, events>>
\* ... and the pin, refused by the foreign key when the server is gone.
PinServer(r) ==
    /\ \E a \in Accounts :
         /\ At(r, a)
         /\ \/ servers[request[r].id].live /\ services' = [services EXCEPT ![a].server = request[r].id]
            \/ UNCHANGED services
    /\ Leave(r)
    /\ UNCHANGED <<groups, servers, saved, count, events>>
\* ProvisionTerminate: the row keeps naming its server.
ProvisionTerminate(a) ==
    /\ services[a].server # 0 /\ services[a].status # "terminated"
    /\ services' = [services EXCEPT ![a].status = "terminated"]
    /\ UNCHANGED <<groups, servers, request, saved, count, events>>

Next ==
    \/ \E r \in Requests :
         \/ CreateServer(r) \/ UpdateServer(r) \/ InsertServer(r) \/ WriteServer(r)
         \/ DeleteServer(r) \/ DeleteRow(r) \/ PickServer(r) \/ PinServer(r)
    \/ ChangeGroups
    \/ \E a \in Accounts : ProvisionTerminate(a)
Spec == Init /\ [][Next]_vars

-----------------------------------------------------------------------------
(* Properties.                                                             *)

\* DeleteServer "removes a server that hosts no live accounts": a service never names
\* a server that is gone, although it may be placed between the count and the delete.
AccountsHaveServers == \A a \in Accounts : services[a].server # 0 => servers[services[a].server].live

\* "removes an empty server group": a server never names a group that is gone, although
\* the group may go between the check of the form and the write.
ServersHaveGroups == \A i \in Live : servers[i].group = NoGroup \/ servers[i].group \in groups

\* "empty secret fields keep the stored values": a server is called with the password
\* saved last, unless an update that read the row before that save wrote it back.
SecretKept == "stale" \notin events => \A i \in Live : servers[i].secret = saved[i]
=============================================================================
