------------------------------ MODULE Namespace ------------------------------
(***************************************************************************)
(* The life of one namespace (a team's gateway): it is created, assigned   *)
(* to an organization unit and taken from it, and deleted.  Its parts are  *)
(* kept in different places: a Keycloak group whose attributes say whose   *)
(* it is, the resource that requests are authorized against with the       *)
(* permissions on it, and the products and gateway configuration in it.    *)
(* A request changes them one call after the other, with no transaction    *)
(* and no lock; the attributes of the group are always written back whole, *)
(* as they were read.  Any request may stop between two calls.             *)
(***************************************************************************)
EXTENDS FiniteSets

CONSTANTS
    Units,      \* organization units, each of one organization
    Catalogue,  \* units of organizations that come from the data catalogue
    Sessions,   \* requests that may be served at one time
    None        \* no unit

ASSUME NamespaceAssumption == Catalogue \subseteq Units /\ None \notin Units

VARIABLES
    group,      \* the group of the namespace and its attributes
    authz,      \* the resource of the namespace and the permissions on it
    contents,   \* what the Portal and the gateway keep in the namespace
    session,    \* session[s]: the progress of a request
    history     \* history: what happened so far

vars == <<group, authz, contents, session, history>>

NoGroup == [exists |-> FALSE, unit |-> None, enabled |-> "unset",
            sdx |-> FALSE, marked |-> FALSE]

BareGroup == [NoGroup EXCEPT !.exists = TRUE]

(* permission: the unit whose organization administrators see the namespace; *)
(* roles: the permissions of the subsystem's own roles.                     *)
NoAuthz == [resource |-> FALSE, permission |-> None, roles |-> FALSE]

Idle == [op |-> "none"]

Quiet == \A s \in Sessions : session[s] = Idle

At(s, op, step) ==
    session[s] # Idle /\ session[s].op = op /\ session[s].step = step

Begin(s, op, step, unit, flag, read) ==
    /\ session[s] = Idle
    /\ session' = [session EXCEPT ![s] =
           [op |-> op, step |-> step, unit |-> unit, flag |-> flag, read |-> read]]

Go(s, step) == session' = [session EXCEPT ![s].step = step]

ReadFor(s, step) ==
    session' = [session EXCEPT ![s].step = step, ![s].read = group]

(* What was read has been written back.                                     *)
Written(s, step) ==
    session' = [session EXCEPT ![s].step = step, ![s].read = NoGroup]

End(s) == session' = [session EXCEPT ![s] = Idle]

(* Between the write of the attributes and that of the permission.          *)
Between(s) == At(s, "assign", "permit") \/ At(s, "unassign", "withdraw")

(* An error after the first change leaves the later changes undone.         *)
Fail(s) == End(s) /\ history' = [history EXCEPT !.torn = @ \/ Between(s)]

(* A request is served together with a creation.                            *)
Noted == history' = [history EXCEPT !.early =
    @ \/ \E s \in Sessions : session[s] # Idle /\ session[s].op = "create"]

(* What is written back undoes what was written since it was read.          *)
Undoes(s) == session[s].read # group

NotedWrite(s) == history' = [history EXCEPT !.lost = @ \/ Undoes(s)]

(* A write of the unit, too, while another request is between its two.       *)
NotedUnit(s, assigned) == history' = [history EXCEPT
    !.lost = @ \/ Undoes(s),
    !.torn = @ \/ \E t \in Sessions : Between(t),
    !.assigned = @ \/ assigned]

-----------------------------------------------------------------------------
(* Creation: flag says whether the gateway is on the SDX data plane, for a   *)
(* subsystem of the unit                                                    *)

CheckAvailable(s) ==
    /\ ~group.exists
    /\ \E sdx \in BOOLEAN, unit \in Units \cup {None} :
          /\ unit # None => sdx
          /\ Begin(s, "create", "register", unit, sdx, NoGroup)
    /\ history' = [history EXCEPT !.early = @ \/ ~Quiet]
    /\ UNCHANGED <<group, authz, contents>>

(* Keycloak refuses a second resource of the name.                          *)
Register(s) ==
    /\ At(s, "create", "register")
    /\ IF authz.resource
       THEN End(s) /\ UNCHANGED authz
       ELSE authz' = [authz EXCEPT !.resource = TRUE] /\ Go(s, "group")
    /\ UNCHANGED <<group, contents, history>>

Described(s) == IF session[s].flag THEN Written(s, "roles") ELSE End(s)

(* createIfMissing: a group that is there already is left as it is.         *)
MakeGroup(s) ==
    /\ At(s, "create", "group")
    /\ IF group.exists
       THEN Described(s) /\ UNCHANGED group
       ELSE group' = BareGroup /\ Go(s, "read")
    /\ UNCHANGED <<authz, contents, history>>

ReadGroup(s) ==
    /\ At(s, "create", "read")
    /\ ReadFor(s, "describe")
    /\ UNCHANGED <<group, authz, contents, history>>

Describe(s) ==
    /\ At(s, "create", "describe")
    /\ LET asked == session[s] IN
       group' = [asked.read EXCEPT
                    !.unit = IF asked.unit = None THEN @ ELSE asked.unit,
                    !.sdx = @ \/ asked.flag]
    /\ history' = [history EXCEPT !.sdx = @ \/ session[s].flag,
                                  !.lost = @ \/ Undoes(s)]
    /\ Described(s)
    /\ UNCHANGED <<authz, contents>>

(* The provisioner's policy and the permissions of the subsystem's roles.   *)
GrantRoles(s) ==
    /\ At(s, "create", "roles")
    /\ IF authz.resource
       THEN /\ authz' = [authz EXCEPT !.roles = TRUE]
            /\ End(s) /\ UNCHANGED history
       ELSE Fail(s) /\ UNCHANGED authz
    /\ UNCHANGED <<group, contents>>

-----------------------------------------------------------------------------
(* Assignment to a unit: flag says whether publishing is enabled            *)

Enabled(flag) == IF flag THEN "yes" ELSE "no"

(* Through the API a unit of the data catalogue; from the Portal any unit,   *)
(* not enabled, for the namespace of the user's session.                    *)
MayAssign(unit, enable) == unit \in Catalogue \/ (~enable /\ authz.resource)

(* assignNamespaceToOrganization: refused when it is assigned to another     *)
(* unit; nothing is done when it is assigned like this already.             *)
Assignable(unit, enable) ==
    /\ group.unit \in {None, unit}
    /\ ~(group.unit = unit /\ group.enabled = Enabled(enable))

ReadToAssign(s) ==
    /\ group.exists
    /\ \E unit \in Units, enable \in BOOLEAN :
          /\ MayAssign(unit, enable) /\ Assignable(unit, enable)
          /\ Begin(s, "assign", "write", unit, enable, group)
    /\ Noted
    /\ UNCHANGED <<group, authz, contents>>

(* Fault: the attributes are replaced, not edited. *)
AssignedAnew(read, unit, flag) ==
    [BareGroup EXCEPT !.unit = unit, !.enabled = Enabled(flag)]

Assigned(read, unit, flag) ==
    [read EXCEPT !.unit = unit, !.enabled = Enabled(flag)]

WriteAssignment(s) ==
    /\ At(s, "assign", "write")
    /\ group' = Assigned(session[s].read, session[s].unit, session[s].flag)
    /\ NotedUnit(s, TRUE)
    /\ Written(s, "permit")
    /\ UNCHANGED <<authz, contents>>

(* createOrUpdatePermission: it needs the resource, and does not take a      *)
(* permission from another unit.  The unit's groups and policy, which are   *)
(* made first when they are missing, are not modelled.                      *)
Permit(s) ==
    /\ At(s, "assign", "permit")
    /\ LET unit == session[s].unit IN
       IF authz.resource /\ authz.permission \in {None, unit}
       THEN /\ authz' = [authz EXCEPT !.permission = unit]
            /\ End(s) /\ UNCHANGED history
       ELSE Fail(s) /\ UNCHANGED authz
    /\ UNCHANGED <<group, contents>>

-----------------------------------------------------------------------------
(* Taking it from a unit                                                    *)

ReadToUnassign(s) ==
    /\ group.exists /\ group.unit # None
    /\ Begin(s, "unassign", "write", None, FALSE, group)
    /\ Noted
    /\ UNCHANGED <<group, authz, contents>>

WriteUnassignment(s) ==
    /\ At(s, "unassign", "write")
    /\ group' = [session[s].read EXCEPT !.unit = None, !.enabled = "unset"]
    /\ NotedUnit(s, FALSE)
    /\ Written(s, "withdraw")
    /\ UNCHANGED <<authz, contents>>

(* Faults: the permission stays; a permission that is not there is no error. *)
WithdrawNothing(s) ==
    /\ At(s, "unassign", "withdraw")
    /\ End(s)
    /\ UNCHANGED <<group, authz, contents, history>>

WithdrawLeniently(s) ==
    /\ At(s, "unassign", "withdraw")
    /\ authz' = [authz EXCEPT !.permission = None]
    /\ Go(s, "roles")
    /\ UNCHANGED <<group, contents, history>>

(* The permission is found by the namespace and the role, not by the unit;   *)
(* when there is none the request ends in an error.                         *)
Withdraw(s) ==
    /\ At(s, "unassign", "withdraw")
    /\ IF authz.permission = None THEN End(s) ELSE Go(s, "roles")
    /\ authz' = [authz EXCEPT !.permission = None]
    /\ UNCHANGED <<group, contents, history>>

(* The other roles' permissions follow, whoever made them.  A namespace that *)
(* has none ends this request, too, in an error.                            *)
WithdrawRoles(s) ==
    /\ At(s, "unassign", "roles")
    /\ authz' = [authz EXCEPT !.roles = FALSE]
    /\ End(s)
    /\ UNCHANGED <<group, contents, history>>

(* markNotification writes one more attribute.                              *)
ReadToNotify(s) ==
    /\ group.exists /\ authz.resource
    /\ Begin(s, "notify", "write", None, FALSE, group)
    /\ Noted
    /\ UNCHANGED <<group, authz, contents>>

WriteNotification(s) ==
    /\ At(s, "notify", "write")
    /\ group' = session[s].read
    /\ NotedWrite(s)
    /\ End(s)
    /\ UNCHANGED <<authz, contents>>

-----------------------------------------------------------------------------
(* Deletion: flag says whether the caller is the provisioner                *)

(* Fault: consumers are not looked for. *)
ConsumersUnseen == FALSE

HasConsumers == "consumers" \in contents

(* DeleteNamespaceValidate.  That services are configured refuses only a     *)
(* delete that is not forced.                                               *)
Validate(s) ==
    /\ authz.resource /\ ~HasConsumers
    /\ \E provisioner \in BOOLEAN : Begin(s, "delete", "plane", None, provisioner, NoGroup)
    /\ Noted
    /\ UNCHANGED <<group, authz, contents>>

(* An SDX gateway is deleted by the provisioner, which has made sure that it *)
(* is empty.                                                                *)
CheckPlane(s) ==
    /\ At(s, "delete", "plane")
    /\ IF group.sdx
       THEN IF session[s].flag THEN Go(s, "products") ELSE End(s)
       ELSE Go(s, "config")
    /\ UNCHANGED <<group, authz, contents, history>>

DeleteConfig(s) ==
    /\ At(s, "delete", "config")
    /\ contents' = contents \ {"config"}
    /\ Go(s, "products")
    /\ UNCHANGED <<group, authz, history>>

(* A product that has consumers is not deleted, and the error that says so   *)
(* is not looked at.                                                        *)
DeleteProducts(s) ==
    /\ At(s, "delete", "products")
    /\ contents' = IF "consumers" \in contents THEN contents
                   ELSE contents \ {"products"}
    /\ Go(s, "look")
    /\ UNCHANGED <<group, authz, history>>

(* Fault: a group that is not there is marked. *)
ReadToMarkAny(s) ==
    /\ At(s, "delete", "look")
    /\ IF group.marked THEN Go(s, "resource") ELSE ReadFor(s, "mark")
    /\ UNCHANGED <<group, authz, contents, history>>

(* markNamespaceAsDecommissioned *)
ReadToMark(s) ==
    /\ At(s, "delete", "look")
    /\ IF ~group.exists THEN Fail(s)
       ELSE /\ UNCHANGED history
            /\ IF group.marked THEN Go(s, "resource") ELSE ReadFor(s, "mark")
    /\ UNCHANGED <<group, authz, contents>>

Mark(s) ==
    /\ At(s, "delete", "mark")
    /\ group' = [session[s].read EXCEPT !.marked = TRUE]
    /\ NotedWrite(s)
    /\ Written(s, "resource")
    /\ UNCHANGED <<authz, contents>>

(* Keycloak deletes the permissions on a resource with it.                  *)
DeleteResource(s) ==
    /\ At(s, "delete", "resource")
    /\ authz' = NoAuthz
    /\ End(s)
    /\ UNCHANGED <<group, contents, history>>

-----------------------------------------------------------------------------
(* What goes on in the namespace meanwhile                                  *)

(* Something arrives behind the back of a delete.                           *)
Arrives(thing) ==
    /\ contents' = contents \cup {thing}
    /\ history' = [history EXCEPT !.late =
           @ \/ \E s \in Sessions : session[s] # Idle /\ session[s].op = "delete"]
    /\ UNCHANGED <<group, authz, session>>

Publish == authz.resource /\ \E thing \in {"config", "products"} : Arrives(thing)

Grant == "products" \in contents /\ Arrives("consumers")

Revoke ==
    /\ contents' = contents \ {"consumers"}
    /\ UNCHANGED <<group, authz, session, history>>

(* A call fails, or the Portal restarts.                                    *)
Interrupt(s) ==
    /\ session[s] # Idle
    /\ Fail(s)
    /\ UNCHANGED <<group, authz, contents>>

Init ==
    /\ group = NoGroup
    /\ authz = NoAuthz
    /\ contents = {}
    /\ session = [s \in Sessions |-> Idle]
    /\ history = [sdx |-> FALSE, assigned |-> FALSE, lost |-> FALSE,
                  torn |-> FALSE, early |-> FALSE, late |-> FALSE]

Creation(s) ==
    \/ CheckAvailable(s) \/ Register(s) \/ MakeGroup(s) \/ ReadGroup(s)
    \/ Describe(s) \/ GrantRoles(s)

Assignment(s) ==
    \/ ReadToAssign(s) \/ WriteAssignment(s) \/ Permit(s)
    \/ ReadToUnassign(s) \/ WriteUnassignment(s) \/ Withdraw(s) \/ WithdrawRoles(s)
    \/ ReadToNotify(s) \/ WriteNotification(s)

Deletion(s) ==
    \/ Validate(s) \/ CheckPlane(s) \/ DeleteConfig(s) \/ DeleteProducts(s)
    \/ ReadToMark(s) \/ Mark(s) \/ DeleteResource(s)

Next ==
    \/ \E s \in Sessions :
          Creation(s) \/ Assignment(s) \/ Deletion(s) \/ Interrupt(s)
    \/ Publish \/ Grant \/ Revoke

Spec == Init /\ [][Next]_vars

-----------------------------------------------------------------------------
(* Properties                                                              *)

Places == Units \cup {None}

Groups == [exists : BOOLEAN, unit : Places, enabled : {"unset", "no", "yes"},
           sdx : BOOLEAN, marked : BOOLEAN]

Operations == {"create", "assign", "unassign", "notify", "delete"}

Steps == {"register", "group", "read", "describe", "roles", "write", "permit",
          "withdraw", "plane", "config", "products", "look",
          "mark", "resource"}

Requests == [op : Operations, step : Steps, unit : Places, flag : BOOLEAN, read : Groups]

TypeOK ==
    /\ group \in Groups
    /\ ~group.exists => group = NoGroup
    /\ authz \in [resource : BOOLEAN, permission : Places, roles : BOOLEAN]
    /\ contents \subseteq {"config", "products", "consumers"}
    /\ session \in [Sessions -> {Idle} \cup Requests]
    /\ history \in [sdx : BOOLEAN, assigned : BOOLEAN, lost : BOOLEAN,
                    torn : BOOLEAN, early : BOOLEAN, late : BOOLEAN]

(* The group is made after the resource and is never deleted.               *)
Deleted == group.exists /\ ~authz.resource

(* "Delete the UMA resource last: requests for this namespace are authorized *)
(* against it, so while it exists a failed delete can be retried": whatever  *)
(* stops and is retried, a namespace that nobody can act on any more holds   *)
(* no product, no consumer and, outside SDX, no gateway configuration,       *)
(* unless one arrived after the check that a delete begins with.            *)
NothingOutlives ==
    Deleted /\ ~history.late =>
        /\ contents \cap {"products", "consumers"} = {}
        /\ "config" \in contents => history.sdx

(* A deleted namespace stays marked as decommissioned, through failures,     *)
(* retries and overlaps and whatever is assigned meanwhile or afterwards,    *)
(* unless a request wrote back attributes that had changed since it read     *)
(* them.                                                                    *)
DeletedIsMarked == Deleted /\ ~history.lost => group.marked

(* What the attributes say and what administrators see part in no way but    *)
(* these: a request wrote back what had changed, an assignment or its        *)
(* withdrawal stopped between its two writes or another one wrote between    *)
(* them, or a request was served together with the creation.  At rest the    *)
(* permission is otherwise that of the unit in the attributes, or none if    *)
(* they name the unit only since the creation; an assignment carries it.     *)
AssignedIsPermitted ==
    Quiet /\ authz.resource /\ ~history.lost /\ ~history.torn /\ ~history.early =>
        /\ authz.permission \in {None, group.unit}
        /\ group.enabled # "unset" => authz.permission = group.unit

(* "Only the provisioner may delete an SDX gateway": once the attributes say  *)
(* that a gateway is one, whatever is interrupted, tried again or overlaps   *)
(* after its creation, unless a request wrote back what had changed.  A      *)
(* creation that stops before the attributes say so makes no such gateway.   *)
OnlyProvisionerDeletesSdx ==
    [][\A s \in Sessions :
           At(s, "delete", "resource") /\ authz.resource /\ ~authz'.resource
               /\ history.sdx /\ ~history.lost /\ ~history.early
           => session[s].flag]_vars

(* A subsystem's own roles lose the namespace only with it, or after it was  *)
(* once assigned to a unit and taken from it, whatever overlaps or fails.    *)
RolesOutliveCreation ==
    [][authz.roles /\ ~authz'.roles =>
           ~authz'.resource \/ history.assigned]_vars
=============================================================================
