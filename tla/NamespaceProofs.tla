--------------------------- MODULE NamespaceProofs ---------------------------
(* Proofs about Namespace, for any units and any number of overlapping       *)
(* requests.                                                                *)
EXTENDS Namespace, TLAPS

Busy(s) == session[s] # Idle

-----------------------------------------------------------------------------
(* The invariants                                                          *)

(* Unconditionally: whoever is read, the group it is read from exists, and   *)
(* what a step relies on has happened.                                      *)
Reading ==
    \A s \in Sessions :
        /\ session[s].op \in {"assign", "unassign", "notify"} => group.exists
        /\ session[s].op \in {"assign", "unassign", "notify"} /\ session[s].step = "write"
              => session[s].read.exists
        /\ At(s, "create", "read") => group.exists
        /\ At(s, "create", "describe") => session[s].read.exists
        /\ At(s, "delete", "mark") => session[s].read.exists

(* A permission of a unit comes from an assignment.                         *)
Permitting ==
    /\ authz.permission # None => history.assigned
    /\ \A s \in Sessions :
          At(s, "assign", "permit") \/ At(s, "unassign", "roles") => history.assigned

(* Only a gateway that was made for SDX is taken for one.                   *)
Made ==
    /\ group.sdx => history.sdx
    /\ \A s \in Sessions : Busy(s) => (session[s].read.sdx => history.sdx)

Clean ==
    /\ contents \cap {"products", "consumers"} = {}
    /\ "config" \in contents => history.sdx

(* A delete has emptied what it has passed, unless something came late.      *)
Emptied ==
    ~history.late =>
        /\ ~authz.resource => Clean
        /\ \A s \in Sessions : session[s].op = "delete" =>
              /\ "consumers" \notin contents
              /\ session[s].step = "products" => ("config" \in contents => history.sdx)
              /\ session[s].step \in {"look", "mark", "resource"} => Clean

(* While no request is served with it, a creation is alone, and there is no   *)
(* group before it makes one.                                               *)
Solitary ==
    ~history.early =>
        \A s \in Sessions : Busy(s) /\ session[s].op = "create" =>
            /\ \A t \in Sessions : Busy(t) => t = s
            /\ session[s].step \in {"register", "group"} => ~group.exists

(* A mark that is written stays, unless it is undone, and is there before    *)
(* the resource goes.                                                       *)
Marking ==
    /\ \A s \in Sessions :
          /\ At(s, "create", "group") => group.exists \/ authz.resource
          /\ At(s, "delete", "mark") \/ At(s, "delete", "resource") => group.exists
    /\ ~history.lost =>
          /\ \A s \in Sessions : At(s, "delete", "resource") => group.marked
          /\ group.exists /\ ~authz.resource => group.marked

Agreed ==
    /\ authz.permission \in {None, group.unit}
    /\ group.enabled # "unset" => authz.permission = group.unit

Apart == history.lost \/ history.torn \/ history.early

(* Attributes and permission agree but for the one step between them, which  *)
(* one request takes at a time.                                             *)
Agreeing ==
    /\ ~authz.resource => authz.permission = None
    /\ \A s \in Sessions : At(s, "assign", "write") =>
          session[s].read.unit \in {None, session[s].unit}
    /\ authz.resource /\ ~Apart =>
        /\ (\A s \in Sessions : ~Between(s)) => Agreed
        /\ \A s, t \in Sessions : Between(s) /\ Between(t) => s = t
        /\ \A s \in Sessions :
              /\ At(s, "assign", "permit") =>
                    /\ group.unit = session[s].unit
                    /\ authz.permission \in {None, session[s].unit}
              /\ At(s, "unassign", "withdraw") =>
                    group.unit = None /\ group.enabled = "unset"
              /\ Busy(s) /\ session[s].op = "create" =>
                    authz.permission = None /\ group.enabled = "unset"

(* What was described as a gateway on SDX is known as one, and a delete that *)
(* has passed the data plane is the provisioner's.                          *)
Known ==
    history.sdx /\ ~history.lost =>
        /\ group.sdx
        /\ ~history.early => \A s \in Sessions :
              Busy(s) /\ session[s].op = "delete" /\ session[s].step # "plane"
                  => session[s].flag

Invariant ==
    /\ TypeOK
    /\ Reading
    /\ Permitting
    /\ Made
    /\ Emptied
    /\ Solitary
    /\ Marking
    /\ Agreeing
    /\ Known

-----------------------------------------------------------------------------
(* Types                                                                   *)

SessionOK == session \in [Sessions -> {Idle} \cup Requests]

(* What a request does to its own progress keeps the type of all of them.    *)
LEMMA ProgressTyped ==
    ASSUME SessionOK, NEW s \in Sessions, NEW step \in Steps
    PROVE  /\ Busy(s) /\ Go(s, step) => SessionOK'
           /\ Busy(s) /\ group \in Groups /\ ReadFor(s, step) => SessionOK'
           /\ Busy(s) /\ NoGroup \in Groups /\ Written(s, step) => SessionOK'
           /\ End(s) => SessionOK'
<1>1. Busy(s) => session[s] \in Requests
  BY DEF Busy, SessionOK
<1>2. Busy(s) /\ Go(s, step) => SessionOK'
  BY <1>1 DEF SessionOK, Go, Requests
<1>3. Busy(s) /\ group \in Groups /\ ReadFor(s, step) => SessionOK'
  BY <1>1, ZenonT(60) DEF SessionOK, ReadFor, Requests
<1>4. Busy(s) /\ NoGroup \in Groups /\ Written(s, step) => SessionOK'
  BY <1>1, ZenonT(60) DEF SessionOK, Written, Requests
<1>5. End(s) => SessionOK'
  BY DEF SessionOK, End
<1> QED
  BY <1>2, <1>3, <1>4, <1>5

(* So does a request that begins.                                           *)
LEMMA BeginTyped ==
    ASSUME SessionOK, NEW s \in Sessions, NEW op \in Operations, NEW step \in Steps,
           NEW unit \in Places, NEW flag \in BOOLEAN, NEW read \in Groups,
           Begin(s, op, step, unit, flag, read)
    PROVE  SessionOK'
BY DEF SessionOK, Begin, Requests

(* The groups that a creation starts from.                                  *)
LEMMA GroupsTyped == NoGroup \in Groups /\ BareGroup \in Groups
BY NamespaceAssumption DEF NoGroup, BareGroup, Groups, Places

(* Types are kept; that a group which is written back exists needs Reading.  *)
LEMMA TypesKept ==
    ASSUME TypeOK, Reading, NEW s \in Sessions,
           Creation(s) \/ Assignment(s) \/ Deletion(s) \/ Interrupt(s)
    PROVE  TypeOK'
<1>0. SessionOK /\ (Busy(s) => session[s] \in Requests)
  BY DEF TypeOK, SessionOK, Busy
<1>1. ASSUME CheckAvailable(s) PROVE TypeOK'
  <2>1. PICK sdx \in BOOLEAN, unit \in Places :
            Begin(s, "create", "register", unit, sdx, NoGroup)
    BY <1>1 DEF CheckAvailable, Places
  <2>2. SessionOK'
    BY <1>0, <2>1, BeginTyped, GroupsTyped DEF Operations, Steps
  <2> QED
    BY <1>1, <2>2 DEF CheckAvailable, Quiet, TypeOK, SessionOK
<1>2. ASSUME Register(s) PROVE TypeOK'
  <2>1. SessionOK'
    BY <1>0, <1>2, ProgressTyped, GroupsTyped DEF Register, At, Busy, TypeOK,
       Steps
  <2>2. UNCHANGED <<group, contents, history>>
    BY <1>2 DEF Register
  <2>3. CASE UNCHANGED authz
    BY <2>1, <2>2, <2>3 DEF TypeOK, SessionOK
  <2>4. CASE authz' = [authz EXCEPT !.resource = TRUE]
    BY <2>1, <2>2, <2>4 DEF TypeOK, SessionOK
  <2> QED
    BY <1>2, <2>3, <2>4 DEF Register
<1>3. ASSUME MakeGroup(s) PROVE TypeOK'
  <2>1. SessionOK'
    BY <1>0, <1>3, ProgressTyped, GroupsTyped DEF MakeGroup, Described, At, Busy,
       TypeOK, Steps
  <2>2. group' \in {group, BareGroup}
    BY <1>3 DEF MakeGroup
  <2>3. BareGroup.exists
    BY DEF BareGroup, NoGroup
  <2> QED
    BY <1>3, <2>1, <2>2, <2>3, GroupsTyped DEF MakeGroup, TypeOK, SessionOK
<1>4. ASSUME ReadGroup(s) PROVE TypeOK'
  <2>1. SessionOK'
    BY <1>0, <1>4, ProgressTyped, GroupsTyped DEF ReadGroup, At, Busy, TypeOK,
       Steps
  <2> QED
    BY <1>4, <2>1 DEF ReadGroup, TypeOK, SessionOK
<1>5. ASSUME Describe(s) PROVE TypeOK'
  <2>1. SessionOK'
    BY <1>0, <1>5, ProgressTyped, GroupsTyped DEF Describe, Described, At, Busy,
       TypeOK, Steps
  <2>2. session[s] \in Requests /\ session[s].read.exists
    BY <1>0, <1>5 DEF Describe, At, Busy, Reading
  <2>3. PICK unit \in Places, sdx \in BOOLEAN :
            group' = [session[s].read EXCEPT !.unit = unit, !.sdx = sdx]
    <3>1. session[s].read.unit \in Places /\ session[s].unit \in Places
      BY <2>2 DEF Requests, Groups
    <3>2. PICK unit, sdx :
              /\ unit = IF session[s].unit = None THEN session[s].read.unit
                                                 ELSE session[s].unit
              /\ sdx = (session[s].read.sdx \/ session[s].flag)
      OBVIOUS
    <3>3. sdx \in BOOLEAN
      BY <3>2
    <3>4. group' = [session[s].read EXCEPT !.unit = unit, !.sdx = sdx]
      BY <1>5, <2>2, <3>2 DEF Describe, Requests, Groups
    <3> QED
      BY <3>1, <3>2, <3>3, <3>4
  <2>4. group' \in Groups /\ group'.exists
    BY <2>2, <2>3 DEF Requests, Groups
  <2> QED
    BY <1>5, <2>1, <2>2, <2>4 DEF Describe, Undoes, TypeOK, SessionOK, Requests
<1>6. ASSUME GrantRoles(s) PROVE TypeOK'
  <2>1. SessionOK'
    BY <1>0, <1>6, ProgressTyped, GroupsTyped DEF GrantRoles, Fail, At, Busy,
       TypeOK,
       Steps
  <2>2. session[s] \in Requests
    BY <1>0, <1>6 DEF GrantRoles, At, Busy
  <2>3. UNCHANGED <<group, contents>>
    BY <1>6 DEF GrantRoles
  <2>4. CASE authz' = [authz EXCEPT !.roles = TRUE] /\ UNCHANGED history
    BY <2>1, <2>2, <2>3, <2>4 DEF TypeOK, SessionOK, Requests
  <2>5. CASE UNCHANGED authz /\ history' = [history EXCEPT !.torn = @ \/ Between(s)]
    BY <2>1, <2>3, <2>5 DEF TypeOK, SessionOK, Between, At
  <2> QED
    BY <1>6, <2>4, <2>5 DEF GrantRoles, Fail
<1>7. ASSUME ReadToAssign(s) PROVE TypeOK'
  <2>1. SessionOK'
    BY <1>0, <1>7, BeginTyped, GroupsTyped DEF ReadToAssign, TypeOK, Operations,
       Steps, Places
  <2> QED
    BY <1>7, <2>1 DEF ReadToAssign, Noted, TypeOK, SessionOK
<1>8. ASSUME WriteAssignment(s) PROVE TypeOK'
  <2>1. SessionOK'
    BY <1>0, <1>8, ProgressTyped, GroupsTyped DEF WriteAssignment, NotedUnit,
       At, Busy, TypeOK, Steps
  <2>2. session[s] \in Requests /\ session[s].read.exists
    BY <1>0, <1>8 DEF WriteAssignment, At, Busy, Reading
  <2>3. group' = Assigned(session[s].read, session[s].unit, session[s].flag)
    BY <1>8 DEF WriteAssignment
  <2>4. group' \in Groups /\ group'.exists
    BY <2>2, <2>3, NamespaceAssumption DEF Assigned, Enabled, Requests, Groups, Places
  <2>5. PICK lost \in BOOLEAN, torn \in BOOLEAN :
            history' = [history EXCEPT !.lost = @ \/ lost, !.torn = @ \/ torn,
                                       !.assigned = @ \/ TRUE]
    BY <1>8, Zenon DEF WriteAssignment, NotedUnit, Undoes, Between, At
  <2>6. UNCHANGED <<authz, contents>>
    BY <1>8 DEF WriteAssignment
  <2> QED
    BY <2>1, <2>4, <2>5, <2>6 DEF TypeOK, SessionOK
<1>9. ASSUME Permit(s) PROVE TypeOK'
  <2>1. SessionOK'
    BY <1>0, <1>9, ProgressTyped, GroupsTyped DEF Permit, Fail, At, Busy,
       TypeOK, Steps
  <2>2. session[s] \in Requests
    BY <1>0, <1>9 DEF Permit, At, Busy
  <2>3. UNCHANGED <<group, contents>>
    BY <1>9 DEF Permit
  <2>4. CASE authz' = [authz EXCEPT !.permission = session[s].unit] /\ UNCHANGED history
    BY <2>1, <2>2, <2>3, <2>4 DEF TypeOK, SessionOK, Requests
  <2>5. CASE UNCHANGED authz /\ history' = [history EXCEPT !.torn = @ \/ Between(s)]
    BY <2>1, <2>3, <2>5 DEF TypeOK, SessionOK, Between, At
  <2> QED
    BY <1>9, <2>4, <2>5 DEF Permit, Fail
<1>10. ASSUME ReadToUnassign(s) PROVE TypeOK'
  <2>1. SessionOK'
    BY <1>0, <1>10, BeginTyped, GroupsTyped DEF ReadToUnassign, TypeOK,
       Operations,
       Steps, Places
  <2> QED
    BY <1>10, <2>1 DEF ReadToUnassign, Noted, TypeOK, SessionOK
<1>11. ASSUME WriteUnassignment(s) PROVE TypeOK'
  <2>1. SessionOK'
    BY <1>0, <1>11, ProgressTyped, GroupsTyped DEF WriteUnassignment, NotedUnit,
       At, Busy, TypeOK, Steps
  <2>2. session[s] \in Requests /\ session[s].read.exists
    BY <1>0, <1>11 DEF WriteUnassignment, At, Busy, Reading
  <2>3. group' = [session[s].read EXCEPT !.unit = None, !.enabled = "unset"]
    BY <1>11 DEF WriteUnassignment
  <2>4. group' \in Groups /\ group'.exists
    BY <2>2, <2>3, NamespaceAssumption DEF Assigned, Enabled, Requests, Groups, Places
  <2>5. PICK lost \in BOOLEAN, torn \in BOOLEAN :
            history' = [history EXCEPT !.lost = @ \/ lost, !.torn = @ \/ torn,
                                       !.assigned = @ \/ FALSE]
    BY <1>11, Zenon DEF WriteUnassignment, NotedUnit, Undoes, Between, At
  <2>6. UNCHANGED <<authz, contents>>
    BY <1>11 DEF WriteUnassignment
  <2> QED
    BY <2>1, <2>4, <2>5, <2>6 DEF TypeOK, SessionOK
<1>12. ASSUME Withdraw(s) PROVE TypeOK'
  <2>1. SessionOK'
    BY <1>0, <1>12, ProgressTyped, GroupsTyped DEF Withdraw, At, Busy, TypeOK,
       Steps
  <2> QED
    BY <1>12, <2>1 DEF Withdraw, Places, TypeOK, SessionOK
<1>13. ASSUME WithdrawRoles(s) PROVE TypeOK'
  <2>1. SessionOK'
    BY <1>0, <1>13, ProgressTyped, GroupsTyped DEF WithdrawRoles, At, Busy,
       TypeOK,
       Steps
  <2> QED
    BY <1>13, <2>1 DEF WithdrawRoles, TypeOK, SessionOK
<1>14. ASSUME ReadToNotify(s) PROVE TypeOK'
  <2>1. SessionOK'
    BY <1>0, <1>14, BeginTyped, GroupsTyped DEF ReadToNotify, TypeOK, Operations,
       Steps, Places
  <2> QED
    BY <1>14, <2>1 DEF ReadToNotify, Noted, TypeOK, SessionOK
<1>15. ASSUME WriteNotification(s) PROVE TypeOK'
  <2>1. SessionOK'
    BY <1>0, <1>15, ProgressTyped, GroupsTyped DEF WriteNotification, At, Busy,
       TypeOK, Steps
  <2> QED
    BY <1>0, <1>15, <2>1, NamespaceAssumption DEF WriteNotification, NotedWrite,
       Undoes, At, Busy, TypeOK, SessionOK, Reading, Requests, Groups, Places
<1>16. ASSUME Validate(s) PROVE TypeOK'
  <2>1. PICK provisioner \in BOOLEAN :
            Begin(s, "delete", "plane", None, provisioner, NoGroup)
    BY <1>16 DEF Validate
  <2>2. SessionOK'
    BY <1>0, <2>1, BeginTyped, GroupsTyped DEF Operations, Steps, Places
  <2> QED
    BY <1>16, <2>2 DEF Validate, Noted, TypeOK, SessionOK
<1>17. ASSUME CheckPlane(s) PROVE TypeOK'
  <2>1. SessionOK'
    BY <1>0, <1>17, ProgressTyped, GroupsTyped DEF CheckPlane, At, Busy,
       TypeOK, Steps
  <2> QED
    BY <1>17, <2>1 DEF CheckPlane, TypeOK, SessionOK
<1>18. ASSUME DeleteConfig(s) PROVE TypeOK'
  <2>1. SessionOK'
    BY <1>0, <1>18, ProgressTyped, GroupsTyped DEF DeleteConfig, At, Busy,
       TypeOK, Steps
  <2> QED
    BY <1>18, <2>1 DEF DeleteConfig, TypeOK, SessionOK
<1>19. ASSUME DeleteProducts(s) PROVE TypeOK'
  <2>1. SessionOK'
    BY <1>0, <1>19, ProgressTyped, GroupsTyped DEF DeleteProducts, At, Busy,
       TypeOK,
       Steps
  <2> QED
    BY <1>19, <2>1 DEF DeleteProducts, TypeOK, SessionOK
<1>20. ASSUME ReadToMark(s) PROVE TypeOK'
  <2>1. SessionOK'
    BY <1>0, <1>20, ProgressTyped, GroupsTyped DEF ReadToMark, Fail, At, Busy,
       TypeOK, Steps
  <2> QED
    BY <1>20, <2>1 DEF ReadToMark, Fail, Between, At, TypeOK, SessionOK
<1>21. ASSUME Mark(s) PROVE TypeOK'
  <2>1. SessionOK'
    BY <1>0, <1>21, ProgressTyped, GroupsTyped DEF Mark, At, Busy, TypeOK, Steps
  <2> QED
    BY <1>0, <1>21, <2>1, NamespaceAssumption DEF Mark, NotedWrite, Undoes, At,
       Busy, TypeOK, SessionOK,
       Reading, Requests, Groups, Places
<1>22. ASSUME DeleteResource(s) PROVE TypeOK'
  <2>1. SessionOK'
    BY <1>0, <1>22, ProgressTyped, GroupsTyped DEF DeleteResource, At, Busy,
       TypeOK,
       Steps
  <2> QED
    BY <1>22, <2>1 DEF DeleteResource, NoAuthz, Places, TypeOK, SessionOK
<1>23. ASSUME Interrupt(s) PROVE TypeOK'
  <2>1. SessionOK'
    BY <1>0, <1>23, ProgressTyped, GroupsTyped DEF Interrupt, Fail, At, Busy,
       TypeOK,
       Steps
  <2> QED
    BY <1>23, <2>1 DEF Interrupt, Fail, Between, At, TypeOK, SessionOK
<1> QED
  BY <1>1, <1>2, <1>3, <1>4, <1>5, <1>6, <1>7, <1>8, <1>9, <1>10, <1>11, <1>12,
     <1>13, <1>14, <1>15, <1>16, <1>17, <1>18, <1>19, <1>20, <1>21, <1>22,
     <1>23 DEF
     Creation, Assignment, Deletion

-----------------------------------------------------------------------------
(* What the steps of a request keep                                        *)

(* A group that exists is written back as one that exists.                   *)
LEMMA ReadingKept ==
    ASSUME TypeOK, Reading, NEW s \in Sessions,
           Creation(s) \/ Assignment(s) \/ Deletion(s) \/ Interrupt(s)
    PROVE  Reading'
<1>1. ASSUME CheckAvailable(s) PROVE Reading'
  BY <1>1 DEF CheckAvailable, Begin, NoGroup, Quiet, At, Idle, TypeOK,
     Requests, Reading
<1>2. ASSUME Register(s) PROVE Reading'
  BY <1>2 DEF Register, Go, End, At, Idle, TypeOK, Requests, Reading
<1>3. ASSUME MakeGroup(s) PROVE Reading'
  BY <1>3 DEF MakeGroup, Described, Written, End, Go, BareGroup, NoGroup, At,
     Idle, TypeOK, Requests, Reading
<1>4. ASSUME ReadGroup(s) PROVE Reading'
  BY <1>4 DEF ReadGroup, ReadFor, At, Idle, TypeOK, Requests, Reading
<1>5. ASSUME Describe(s) PROVE Reading'
  BY <1>5 DEF Describe, Described, Undoes, Written, End, NoGroup, At, Idle,
     TypeOK, Requests, Reading
<1>6. ASSUME GrantRoles(s) PROVE Reading'
  BY <1>6 DEF GrantRoles, Fail, Between, End, At, Idle, TypeOK, Requests,
     Reading
<1>7. ASSUME ReadToAssign(s) PROVE Reading'
  BY <1>7 DEF ReadToAssign, Begin, Noted, Assignable, At, Idle, TypeOK,
     Requests, Reading
<1>8. ASSUME WriteAssignment(s) PROVE Reading'
  BY <1>8 DEF WriteAssignment, NotedUnit, Undoes, Between, Assigned, Enabled,
     Written, NoGroup, At, Idle, TypeOK, Requests, Reading
<1>9. ASSUME Permit(s) PROVE Reading'
  BY <1>9 DEF Permit, Fail, Between, End, At, Idle, TypeOK, Requests, Reading
<1>10. ASSUME ReadToUnassign(s) PROVE Reading'
  BY <1>10 DEF ReadToUnassign, Begin, Noted, At, Idle, TypeOK, Requests,
     Reading
<1>11. ASSUME WriteUnassignment(s) PROVE Reading'
  BY <1>11 DEF WriteUnassignment, NotedUnit, Undoes, Between, Written, NoGroup,
     At, Idle, TypeOK, Requests, Reading
<1>12. ASSUME Withdraw(s) PROVE Reading'
  BY <1>12 DEF Withdraw, End, Go, At, Idle, TypeOK, Requests, Reading
<1>13. ASSUME WithdrawRoles(s) PROVE Reading'
  BY <1>13 DEF WithdrawRoles, End, At, Idle, TypeOK, Requests, Reading
<1>14. ASSUME ReadToNotify(s) PROVE Reading'
  BY <1>14 DEF ReadToNotify, Begin, Noted, At, Idle, TypeOK, Requests, Reading
<1>15. ASSUME WriteNotification(s) PROVE Reading'
  BY <1>15 DEF WriteNotification, NotedWrite, Undoes, End, At, Idle, TypeOK,
     Requests, Reading
<1>16. ASSUME Validate(s) PROVE Reading'
  BY <1>16 DEF Validate, Begin, Noted, HasConsumers, NoGroup, At, Idle, TypeOK,
     Requests, Reading
<1>17. ASSUME CheckPlane(s) PROVE Reading'
  BY <1>17 DEF CheckPlane, Go, End, At, Idle, TypeOK, Requests, Reading
<1>18. ASSUME DeleteConfig(s) PROVE Reading'
  BY <1>18 DEF DeleteConfig, Go, At, Idle, TypeOK, Requests, Reading
<1>19. ASSUME DeleteProducts(s) PROVE Reading'
  BY <1>19 DEF DeleteProducts, Go, At, Idle, TypeOK, Requests, Reading
<1>20. ASSUME ReadToMark(s) PROVE Reading'
  BY <1>20 DEF ReadToMark, Fail, Between, End, ReadFor, Go, At, Idle, TypeOK,
     Requests, Reading
<1>21. ASSUME Mark(s) PROVE Reading'
  BY <1>21 DEF Mark, NotedWrite, Undoes, Written, NoGroup, At, Idle, TypeOK,
     Requests, Reading
<1>22. ASSUME DeleteResource(s) PROVE Reading'
  BY <1>22 DEF DeleteResource, End, NoAuthz, At, Idle, TypeOK, Requests,
     Reading
<1>23. ASSUME Interrupt(s) PROVE Reading'
  BY <1>23 DEF Interrupt, Fail, Between, End, At, Idle, TypeOK, Requests,
     Reading
<1> QED
  BY <1>1, <1>2, <1>3, <1>4, <1>5, <1>6, <1>7, <1>8, <1>9, <1>10, <1>11, <1>12,
     <1>13, <1>14, <1>15, <1>16, <1>17, <1>18, <1>19, <1>20, <1>21, <1>22,
     <1>23 DEF Creation, Assignment, Deletion

(* Permissions are given and taken after an assignment.                      *)
LEMMA PermittingKept ==
    ASSUME TypeOK, Permitting, NEW s \in Sessions,
           Creation(s) \/ Assignment(s) \/ Deletion(s) \/ Interrupt(s)
    PROVE  Permitting'
<1>1. ASSUME CheckAvailable(s) PROVE Permitting'
  BY <1>1 DEF CheckAvailable, Begin, NoGroup, Quiet, At, Idle, TypeOK,
     Requests, Permitting
<1>2. ASSUME Register(s) PROVE Permitting'
  BY <1>2 DEF Register, Go, End, At, Idle, TypeOK, Requests, Permitting
<1>3. ASSUME MakeGroup(s) PROVE Permitting'
  BY <1>3 DEF MakeGroup, Described, Written, End, Go, BareGroup, NoGroup, At,
     Idle, TypeOK, Requests, Permitting
<1>4. ASSUME ReadGroup(s) PROVE Permitting'
  BY <1>4 DEF ReadGroup, ReadFor, At, Idle, TypeOK, Requests, Permitting
<1>5. ASSUME Describe(s) PROVE Permitting'
  BY <1>5 DEF Describe, Described, Undoes, Written, End, NoGroup, At, Idle,
     TypeOK, Requests, Permitting
<1>6. ASSUME GrantRoles(s) PROVE Permitting'
  BY <1>6 DEF GrantRoles, Fail, Between, End, At, Idle, TypeOK, Requests,
     Permitting
<1>7. ASSUME ReadToAssign(s) PROVE Permitting'
  BY <1>7 DEF ReadToAssign, Begin, Noted, Assignable, At, Idle, TypeOK,
     Requests, Permitting
<1>8. ASSUME WriteAssignment(s) PROVE Permitting'
  BY <1>8 DEF WriteAssignment, NotedUnit, Undoes, Between, Assigned, Enabled,
     Written, NoGroup, At, Idle, TypeOK, Requests, Permitting
<1>9. ASSUME Permit(s) PROVE Permitting'
  BY <1>9 DEF Permit, Fail, Between, End, At, Idle, TypeOK, Requests,
     Permitting
<1>10. ASSUME ReadToUnassign(s) PROVE Permitting'
  BY <1>10 DEF ReadToUnassign, Begin, Noted, At, Idle, TypeOK, Requests,
     Permitting
<1>11. ASSUME WriteUnassignment(s) PROVE Permitting'
  BY <1>11 DEF WriteUnassignment, NotedUnit, Undoes, Between, Written, NoGroup,
     At, Idle, TypeOK, Requests, Permitting
<1>12. ASSUME Withdraw(s) PROVE Permitting'
  BY <1>12 DEF Withdraw, End, Go, At, Idle, TypeOK, Requests, Permitting
<1>13. ASSUME WithdrawRoles(s) PROVE Permitting'
  BY <1>13 DEF WithdrawRoles, End, At, Idle, TypeOK, Requests, Permitting
<1>14. ASSUME ReadToNotify(s) PROVE Permitting'
  BY <1>14 DEF ReadToNotify, Begin, Noted, At, Idle, TypeOK, Requests,
     Permitting
<1>15. ASSUME WriteNotification(s) PROVE Permitting'
  BY <1>15 DEF WriteNotification, NotedWrite, Undoes, End, At, Idle, TypeOK,
     Requests, Permitting
<1>16. ASSUME Validate(s) PROVE Permitting'
  BY <1>16 DEF Validate, Begin, Noted, HasConsumers, NoGroup, At, Idle, TypeOK,
     Requests, Permitting
<1>17. ASSUME CheckPlane(s) PROVE Permitting'
  BY <1>17 DEF CheckPlane, Go, End, At, Idle, TypeOK, Requests, Permitting
<1>18. ASSUME DeleteConfig(s) PROVE Permitting'
  BY <1>18 DEF DeleteConfig, Go, At, Idle, TypeOK, Requests, Permitting
<1>19. ASSUME DeleteProducts(s) PROVE Permitting'
  BY <1>19 DEF DeleteProducts, Go, At, Idle, TypeOK, Requests, Permitting
<1>20. ASSUME ReadToMark(s) PROVE Permitting'
  BY <1>20 DEF ReadToMark, Fail, Between, End, ReadFor, Go, At, Idle, TypeOK,
     Requests, Permitting
<1>21. ASSUME Mark(s) PROVE Permitting'
  BY <1>21 DEF Mark, NotedWrite, Undoes, Written, NoGroup, At, Idle, TypeOK,
     Requests, Permitting
<1>22. ASSUME DeleteResource(s) PROVE Permitting'
  BY <1>22 DEF DeleteResource, End, NoAuthz, At, Idle, TypeOK, Requests,
     Permitting
<1>23. ASSUME Interrupt(s) PROVE Permitting'
  BY <1>23 DEF Interrupt, Fail, Between, End, At, Idle, TypeOK, Requests,
     Permitting
<1> QED
  BY <1>1, <1>2, <1>3, <1>4, <1>5, <1>6, <1>7, <1>8, <1>9, <1>10, <1>11, <1>12,
     <1>13, <1>14, <1>15, <1>16, <1>17, <1>18, <1>19, <1>20, <1>21, <1>22,
     <1>23 DEF Creation, Assignment, Deletion

(* The data plane of a group is only set by a creation for it.               *)
LEMMA MadeKept ==
    ASSUME TypeOK, Made, NEW s \in Sessions,
           Creation(s) \/ Assignment(s) \/ Deletion(s) \/ Interrupt(s)
    PROVE  Made'
<1>1. ASSUME CheckAvailable(s) PROVE Made'
  BY <1>1 DEF CheckAvailable, Begin, NoGroup, Quiet, At, Idle, TypeOK,
     Requests, Made, Busy
<1>2. ASSUME Register(s) PROVE Made'
  BY <1>2 DEF Register, Go, End, At, Idle, TypeOK, Requests, Made, Busy
<1>3. ASSUME MakeGroup(s) PROVE Made'
  BY <1>3 DEF MakeGroup, Described, Written, End, Go, BareGroup, NoGroup, At,
     Idle, TypeOK, Requests, Made, Busy
<1>4. ASSUME ReadGroup(s) PROVE Made'
  BY <1>4 DEF ReadGroup, ReadFor, At, Idle, TypeOK, Requests, Made, Busy
<1>5. ASSUME Describe(s) PROVE Made'
  BY <1>5 DEF Describe, Described, Undoes, Written, End, NoGroup, At, Idle,
     TypeOK, Requests, Made, Busy
<1>6. ASSUME GrantRoles(s) PROVE Made'
  BY <1>6 DEF GrantRoles, Fail, Between, End, At, Idle, TypeOK, Requests, Made,
     Busy
<1>7. ASSUME ReadToAssign(s) PROVE Made'
  BY <1>7 DEF ReadToAssign, Begin, Noted, Assignable, At, Idle, TypeOK,
     Requests, Made, Busy
<1>8. ASSUME WriteAssignment(s) PROVE Made'
  BY <1>8 DEF WriteAssignment, NotedUnit, Undoes, Between, Assigned, Enabled,
     Written, NoGroup, At, Idle, TypeOK, Requests, Made, Busy
<1>9. ASSUME Permit(s) PROVE Made'
  BY <1>9 DEF Permit, Fail, Between, End, At, Idle, TypeOK, Requests, Made,
     Busy
<1>10. ASSUME ReadToUnassign(s) PROVE Made'
  BY <1>10 DEF ReadToUnassign, Begin, Noted, At, Idle, TypeOK, Requests, Made,
     Busy
<1>11. ASSUME WriteUnassignment(s) PROVE Made'
  BY <1>11 DEF WriteUnassignment, NotedUnit, Undoes, Between, Written, NoGroup,
     At, Idle, TypeOK, Requests, Made, Busy
<1>12. ASSUME Withdraw(s) PROVE Made'
  BY <1>12 DEF Withdraw, End, Go, At, Idle, TypeOK, Requests, Made, Busy
<1>13. ASSUME WithdrawRoles(s) PROVE Made'
  BY <1>13 DEF WithdrawRoles, End, At, Idle, TypeOK, Requests, Made, Busy
<1>14. ASSUME ReadToNotify(s) PROVE Made'
  BY <1>14 DEF ReadToNotify, Begin, Noted, At, Idle, TypeOK, Requests, Made,
     Busy
<1>15. ASSUME WriteNotification(s) PROVE Made'
  BY <1>15 DEF WriteNotification, NotedWrite, Undoes, End, At, Idle, TypeOK,
     Requests, Made, Busy
<1>16. ASSUME Validate(s) PROVE Made'
  BY <1>16 DEF Validate, Begin, Noted, HasConsumers, NoGroup, At, Idle, TypeOK,
     Requests, Made, Busy
<1>17. ASSUME CheckPlane(s) PROVE Made'
  BY <1>17 DEF CheckPlane, Go, End, At, Idle, TypeOK, Requests, Made, Busy
<1>18. ASSUME DeleteConfig(s) PROVE Made'
  BY <1>18 DEF DeleteConfig, Go, At, Idle, TypeOK, Requests, Made, Busy
<1>19. ASSUME DeleteProducts(s) PROVE Made'
  BY <1>19 DEF DeleteProducts, Go, At, Idle, TypeOK, Requests, Made, Busy
<1>20. ASSUME ReadToMark(s) PROVE Made'
  BY <1>20 DEF ReadToMark, Fail, Between, End, ReadFor, Go, At, Idle, TypeOK,
     Requests, Made, Busy
<1>21. ASSUME Mark(s) PROVE Made'
  BY <1>21 DEF Mark, NotedWrite, Undoes, Written, NoGroup, At, Idle, TypeOK,
     Requests, Made, Busy
<1>22. ASSUME DeleteResource(s) PROVE Made'
  BY <1>22 DEF DeleteResource, End, NoAuthz, At, Idle, TypeOK, Requests, Made,
     Busy
<1>23. ASSUME Interrupt(s) PROVE Made'
  BY <1>23 DEF Interrupt, Fail, Between, End, At, Idle, TypeOK, Requests, Made,
     Busy
<1> QED
  BY <1>1, <1>2, <1>3, <1>4, <1>5, <1>6, <1>7, <1>8, <1>9, <1>10, <1>11, <1>12,
     <1>13, <1>14, <1>15, <1>16, <1>17, <1>18, <1>19, <1>20, <1>21, <1>22,
     <1>23 DEF Creation, Assignment, Deletion

(* Deletions go on from check to resource, and nothing they emptied fills.   *)
LEMMA EmptiedKept ==
    ASSUME TypeOK, Made, Emptied, NEW s \in Sessions,
           Creation(s) \/ Assignment(s) \/ Deletion(s) \/ Interrupt(s)
    PROVE  Emptied'
<1>1. ASSUME CheckAvailable(s) PROVE Emptied'
  BY <1>1 DEF CheckAvailable, Begin, NoGroup, Quiet, At, Idle, TypeOK,
     Requests, Emptied, Clean, Made, Busy
<1>2. ASSUME Register(s) PROVE Emptied'
  BY <1>2 DEF Register, Go, End, At, Idle, TypeOK, Requests, Emptied, Clean,
     Made, Busy
<1>3. ASSUME MakeGroup(s) PROVE Emptied'
  BY <1>3 DEF MakeGroup, Described, Written, End, Go, BareGroup, NoGroup, At,
     Idle, TypeOK, Requests, Emptied, Clean, Made, Busy
<1>4. ASSUME ReadGroup(s) PROVE Emptied'
  BY <1>4 DEF ReadGroup, ReadFor, At, Idle, TypeOK, Requests, Emptied, Clean,
     Made, Busy
<1>5. ASSUME Describe(s) PROVE Emptied'
  BY <1>5 DEF Describe, Described, Undoes, Written, End, NoGroup, At, Idle,
     TypeOK, Requests, Emptied, Clean, Made, Busy
<1>6. ASSUME GrantRoles(s) PROVE Emptied'
  BY <1>6 DEF GrantRoles, Fail, Between, End, At, Idle, TypeOK, Requests,
     Emptied, Clean, Made, Busy
<1>7. ASSUME ReadToAssign(s) PROVE Emptied'
  BY <1>7 DEF ReadToAssign, Begin, Noted, Assignable, At, Idle, TypeOK,
     Requests, Emptied, Clean, Made, Busy
<1>8. ASSUME WriteAssignment(s) PROVE Emptied'
  BY <1>8 DEF WriteAssignment, NotedUnit, Undoes, Between, Assigned, Enabled,
     Written, NoGroup, At, Idle, TypeOK, Requests, Emptied, Clean, Made, Busy
<1>9. ASSUME Permit(s) PROVE Emptied'
  BY <1>9 DEF Permit, Fail, Between, End, At, Idle, TypeOK, Requests, Emptied,
     Clean, Made, Busy
<1>10. ASSUME ReadToUnassign(s) PROVE Emptied'
  BY <1>10 DEF ReadToUnassign, Begin, Noted, At, Idle, TypeOK, Requests,
     Emptied, Clean, Made, Busy
<1>11. ASSUME WriteUnassignment(s) PROVE Emptied'
  BY <1>11 DEF WriteUnassignment, NotedUnit, Undoes, Between, Written, NoGroup,
     At, Idle, TypeOK, Requests, Emptied, Clean, Made, Busy
<1>12. ASSUME Withdraw(s) PROVE Emptied'
  BY <1>12 DEF Withdraw, End, Go, At, Idle, TypeOK, Requests, Emptied, Clean,
     Made, Busy
<1>13. ASSUME WithdrawRoles(s) PROVE Emptied'
  BY <1>13 DEF WithdrawRoles, End, At, Idle, TypeOK, Requests, Emptied, Clean,
     Made, Busy
<1>14. ASSUME ReadToNotify(s) PROVE Emptied'
  BY <1>14 DEF ReadToNotify, Begin, Noted, At, Idle, TypeOK, Requests, Emptied,
     Clean, Made, Busy
<1>15. ASSUME WriteNotification(s) PROVE Emptied'
  BY <1>15 DEF WriteNotification, NotedWrite, Undoes, End, At, Idle, TypeOK,
     Requests, Emptied, Clean, Made, Busy
<1>16. ASSUME Validate(s) PROVE Emptied'
  BY <1>16 DEF Validate, Begin, Noted, HasConsumers, NoGroup, At, Idle, TypeOK,
     Requests, Emptied, Clean, Made, Busy
<1>17. ASSUME CheckPlane(s) PROVE Emptied'
  BY <1>17 DEF CheckPlane, Go, End, At, Idle, TypeOK, Requests, Emptied, Clean,
     Made, Busy
<1>18. ASSUME DeleteConfig(s) PROVE Emptied'
  BY <1>18 DEF DeleteConfig, Go, At, Idle, TypeOK, Requests, Emptied, Clean,
     Made, Busy
<1>19. ASSUME DeleteProducts(s) PROVE Emptied'
  BY <1>19 DEF DeleteProducts, Go, At, Idle, TypeOK, Requests, Emptied, Clean,
     Made, Busy
<1>20. ASSUME ReadToMark(s) PROVE Emptied'
  BY <1>20 DEF ReadToMark, Fail, Between, End, ReadFor, Go, At, Idle, TypeOK,
     Requests, Emptied, Clean, Made, Busy
<1>21. ASSUME Mark(s) PROVE Emptied'
  BY <1>21 DEF Mark, NotedWrite, Undoes, Written, NoGroup, At, Idle, TypeOK,
     Requests, Emptied, Clean, Made, Busy
<1>22. ASSUME DeleteResource(s) PROVE Emptied'
  BY <1>22 DEF DeleteResource, End, NoAuthz, At, Idle, TypeOK, Requests,
     Emptied, Clean, Made, Busy
<1>23. ASSUME Interrupt(s) PROVE Emptied'
  BY <1>23 DEF Interrupt, Fail, Between, End, At, Idle, TypeOK, Requests,
     Emptied, Clean, Made, Busy
<1> QED
  BY <1>1, <1>2, <1>3, <1>4, <1>5, <1>6, <1>7, <1>8, <1>9, <1>10, <1>11, <1>12,
     <1>13, <1>14, <1>15, <1>16, <1>17, <1>18, <1>19, <1>20, <1>21, <1>22,
     <1>23 DEF Creation, Assignment, Deletion

(* Nobody joins a creation, and it joins nobody, without this being noted.   *)
LEMMA SolitaryKept ==
    ASSUME TypeOK, Solitary, NEW s \in Sessions,
           Creation(s) \/ Assignment(s) \/ Deletion(s) \/ Interrupt(s)
    PROVE  Solitary'
<1>1. ASSUME CheckAvailable(s) PROVE Solitary'
  <2>1. PICK sdx \in BOOLEAN, unit \in Units \cup {None} :
            Begin(s, "create", "register", unit, sdx, NoGroup)
    BY <1>1 DEF CheckAvailable
  <2>2. /\ ~group.exists /\ UNCHANGED <<group, authz>>
        /\ history' = [history EXCEPT !.early = @ \/ ~Quiet]
    BY <1>1 DEF CheckAvailable
  <2>3. session' = [session EXCEPT ![s] =
            [op |-> "create", step |-> "register", unit |-> unit, flag |-> sdx,
             read |-> NoGroup]]
    BY <2>1 DEF Begin
  <2>4. ASSUME ~history'.early PROVE \A t \in Sessions : t # s => ~Busy(t)'
    BY <2>2, <2>3, <2>4 DEF TypeOK, Quiet, Busy
  <2> QED
    BY <2>2, <2>3, <2>4 DEF TypeOK, Solitary, Busy
<1>2. ASSUME Register(s) PROVE Solitary'
  BY <1>2 DEF Register, Go, End, At, Idle, TypeOK, Requests, Solitary, Busy
<1>3. ASSUME MakeGroup(s) PROVE Solitary'
  BY <1>3 DEF MakeGroup, Described, Written, End, Go, BareGroup, NoGroup, At,
     Idle, TypeOK, Requests, Solitary, Busy
<1>4. ASSUME ReadGroup(s) PROVE Solitary'
  BY <1>4 DEF ReadGroup, ReadFor, At, Idle, TypeOK, Requests, Solitary, Busy
<1>5. ASSUME Describe(s) PROVE Solitary'
  BY <1>5 DEF Describe, Described, Undoes, Written, End, NoGroup, At, Idle,
     TypeOK, Requests, Solitary, Busy
<1>6. ASSUME GrantRoles(s) PROVE Solitary'
  BY <1>6 DEF GrantRoles, Fail, Between, End, At, Idle, TypeOK, Requests,
     Solitary, Busy
<1>7. ASSUME ReadToAssign(s) PROVE Solitary'
  <2>1. PICK unit \in Units, enable \in BOOLEAN :
            Begin(s, "assign", "write", unit, enable, group)
    BY <1>7 DEF ReadToAssign
  <2>2. /\ Noted
        /\ UNCHANGED group
    BY <1>7 DEF ReadToAssign
  <2>3. session' = [session EXCEPT ![s] =
            [op |-> "assign", step |-> "write", unit |-> unit, flag |-> enable,
             read |-> group]]
    BY <2>1 DEF Begin
  <2> QED
    BY <2>2, <2>3 DEF Noted, Idle, TypeOK, Solitary, Busy
<1>8. ASSUME WriteAssignment(s) PROVE Solitary'
  BY <1>8 DEF WriteAssignment, NotedUnit, Undoes, Between, Assigned, Enabled,
     Written, NoGroup, At, Idle, TypeOK, Requests, Solitary, Busy
<1>9. ASSUME Permit(s) PROVE Solitary'
  BY <1>9 DEF Permit, Fail, Between, End, At, Idle, TypeOK, Requests, Solitary,
     Busy
<1>10. ASSUME ReadToUnassign(s) PROVE Solitary'
  BY <1>10 DEF ReadToUnassign, Begin, Noted, At, Idle, TypeOK, Requests,
     Solitary, Busy
<1>11. ASSUME WriteUnassignment(s) PROVE Solitary'
  BY <1>11 DEF WriteUnassignment, NotedUnit, Undoes, Between, Written, NoGroup,
     At, Idle, TypeOK, Requests, Solitary, Busy
<1>12. ASSUME Withdraw(s) PROVE Solitary'
  BY <1>12 DEF Withdraw, End, Go, At, Idle, TypeOK, Requests, Solitary, Busy
<1>13. ASSUME WithdrawRoles(s) PROVE Solitary'
  BY <1>13 DEF WithdrawRoles, End, At, Idle, TypeOK, Requests, Solitary, Busy
<1>14. ASSUME ReadToNotify(s) PROVE Solitary'
  BY <1>14 DEF ReadToNotify, Begin, Noted, At, Idle, TypeOK, Requests,
     Solitary, Busy
<1>15. ASSUME WriteNotification(s) PROVE Solitary'
  BY <1>15 DEF WriteNotification, NotedWrite, Undoes, End, At, Idle, TypeOK,
     Requests, Solitary, Busy
<1>16. ASSUME Validate(s) PROVE Solitary'
  BY <1>16 DEF Validate, Begin, Noted, HasConsumers, NoGroup, At, Idle, TypeOK,
     Requests, Solitary, Busy
<1>17. ASSUME CheckPlane(s) PROVE Solitary'
  BY <1>17 DEF CheckPlane, Go, End, At, Idle, TypeOK, Requests, Solitary, Busy
<1>18. ASSUME DeleteConfig(s) PROVE Solitary'
  BY <1>18 DEF DeleteConfig, Go, At, Idle, TypeOK, Requests, Solitary, Busy
<1>19. ASSUME DeleteProducts(s) PROVE Solitary'
  BY <1>19 DEF DeleteProducts, Go, At, Idle, TypeOK, Requests, Solitary, Busy
<1>20. ASSUME ReadToMark(s) PROVE Solitary'
  BY <1>20 DEF ReadToMark, Fail, Between, End, ReadFor, Go, At, Idle, TypeOK,
     Requests, Solitary, Busy
<1>21. ASSUME Mark(s) PROVE Solitary'
  BY <1>21 DEF Mark, NotedWrite, Undoes, Written, NoGroup, At, Idle, TypeOK,
     Requests, Solitary, Busy
<1>22. ASSUME DeleteResource(s) PROVE Solitary'
  BY <1>22 DEF DeleteResource, End, NoAuthz, At, Idle, TypeOK, Requests,
     Solitary, Busy
<1>23. ASSUME Interrupt(s) PROVE Solitary'
  BY <1>23 DEF Interrupt, Fail, Between, End, At, Idle, TypeOK, Requests,
     Solitary, Busy
<1> QED
  BY <1>1, <1>2, <1>3, <1>4, <1>5, <1>6, <1>7, <1>8, <1>9, <1>10, <1>11, <1>12,
     <1>13, <1>14, <1>15, <1>16, <1>17, <1>18, <1>19, <1>20, <1>21, <1>22,
     <1>23 DEF Creation, Assignment, Deletion

(* What is written back keeps the mark, unless it is older than the mark.    *)
LEMMA MarkingKept ==
    ASSUME TypeOK, Reading, Marking, NEW s \in Sessions,
           Creation(s) \/ Assignment(s) \/ Deletion(s) \/ Interrupt(s)
    PROVE  Marking'
<1>1. ASSUME CheckAvailable(s) PROVE Marking'
  BY <1>1 DEF CheckAvailable, Begin, NoGroup, Quiet, At, Idle, TypeOK,
     Requests, Reading, Marking, Busy
<1>2. ASSUME Register(s) PROVE Marking'
  BY <1>2 DEF Register, Go, End, At, Idle, TypeOK, Requests, Reading, Marking,
     Busy
<1>3. ASSUME MakeGroup(s) PROVE Marking'
  BY <1>3 DEF MakeGroup, Described, Written, End, Go, BareGroup, NoGroup, At,
     Idle, TypeOK, Requests, Reading, Marking, Busy
<1>4. ASSUME ReadGroup(s) PROVE Marking'
  BY <1>4 DEF ReadGroup, ReadFor, At, Idle, TypeOK, Requests, Reading, Marking,
     Busy
<1>5. ASSUME Describe(s) PROVE Marking'
  <2>1. session[s] # Idle /\ session[s].op = "create" /\ session[s].step = "describe"
    BY <1>5 DEF Describe, At
  <2>2. session[s].read \in Groups /\ session[s].read.exists
    BY <1>5, <2>1 DEF Describe, At, TypeOK, Requests, Reading
  <2>3. group'.exists = session[s].read.exists /\ group'.marked = session[s].read.marked
    BY <1>5, <2>2 DEF Describe, Groups
  <2>4. history'.lost = (history.lost \/ session[s].read # group)
    BY <1>5 DEF Describe, Undoes, TypeOK
  <2>5. \A t \in Sessions : session'[t] = session[t] \/ (t = s /\ ~At(s, "delete", "mark")'
            /\ ~At(s, "delete", "resource")' /\ ~At(s, "create", "group")')
    BY <1>5, <2>1 DEF Describe, Described, Written, End, At, Idle, TypeOK, Requests
  <2>6. UNCHANGED authz
    BY <1>5 DEF Describe
  <2> QED
    BY <2>2, <2>3, <2>4, <2>5, <2>6 DEF Marking, At
<1>6. ASSUME GrantRoles(s) PROVE Marking'
  BY <1>6 DEF GrantRoles, Fail, Between, End, At, Idle, TypeOK, Requests,
     Reading, Marking, Busy
<1>7. ASSUME ReadToAssign(s) PROVE Marking'
  BY <1>7 DEF ReadToAssign, Begin, Noted, Assignable, At, Idle, TypeOK,
     Requests, Reading, Marking, Busy
<1>8. ASSUME WriteAssignment(s) PROVE Marking'
  BY <1>8 DEF WriteAssignment, NotedUnit, Undoes, Between, Assigned, Enabled,
     Written, NoGroup, At, Idle, TypeOK, Requests, Reading, Marking, Busy
<1>9. ASSUME Permit(s) PROVE Marking'
  BY <1>9 DEF Permit, Fail, Between, End, At, Idle, TypeOK, Requests, Reading,
     Marking, Busy
<1>10. ASSUME ReadToUnassign(s) PROVE Marking'
  BY <1>10 DEF ReadToUnassign, Begin, Noted, At, Idle, TypeOK, Requests,
     Reading, Marking, Busy
<1>11. ASSUME WriteUnassignment(s) PROVE Marking'
  BY <1>11 DEF WriteUnassignment, NotedUnit, Undoes, Between, Written, NoGroup,
     At, Idle, TypeOK, Requests, Reading, Marking, Busy
<1>12. ASSUME Withdraw(s) PROVE Marking'
  BY <1>12 DEF Withdraw, End, Go, At, Idle, TypeOK, Requests, Reading, Marking,
     Busy
<1>13. ASSUME WithdrawRoles(s) PROVE Marking'
  BY <1>13 DEF WithdrawRoles, End, At, Idle, TypeOK, Requests, Reading,
     Marking, Busy
<1>14. ASSUME ReadToNotify(s) PROVE Marking'
  BY <1>14 DEF ReadToNotify, Begin, Noted, At, Idle, TypeOK, Requests, Reading,
     Marking, Busy
<1>15. ASSUME WriteNotification(s) PROVE Marking'
  BY <1>15 DEF WriteNotification, NotedWrite, Undoes, End, At, Idle, TypeOK,
     Requests, Reading, Marking, Busy
<1>16. ASSUME Validate(s) PROVE Marking'
  BY <1>16 DEF Validate, Begin, Noted, HasConsumers, NoGroup, At, Idle, TypeOK,
     Requests, Reading, Marking, Busy
<1>17. ASSUME CheckPlane(s) PROVE Marking'
  BY <1>17 DEF CheckPlane, Go, End, At, Idle, TypeOK, Requests, Reading,
     Marking, Busy
<1>18. ASSUME DeleteConfig(s) PROVE Marking'
  BY <1>18 DEF DeleteConfig, Go, At, Idle, TypeOK, Requests, Reading, Marking,
     Busy
<1>19. ASSUME DeleteProducts(s) PROVE Marking'
  BY <1>19 DEF DeleteProducts, Go, At, Idle, TypeOK, Requests, Reading,
     Marking, Busy
<1>20. ASSUME ReadToMark(s) PROVE Marking'
  BY <1>20 DEF ReadToMark, Fail, Between, End, ReadFor, Go, At, Idle, TypeOK,
     Requests, Reading, Marking, Busy
<1>21. ASSUME Mark(s) PROVE Marking'
  BY <1>21 DEF Mark, NotedWrite, Undoes, Written, NoGroup, At, Idle, TypeOK,
     Requests, Reading, Marking, Busy
<1>22. ASSUME DeleteResource(s) PROVE Marking'
  BY <1>22 DEF DeleteResource, End, NoAuthz, At, Idle, TypeOK, Requests,
     Reading, Marking, Busy
<1>23. ASSUME Interrupt(s) PROVE Marking'
  BY <1>23 DEF Interrupt, Fail, Between, End, At, Idle, TypeOK, Requests,
     Reading, Marking, Busy
<1> QED
  BY <1>1, <1>2, <1>3, <1>4, <1>5, <1>6, <1>7, <1>8, <1>9, <1>10, <1>11, <1>12,
     <1>13, <1>14, <1>15, <1>16, <1>17, <1>18, <1>19, <1>20, <1>21, <1>22,
     <1>23 DEF Creation, Assignment, Deletion

(* An assignment or unassignment that ends has brought both in line.         *)
LEMMA AgreeingKept ==
    ASSUME TypeOK, Reading, Solitary, Agreeing, NEW s \in Sessions,
           Creation(s) \/ Assignment(s) \/ Deletion(s) \/ Interrupt(s)
    PROVE  Agreeing'
<1>1. ASSUME CheckAvailable(s) PROVE Agreeing'
  BY <1>1 DEF CheckAvailable, Begin, NoGroup, Quiet, At, Idle, TypeOK,
     Requests, Agreeing, Agreed, Apart, Between, Solitary, Busy, Reading
<1>2. ASSUME Register(s) PROVE Agreeing'
  <2>1. session[s] # Idle /\ session[s].op = "create" /\ session[s].step = "register"
    BY <1>2 DEF Register, At
  <2>2. UNCHANGED <<group, history>>
    BY <1>2 DEF Register
  <2>3. CASE authz.resource
    BY <1>2, <2>1, <2>2, <2>3 DEF Register, End, At, Idle, TypeOK, Requests,
       Agreeing, Agreed, Apart, Between, Busy
  <2>4. CASE ~authz.resource
    <3>1. /\ authz' = [authz EXCEPT !.resource = TRUE]
          /\ session' = [session EXCEPT ![s].step = "group"]
      BY <1>2, <2>4 DEF Register, Go
    <3>2. authz'.permission = None
      BY <2>4, <3>1 DEF Agreeing, TypeOK
    <3>3. \A t \in Sessions : session'[t] = session[t] \/ (t = s
              /\ session'[s] # Idle /\ session'[s].op = "create")
      BY <2>1, <3>1 DEF TypeOK, Requests, Idle
    <3>4. ASSUME ~Apart
          PROVE  group = NoGroup /\ \A t \in Sessions : t # s => session[t] = Idle
      BY <2>1, <3>4 DEF Apart, Solitary, Busy, TypeOK
    <3>5. \A t \in Sessions : At(t, "assign", "write")' => At(t, "assign", "write")
              /\ session'[t] = session[t]
      BY <3>3 DEF At
    <3>6. ASSUME ~Apart PROVE \A t \in Sessions : ~Between(t)'
                /\ ~At(t, "assign", "permit")' /\ ~At(t, "unassign", "withdraw")'
      <4>1. TAKE t \in Sessions
      <4>2. CASE session'[t] = session[t] /\ t # s
        BY <3>4, <3>6, <4>2 DEF At, Between
      <4>3. CASE session'[t].op = "create"
        BY <4>3 DEF At, Between
      <4>4. session'[s].op = "create"
        BY <2>1, <3>1 DEF TypeOK
      <4> QED
        BY <3>3, <4>2, <4>3, <4>4
    <3>7. Apart' = Apart
      BY <2>2 DEF Apart
    <3>8. ASSUME ~Apart PROVE group'.unit = None /\ group'.enabled = "unset"
      BY <2>2, <3>4, <3>8 DEF NoGroup
    <3>9. authz'.resource
      BY <3>1 DEF TypeOK
    <3> QED
      BY <3>2, <3>5, <3>6, <3>7, <3>8, <3>9, Zenon DEF Agreeing, Agreed
  <2> QED
    BY <2>3, <2>4
<1>3. ASSUME MakeGroup(s) PROVE Agreeing'
  BY <1>3 DEF MakeGroup, Described, Written, End, Go, BareGroup, NoGroup, At,
     Idle, TypeOK, Requests, Agreeing, Agreed, Apart, Between, Solitary, Busy,
     Reading
<1>4. ASSUME ReadGroup(s) PROVE Agreeing'
  BY <1>4 DEF ReadGroup, ReadFor, At, Idle, TypeOK, Requests, Agreeing, Agreed,
     Apart, Between, Solitary, Busy, Reading
<1>5. ASSUME Describe(s) PROVE Agreeing'
  BY <1>5 DEF Describe, Described, Undoes, Written, End, NoGroup, At, Idle,
     TypeOK, Requests, Agreeing, Agreed, Apart, Between, Solitary, Busy,
     Reading
<1>6. ASSUME GrantRoles(s) PROVE Agreeing'
  BY <1>6 DEF GrantRoles, Fail, Between, End, At, Idle, TypeOK, Requests,
     Agreeing, Agreed, Apart, Solitary, Busy, Reading
<1>7. ASSUME ReadToAssign(s) PROVE Agreeing'
  BY <1>7 DEF ReadToAssign, Begin, Noted, Assignable, At, Idle, TypeOK,
     Requests, Agreeing, Agreed, Apart, Between, Solitary, Busy, Reading
<1>8. ASSUME WriteAssignment(s) PROVE Agreeing'
  BY <1>8 DEF WriteAssignment, NotedUnit, Undoes, Between, Assigned, Enabled,
     Written, NoGroup, At, Idle, TypeOK, Requests, Agreeing, Agreed, Apart,
     Solitary, Busy, Reading
<1>9. ASSUME Permit(s) PROVE Agreeing'
  BY <1>9 DEF Permit, Fail, Between, End, At, Idle, TypeOK, Requests, Agreeing,
     Agreed, Apart, Solitary, Busy, Reading
<1>10. ASSUME ReadToUnassign(s) PROVE Agreeing'
  BY <1>10 DEF ReadToUnassign, Begin, Noted, At, Idle, TypeOK, Requests,
     Agreeing, Agreed, Apart, Between, Solitary, Busy, Reading
<1>11. ASSUME WriteUnassignment(s) PROVE Agreeing'
  BY <1>11 DEF WriteUnassignment, NotedUnit, Undoes, Between, Written, NoGroup,
     At, Idle, TypeOK, Requests, Agreeing, Agreed, Apart, Solitary, Busy,
     Reading
<1>12. ASSUME Withdraw(s) PROVE Agreeing'
  BY <1>12 DEF Withdraw, End, Go, At, Idle, TypeOK, Requests, Agreeing, Agreed,
     Apart, Between, Solitary, Busy, Reading
<1>13. ASSUME WithdrawRoles(s) PROVE Agreeing'
  BY <1>13 DEF WithdrawRoles, End, At, Idle, TypeOK, Requests, Agreeing,
     Agreed, Apart, Between, Solitary, Busy, Reading
<1>14. ASSUME ReadToNotify(s) PROVE Agreeing'
  BY <1>14 DEF ReadToNotify, Begin, Noted, At, Idle, TypeOK, Requests,
     Agreeing, Agreed, Apart, Between, Solitary, Busy, Reading
<1>15. ASSUME WriteNotification(s) PROVE Agreeing'
  BY <1>15 DEF WriteNotification, NotedWrite, Undoes, End, At, Idle, TypeOK,
     Requests, Agreeing, Agreed, Apart, Between, Solitary, Busy, Reading
<1>16. ASSUME Validate(s) PROVE Agreeing'
  BY <1>16 DEF Validate, Begin, Noted, HasConsumers, NoGroup, At, Idle, TypeOK,
     Requests, Agreeing, Agreed, Apart, Between, Solitary, Busy, Reading
<1>17. ASSUME CheckPlane(s) PROVE Agreeing'
  BY <1>17 DEF CheckPlane, Go, End, At, Idle, TypeOK, Requests, Agreeing,
     Agreed, Apart, Between, Solitary, Busy, Reading
<1>18. ASSUME DeleteConfig(s) PROVE Agreeing'
  BY <1>18 DEF DeleteConfig, Go, At, Idle, TypeOK, Requests, Agreeing, Agreed,
     Apart, Between, Solitary, Busy, Reading
<1>19. ASSUME DeleteProducts(s) PROVE Agreeing'
  BY <1>19 DEF DeleteProducts, Go, At, Idle, TypeOK, Requests, Agreeing,
     Agreed, Apart, Between, Solitary, Busy, Reading
<1>20. ASSUME ReadToMark(s) PROVE Agreeing'
  BY <1>20 DEF ReadToMark, Fail, Between, End, ReadFor, Go, At, Idle, TypeOK,
     Requests, Agreeing, Agreed, Apart, Solitary, Busy, Reading
<1>21. ASSUME Mark(s) PROVE Agreeing'
  BY <1>21 DEF Mark, NotedWrite, Undoes, Written, NoGroup, At, Idle, TypeOK,
     Requests, Agreeing, Agreed, Apart, Between, Solitary, Busy, Reading
<1>22. ASSUME DeleteResource(s) PROVE Agreeing'
  BY <1>22 DEF DeleteResource, End, NoAuthz, At, Idle, TypeOK, Requests,
     Agreeing, Agreed, Apart, Between, Solitary, Busy, Reading
<1>23. ASSUME Interrupt(s) PROVE Agreeing'
  BY <1>23 DEF Interrupt, Fail, Between, End, At, Idle, TypeOK, Requests,
     Agreeing, Agreed, Apart, Solitary, Busy, Reading
<1> QED
  BY <1>1, <1>2, <1>3, <1>4, <1>5, <1>6, <1>7, <1>8, <1>9, <1>10, <1>11, <1>12,
     <1>13, <1>14, <1>15, <1>16, <1>17, <1>18, <1>19, <1>20, <1>21, <1>22,
     <1>23 DEF Creation, Assignment, Deletion

(* No write takes a group from the SDX plane, unless it is older.            *)
LEMMA KnownKept ==
    ASSUME TypeOK, Reading, Solitary, Made, Known, NEW s \in Sessions,
           Creation(s) \/ Assignment(s) \/ Deletion(s) \/ Interrupt(s)
    PROVE  Known'
<1>1. ASSUME CheckAvailable(s) PROVE Known'
  BY <1>1 DEF CheckAvailable, Begin, NoGroup, Quiet, At, Idle, TypeOK,
     Requests, Known, Solitary, Busy, Reading, Made
<1>2. ASSUME Register(s) PROVE Known'
  BY <1>2 DEF Register, Go, End, At, Idle, TypeOK, Requests, Known, Solitary,
     Busy, Reading, Made
<1>3. ASSUME MakeGroup(s) PROVE Known'
  BY <1>3 DEF MakeGroup, Described, Written, End, Go, BareGroup, NoGroup, At,
     Idle, TypeOK, Requests, Known, Solitary, Busy, Reading, Made
<1>4. ASSUME ReadGroup(s) PROVE Known'
  BY <1>4 DEF ReadGroup, ReadFor, At, Idle, TypeOK, Requests, Known, Solitary,
     Busy, Reading, Made
<1>5. ASSUME Describe(s) PROVE Known'
  BY <1>5 DEF Describe, Described, Undoes, Written, End, NoGroup, At, Idle,
     TypeOK, Requests, Known, Solitary, Busy, Reading, Made
<1>6. ASSUME GrantRoles(s) PROVE Known'
  BY <1>6 DEF GrantRoles, Fail, Between, End, At, Idle, TypeOK, Requests,
     Known, Solitary, Busy, Reading, Made
<1>7. ASSUME ReadToAssign(s) PROVE Known'
  BY <1>7 DEF ReadToAssign, Begin, Noted, Assignable, At, Idle, TypeOK,
     Requests, Known, Solitary, Busy, Reading, Made
<1>8. ASSUME WriteAssignment(s) PROVE Known'
  BY <1>8 DEF WriteAssignment, NotedUnit, Undoes, Between, Assigned, Enabled,
     Written, NoGroup, At, Idle, TypeOK, Requests, Known, Solitary, Busy,
     Reading, Made
<1>9. ASSUME Permit(s) PROVE Known'
  BY <1>9 DEF Permit, Fail, Between, End, At, Idle, TypeOK, Requests, Known,
     Solitary, Busy, Reading, Made
<1>10. ASSUME ReadToUnassign(s) PROVE Known'
  BY <1>10 DEF ReadToUnassign, Begin, Noted, At, Idle, TypeOK, Requests, Known,
     Solitary, Busy, Reading, Made
<1>11. ASSUME WriteUnassignment(s) PROVE Known'
  BY <1>11 DEF WriteUnassignment, NotedUnit, Undoes, Between, Written, NoGroup,
     At, Idle, TypeOK, Requests, Known, Solitary, Busy, Reading, Made
<1>12. ASSUME Withdraw(s) PROVE Known'
  BY <1>12 DEF Withdraw, End, Go, At, Idle, TypeOK, Requests, Known, Solitary,
     Busy, Reading, Made
<1>13. ASSUME WithdrawRoles(s) PROVE Known'
  BY <1>13 DEF WithdrawRoles, End, At, Idle, TypeOK, Requests, Known, Solitary,
     Busy, Reading, Made
<1>14. ASSUME ReadToNotify(s) PROVE Known'
  BY <1>14 DEF ReadToNotify, Begin, Noted, At, Idle, TypeOK, Requests, Known,
     Solitary, Busy, Reading, Made
<1>15. ASSUME WriteNotification(s) PROVE Known'
  BY <1>15 DEF WriteNotification, NotedWrite, Undoes, End, At, Idle, TypeOK,
     Requests, Known, Solitary, Busy, Reading, Made
<1>16. ASSUME Validate(s) PROVE Known'
  BY <1>16 DEF Validate, Begin, Noted, HasConsumers, NoGroup, At, Idle, TypeOK,
     Requests, Known, Solitary, Busy, Reading, Made
<1>17. ASSUME CheckPlane(s) PROVE Known'
  BY <1>17 DEF CheckPlane, Go, End, At, Idle, TypeOK, Requests, Known,
     Solitary, Busy, Reading, Made
<1>18. ASSUME DeleteConfig(s) PROVE Known'
  BY <1>18 DEF DeleteConfig, Go, At, Idle, TypeOK, Requests, Known, Solitary,
     Busy, Reading, Made
<1>19. ASSUME DeleteProducts(s) PROVE Known'
  BY <1>19 DEF DeleteProducts, Go, At, Idle, TypeOK, Requests, Known, Solitary,
     Busy, Reading, Made
<1>20. ASSUME ReadToMark(s) PROVE Known'
  BY <1>20 DEF ReadToMark, Fail, Between, End, ReadFor, Go, At, Idle, TypeOK,
     Requests, Known, Solitary, Busy, Reading, Made
<1>21. ASSUME Mark(s) PROVE Known'
  BY <1>21 DEF Mark, NotedWrite, Undoes, Written, NoGroup, At, Idle, TypeOK,
     Requests, Known, Solitary, Busy, Reading, Made
<1>22. ASSUME DeleteResource(s) PROVE Known'
  BY <1>22 DEF DeleteResource, End, NoAuthz, At, Idle, TypeOK, Requests, Known,
     Solitary, Busy, Reading, Made
<1>23. ASSUME Interrupt(s) PROVE Known'
  BY <1>23 DEF Interrupt, Fail, Between, End, At, Idle, TypeOK, Requests,
     Known, Solitary, Busy, Reading, Made
<1> QED
  BY <1>1, <1>2, <1>3, <1>4, <1>5, <1>6, <1>7, <1>8, <1>9, <1>10, <1>11, <1>12,
     <1>13, <1>14, <1>15, <1>16, <1>17, <1>18, <1>19, <1>20, <1>21, <1>22,
     <1>23 DEF Creation, Assignment, Deletion

-----------------------------------------------------------------------------
(* What goes on in the namespace meanwhile                                  *)

(* What comes and goes in the namespace meanwhile disturbs none of this.    *)
LEMMA OthersKeep ==
    ASSUME Invariant, Publish \/ Grant \/ Revoke
    PROVE  Invariant'
<1>1. /\ UNCHANGED <<group, authz, session>>
      /\ \E late \in BOOLEAN : history' = [history EXCEPT !.late = late]
      /\ contents' \subseteq {"config", "products", "consumers"}
  BY DEF Publish, Grant, Revoke, Arrives, Invariant, TypeOK
<1>2. TypeOK'
  BY <1>1 DEF Invariant, TypeOK
<1>3. /\ history.sdx' = history.sdx /\ history.assigned' = history.assigned
      /\ history.lost' = history.lost /\ history.torn' = history.torn
      /\ history.early' = history.early
  BY <1>1 DEF Invariant, TypeOK
<1>4. Reading' /\ Permitting' /\ Made' /\ Solitary'
  BY <1>1, <1>3 DEF Invariant, Reading, Permitting, Made, Solitary, At, Busy
<1>5. Marking' /\ Agreeing' /\ Known'
  BY <1>1, <1>3 DEF Invariant, Marking, Agreeing, Agreed, Apart, Between, Known, At,
     Busy
<1>6. Emptied'
  BY DEF Publish, Grant, Revoke, Arrives, Invariant, TypeOK, Emptied, Clean, Idle
<1> QED
  BY <1>2, <1>4, <1>5, <1>6 DEF Invariant

-----------------------------------------------------------------------------
(* The theorems                                                            *)

(* The invariant holds at first,                                           *)
LEMMA InitHolds == Init => Invariant
<1> SUFFICES ASSUME Init PROVE Invariant
  OBVIOUS
<1>1. TypeOK
  BY GroupsTyped DEF Init, TypeOK, NoAuthz, Places
<1>2. Reading /\ Permitting /\ Made /\ Emptied
  BY DEF Init, Reading, Permitting, Made, Emptied, Clean, Busy, At, Idle,
     NoGroup, NoAuthz
<1>3. Solitary /\ Marking /\ Agreeing /\ Known
  BY DEF Init, Solitary, Marking, Agreeing, Agreed, Known, Busy, At, Idle, NoGroup,
     NoAuthz
<1> QED
  BY <1>1, <1>2, <1>3 DEF Invariant

(* every step preserves it,                                                *)
LEMMA StepKeeps == Invariant /\ [Next]_vars => Invariant'
<1> SUFFICES ASSUME Invariant, [Next]_vars PROVE Invariant'
  OBVIOUS
<1>1. ASSUME NEW s \in Sessions,
             Creation(s) \/ Assignment(s) \/ Deletion(s) \/ Interrupt(s)
      PROVE  Invariant'
  BY <1>1, TypesKept, ReadingKept, PermittingKept, MadeKept, EmptiedKept,
     SolitaryKept, MarkingKept, AgreeingKept, KnownKept DEF Invariant
<1>2. CASE Publish \/ Grant \/ Revoke
  BY <1>2, OthersKeep
<1>3. CASE UNCHANGED vars
  <2>1. TypeOK' /\ Reading' /\ Permitting' /\ Made' /\ Emptied'
    BY <1>3 DEF vars, Invariant, TypeOK, Reading, Permitting, Made, Emptied,
       Clean, Busy, At
  <2>2. Solitary' /\ Marking' /\ Agreeing' /\ Known'
    BY <1>3 DEF vars, Invariant, Solitary, Marking, Agreeing, Agreed, Apart, Between,
       Known, Busy, At
  <2> QED
    BY <2>1, <2>2 DEF Invariant
<1> QED
  BY <1>1, <1>2, <1>3 DEF Next

(* and so it always holds.                                                 *)
LEMMA AlwaysInvariant == Spec => []Invariant
BY InitHolds, StepKeeps, PTL DEF Spec

(* The group, permissions, contents and requests keep their types; a group    *)
(* once made is never unmade by a write of what was read.                   *)
THEOREM TypeCorrect == Spec => []TypeOK
<1>1. Invariant => TypeOK
  BY DEF Invariant
<1> QED
  BY <1>1, AlwaysInvariant, PTL

(* forceDeleteNamespace: whatever stops, is retried or overlaps, a namespace  *)
(* without its resource holds nothing that did not come behind its back.    *)
THEOREM NothingOutlivesDeletion == Spec => []NothingOutlives
<1>1. Invariant => NothingOutlives
  BY DEF Invariant, NothingOutlives, Deleted, Emptied, Clean
<1> QED
  BY <1>1, AlwaysInvariant, PTL

(* markNamespaceAsDecommissioned: the mark is made before the resource goes   *)
(* and stays, whatever overlaps and fails, unless a request writes back      *)
(* attributes that have changed since it read them.                         *)
THEOREM DeletedMarked == Spec => []DeletedIsMarked
<1>1. Invariant => DeletedIsMarked
  BY DEF Invariant, DeletedIsMarked, Deleted, Marking
<1> QED
  BY <1>1, AlwaysInvariant, PTL

(* assignNamespace and unassignNamespace: at rest the permission is that of   *)
(* the unit in the attributes, or none where nobody has assigned it, unless  *)
(* one of the two writes was undone, left out or overtaken by another        *)
(* assignment, or the creation was not over.                                *)
THEOREM AssignedPermitted == Spec => []AssignedIsPermitted
<1>1. Invariant => AssignedIsPermitted
  BY DEF Invariant, AssignedIsPermitted, Agreeing, Agreed, Apart, Between, Quiet, At
<1> QED
  BY <1>1, AlwaysInvariant, PTL

(* DeleteNamespace: the resource of a gateway that was described as one on    *)
(* SDX goes by the provisioner only, whatever is interrupted, tried again or *)
(* overlaps after its creation, unless a request writes back what changed.   *)
THEOREM SdxDeletedByProvisioner == Spec => OnlyProvisionerDeletesSdx
<1>1. Invariant => \A s \in Sessions :
          At(s, "delete", "resource") /\ history.sdx /\ ~history.lost
              /\ ~history.early => session[s].flag
  BY DEF Invariant, Known, At, Busy
<1>2. Invariant /\ [Next]_vars =>
          [\A s \in Sessions :
              At(s, "delete", "resource") /\ authz.resource /\ ~authz'.resource
                  /\ history.sdx /\ ~history.lost /\ ~history.early
              => session[s].flag]_vars
  BY <1>1
<1> QED
  BY <1>2, AlwaysInvariant, PTL DEF Spec, OnlyProvisionerDeletesSdx

(* unassignNamespace: roles are taken away only after an assignment.          *)
THEOREM RolesOutlive == Spec => RolesOutliveCreation
<1>1. Invariant /\ [Next]_vars =>
          [authz.roles /\ ~authz'.roles => ~authz'.resource \/ history.assigned]_vars
  <2> SUFFICES ASSUME Invariant, Next, authz.roles, ~authz'.roles
               PROVE  ~authz'.resource \/ history.assigned
    OBVIOUS
  <2>1. ASSUME NEW s \in Sessions, authz' # authz,
               Creation(s) \/ Assignment(s) \/ Deletion(s) \/ Interrupt(s)
        PROVE  Register(s) \/ GrantRoles(s) \/ Permit(s) \/ Withdraw(s)
               \/ WithdrawRoles(s) \/ DeleteResource(s)
    BY <2>1 DEF Creation, Assignment, Deletion, CheckAvailable, MakeGroup,
       ReadGroup,
       Describe, ReadToAssign, WriteAssignment, ReadToUnassign, WriteUnassignment,
       ReadToNotify, WriteNotification, Validate, CheckPlane, DeleteConfig,
       DeleteProducts, ReadToMark, Mark, Interrupt
  <2>2. ASSUME NEW s \in Sessions, Register(s) \/ GrantRoles(s) \/ Permit(s) \/ Withdraw(s)
        PROVE  FALSE
    BY <2>2 DEF Register, GrantRoles, Permit, Withdraw, Invariant, TypeOK
  <2>3. ASSUME NEW s \in Sessions, WithdrawRoles(s) PROVE history.assigned
    BY <2>3 DEF WithdrawRoles, Invariant, Permitting
  <2>4. ASSUME NEW s \in Sessions, DeleteResource(s) PROVE ~authz'.resource
    BY <2>4 DEF DeleteResource, NoAuthz
  <2>5. Publish \/ Grant \/ Revoke => authz' = authz
    BY DEF Publish, Grant, Revoke, Arrives
  <2> QED
    BY <2>1, <2>2, <2>3, <2>4, <2>5 DEF Next
<1> QED
  BY <1>1, AlwaysInvariant, PTL DEF Spec, RolesOutliveCreation
=============================================================================
