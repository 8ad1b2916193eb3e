-------------------------------- MODULE Staff --------------------------------
(***************************************************************************)
(* Leave and complaints served side by side: every HTTP request is of one  *)
(* of the two services.  The services share no row, so that the properties *)
(* of each must hold whatever the other one does.                          *)
(***************************************************************************)
EXTENDS Leave

CONSTANT Cases
VARIABLES status, told, work, quiet

INSTANCE Complaints

StaffVars == <<vars, status, told, work, quiet>>

(* All rows and units of work are of their types, in both services.        *)
StaffTypeOK == TypeOK /\ ComplaintsTypeOK

StaffInit == Init /\ ComplaintsInit

ServeLeave(r) == /\ work[r] = Idle
                 /\ Step(r)
                 /\ UNCHANGED <<status, told, work, quiet>>
ServeComplaint(r) == /\ tx[r] = Fresh
                     /\ ComplaintsStep(r)
                     /\ UNCHANGED vars

StaffSpec == StaffInit /\ [][\E r \in Requests : ServeLeave(r) \/ ServeComplaint(r)]_StaffVars
=============================================================================
