------------------------------ MODULE ModemLoad ------------------------------
(***************************************************************************)
(* What a modem load promises (spec.md section 4.4), as an abstract        *)
(* specification that LoadOrchestrator is checked to implement.            *)
(*                                                                         *)
(* A load first puts the modem state to LOADING, then stops the CP and     *)
(* takes it for itself (Halt), and finally starts the CP again and leaves  *)
(* the state at BOOTING (Start).  A warm-reset SPL reload of the CP is     *)
(* one atomic step that never falls between Halt and Start.  Every load    *)
(* that begins ends.                                                       *)
(***************************************************************************)
EXTENDS Naturals

CONSTANT InitRun    \* whether the CP runs when the daemon starts

VARIABLES
    mstate,         \* the modem state a load writes
    cpRun,          \* "started" or "stopped"
    held,           \* a load has stopped the CP and holds it
    loading,        \* a load is in progress
    splReloads      \* warm-reset SPL reloads done

avars == <<mstate, cpRun, held, loading, splReloads>>

Init ==
    /\ mstate = "INIT" /\ cpRun = InitRun
    /\ held = FALSE /\ loading = FALSE /\ splReloads = 0

Begin ==
    /\ ~loading
    /\ loading' = TRUE /\ mstate' = "LOADING"
    /\ UNCHANGED <<cpRun, held, splReloads>>

Halt ==
    /\ loading /\ ~held
    /\ held' = TRUE /\ cpRun' = "stopped"
    /\ UNCHANGED <<mstate, loading, splReloads>>

Start ==
    /\ loading /\ held
    /\ held' = FALSE /\ loading' = FALSE
    /\ cpRun' = "started" /\ mstate' = "BOOTING"
    /\ UNCHANGED splReloads

WarmReload ==
    /\ ~held
    /\ splReloads' = splReloads + 1
    /\ UNCHANGED <<mstate, cpRun, held, loading>>

Next == Begin \/ Halt \/ Start \/ WarmReload

Spec == Init /\ [][Next]_avars /\ WF_avars(Halt) /\ WF_avars(Start)
=============================================================================
