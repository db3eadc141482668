---------------------------- MODULE ReleaseCustody ----------------------------
(***************************************************************************)
(* What HelmReleaseManager promises about the releases of an eval, whatever*)
(* is installed, cancelled, retried or uninstalled and in whatever order: a*)
(* release is in the cluster only while somebody answers for it.  The eval *)
(* holds it, or the operator has been told of it, and the eval ends only   *)
(* when the operator knows of everything that is left.                     *)
(*                                                                         *)
(* ReleaseLifecycle implements this specification (ReleaseLifecycle!       *)
(* KeepsCustody).                                                          *)
(***************************************************************************)
CONSTANT Releases

VARIABLES
    here,   \* releases that are in the cluster
    held,   \* releases the eval will still uninstall or hand over
    told,   \* releases the operator has been told of
    over    \* the eval has ended

custody == <<here, held, told, over>>

Init ==
    /\ here = {}
    /\ held = {}
    /\ told = {}
    /\ over = FALSE

\* The eval takes a release on before anything of it exists.
Take(r) ==
    /\ held' = held \cup {r}
    /\ UNCHANGED <<here, told>>

\* Only a release that is held is ever created.
Create(r) ==
    /\ r \in held
    /\ here' = here \cup {r}
    /\ UNCHANGED <<held, told>>

\* The release goes; the eval may, or may not yet, let go of it.
Remove(r) ==
    /\ here' = here \ {r}
    /\ held' \in {held, held \ {r}}
    /\ UNCHANGED told

\* The operator is told of releases, which the eval may then let go of.
Tell(S) ==
    /\ told' = told \cup S
    /\ held' \in SUBSET held
    /\ held \ S \subseteq held'
    /\ UNCHANGED here

\* Any of the steps may be the eval's last, if the operator then knows of
\* everything that is left.
MayEnd == over' \in BOOLEAN /\ (over' => here' \subseteq told')

Next ==
    /\ ~over
    /\ \/ \E r \in Releases : Take(r) \/ Create(r) \/ Remove(r)
       \/ \E S \in SUBSET Releases : Tell(S)
    /\ MayEnd

Spec == Init /\ [][Next]_custody

===============================================================================
