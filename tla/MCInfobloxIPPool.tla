-------------------------- MODULE MCInfobloxIPPool --------------------------
(* Instances of InfobloxIPPool for TLC.                                     *)
EXTENDS InfobloxIPPool

\* Users name the server's default view or leave the choice to the instance.
OptionalView == {None, DefaultView}
=============================================================================
