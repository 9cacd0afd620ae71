---------------------------- MODULE MCDeployment ----------------------------
(***************************************************************************)
(* The instance of Deployment that the runs check.                         *)
(***************************************************************************)
EXTENDS Deployment

MCScopes == <<"a", "b">>
MCContents == Contents
On(scope) == [state |-> "on", scope |-> scope]
MCRevisions == {Gone, On("all"), [state |-> "off", scope |-> "b"]}
MCStores == {<<On("a"), On("b")>>}
=============================================================================
