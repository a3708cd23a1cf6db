---------------------------- MODULE MCClientLink ----------------------------
(* The instances of ClientLink that TLC checks. *)
EXTENDS ClientLink

CONSTANTS s1, s2, s3

MCTenants == {"public", "ta"}
MCLabels == {"public", "ta", "x", "y", "1"}
MCStartsWith == {<<l, l>> : l \in MCLabels}
MCScope == <<"1">>
MCName == <<"x">>
\* A second subscription may come before, between or after the calls on the first.
MCCalls ==
  [call : {"subscribe"}, topic : {<<"x">>, <<"y">>}, scope : {"region"}]
    \cup [call : {"unsubscribe"}, topic : {<<"x">>}, scope : {"region"}]
AllCalls ==
  [call : {"subscribe", "unsubscribe"}, topic : {<<"x">>, <<"y">>}, scope : {"region"}]
    \cup [call : {"publish"}, topic : {<<"x">>}]
    \cup [call : {"notify"}, target : {<<"x">>}]
=============================================================================
