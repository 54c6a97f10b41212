------------------------------- MODULE MCConf -------------------------------
(* Values of the constants of Conf for TLC.                                *)
EXTENDS Conf

(* "a" < "a-b" < "a-b/" < "a/"                                             *)
MCRank ==
  [s \in Plain \X BOOLEAN |->
    IF s[1] = "a" THEN IF s[2] THEN 4 ELSE 1 ELSE IF s[2] THEN 3 ELSE 2]

Root       == <<>>
MCNames    == {Root, <<"a">>, <<"", "a-b", ".", "", "a">>}
MCSubNames == {<<".">>, <<"a">>, <<"a-b">>, <<"..", "a">>, <<"..", "..", "a-b">>}
OnlyRoot   == {Root}

MCUris == {Root, <<"a">>, <<"a-b">>, <<"a", "a-b">>, <<"a", "a-b", "a">>,
           <<"..", "a", ".", "a-b", "..", "a">>, <<"a-b", "..", "..", "a-b", "", "a">>}

(* The directives a configuration of a run is about: its path blocks other *)
(* than that of "/", which every server has, its hosts, or its error pages.*)
Topics(s) ==
  (IF DOMAIN s.paths \subseteq OnlyRoot /\ Len(blocks) < 2 THEN {} ELSE {"paths"})
    \cup (IF s.ports = {} /\ s.names = {} THEN {} ELSE {"hosts"})
    \cup (IF s.pages = <<>> THEN {} ELSE {"pages"})

(* Bound: configurations are about one thing at a time.                    *)
OneTopic ==
  LET all == UNION {Topics(s) : s \in ToSet(servers)}
  IN  /\ Cardinality(all) <= 1
      /\ read <= CASE all = {"hosts"} -> 9 [] all = {"pages"} -> 6 [] OTHER -> 7
=============================================================================
