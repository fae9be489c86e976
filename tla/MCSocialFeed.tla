---------------------------- MODULE MCSocialFeed ----------------------------
(* Two readers who follow a celebrity and an ordinary author.              *)
EXTENDS SocialFeed, TLC

CONSTANTS ann, ben, cel, dan, phone, laptop

AllUsers == {ann, ben, cel, dan}
TwoAuthors == {cel, dan}
Graph == {<<ann, cel>>, <<ann, dan>>, <<ben, dan>>}
OneEach == phone :> ann @@ laptop :> ben
OneReader == phone :> ann
=============================================================================
