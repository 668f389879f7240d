--------------------------- MODULE MCFileStreamer ---------------------------
(* Sessions that stream two files, one of them perhaps without ranges or   *)
(* with ranges of no bytes, under different memory limits; sessions whose  *)
(* streams are given none, A or B as credentials, with boto3 off, finding  *)
(* E or finding none; and sessions that list a directory marker, a file    *)
(* below it, files that a pattern leaves out, and two that are wanted, two *)
(* to a page.                                                              *)
EXTENDS FileStreamer

CONSTANT none

File(s, ofs, szs) == [scheme |-> s, offsets |-> ofs, sizes |-> szs]
Session(files, limit, given, boto, lists) ==
  [files |-> files, limit |-> limit, given |-> given, boto |-> boto,
   lists |-> lists, stores |-> {{}}]
Listings(lists) ==
  [files |-> <<>>, limit |-> 0, given |-> {none}, boto |-> "off",
   lists |-> lists, stores |-> {{}, {1, 2, 3, 4, 5}, {2, 3, 5, 6}}]

Two(s) == <<File(s, <<4, 0>>, <<1, 2>>), File(s, <<0>>, <<2>>)>>
WithEmpty == <<File("fs", <<>>, <<>>), File("fs", <<3, 0>>, <<2, 0>>),
               File("fs", <<>>, <<>>), File("fs", <<1>>, <<1>>)>>

One(s) == <<File(s, <<0>>, <<1>>)>>
Three(s) == <<File(s, <<0, 1, 1>>, <<1, 0, 0>>)>>
Any == {none, "A", "B"}

MCSetups ==
  {Listings({"s3", "gs", "az", "fs"}),
   Session(Two("fs"), -1, {none}, "off", {"s3"}),
   Session(Two("fs"), 3, {none}, "off", {"fs"}),
   Session(Two("s3"), 0, {"A"}, "off", {"s3"}),
   Session(Three("az"), -1, {none}, "off", {"az"}),
   Session(One("s3"), 0, Any, "off", {"s3"}),
   Session(One("s3"), 0, Any, "E", {"s3", "gs"}),
   Session(One("s3"), 0, Any, none, {"s3"}),
   Session(WithEmpty, 0, {none}, "off", {"gs"}),
   Session(WithEmpty, 2, {none}, "off", {"az"}),
   Session(Two("s3"), 1, Any, "off", {"s3"}),
   Session(<<File("fs", <<>>, <<>>)>>, 0, {none}, "off", {"gs"}),
   Session(<<File("fs", <<0>>, <<1>>), File("gs", <<0>>, <<1>>)>>, -1, {none},
           "off", {"az"})}

Key(p, n, d, a, i) ==
  [inPrefix |-> p, nested |-> n, marker |-> d, allowed |-> a, ignored |-> i]
MCKeys == <<Key(TRUE, FALSE, TRUE, TRUE, FALSE),
            Key(TRUE, TRUE, TRUE, FALSE, FALSE),
            Key(TRUE, TRUE, FALSE, TRUE, FALSE),
            Key(TRUE, FALSE, FALSE, TRUE, TRUE),
            Key(TRUE, FALSE, FALSE, TRUE, FALSE),
            Key(FALSE, FALSE, FALSE, TRUE, FALSE)>>
=============================================================================
