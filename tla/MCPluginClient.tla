--------------------------- MODULE MCPluginClient ---------------------------
(* Client c1 has a worker with two reads, of 5 and 2 bytes, c2 and c3 one;  *)
(* a client of chunk size 2 reads 5 bytes in two parts.  The object of c4   *)
(* ends at byte 3, inside the second of two parts; those of the others are  *)
(* long enough.  Library A is found first; later the application names B.   *)
EXTENDS PluginClient

CONSTANTS c1, c2, c3, c4

MCTaskBytes ==
  [x \in Clients |-> IF x = c1 THEN 7 ELSE IF x = c4 THEN 6 ELSE 2]
MCObjectBytes == [x \in Clients |-> IF x = c4 THEN 3 ELSE 7]

Env(m, path, found) == [mode |-> m, explicit |-> path, discovered |-> found]
MCNextEnv == Env("Required", "B", "A")

Setup(k, used, chunkC, v, libA, libB) ==
  [kind |-> k, clients |-> used, env |-> v, libs |-> [A |-> libA, B |-> libB],
   chunk |-> [x \in Clients |-> IF x = c3 THEN 5 ELSE chunkC]]

NoCache == Env("Disabled", "A", "")
MCSetups ==
  {Setup("s3", {c1}, 5, NoCache, "ok", "ok"),
   Setup("gcs", {c1}, 5, NoCache, "ok", "ok"),
   Setup("gcs", {c1}, 2, NoCache, "ok", "ok"),
   Setup("gcs", {c2, c3}, 2, NoCache, "ok", "ok"),
   Setup("azure", {c1}, 2, NoCache, "ok", "ok"),
   Setup("s3", {c4}, 5, NoCache, "ok", "ok"),
   Setup("gcs", {c4}, 2, NoCache, "ok", "ok"),
   Setup("azure", {c4}, 2, NoCache, "ok", "ok"),
   Setup("azure", {c4}, 2, Env("Required", "A", ""), "ok", "ok"),
   Setup("azure", {c2}, 5, Env("Required", "", ""), "ok", "ok"),
   Setup("azure", {c2}, 5, Env("Auto", "A", ""), "broken", "noShutdown"),
   Setup("azure", {c2, c3}, 5, Env("Auto", "", "A"), "ok", "broken")}
=============================================================================
