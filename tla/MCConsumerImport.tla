-------------------------- MODULE MCConsumerImport --------------------------
(* A small tree for ConsumerImport: automation/ holds a vendored directory, a *)
(* template directory and the consumer's queue.  Ignored files are in lib.    *)
EXTENDS ConsumerImport

CONSTANTS c1, c2

MCFiles == {"lib/a", "lib/sub/b", "tpl/t", "queue/q"} \cup Ignored
MCDirs == {"root", "lib", "lib/sub", "tpl", "queue"}
MCBeneath ==
  [x \in MCFiles \cup MCDirs |->
     CASE x = "root" -> (MCFiles \cup MCDirs) \ {"root"}
       [] x = "lib" -> {"lib/sub", "lib/a", "lib/sub/b"} \cup Ignored
       [] x = "lib/sub" -> {"lib/sub/b"}
       [] x = "tpl" -> {"tpl/t"}
       [] x = "queue" -> {"queue/q"}
       [] OTHER -> {}]

Directory(d, deleteStale, template) ==
  [kind |-> "directory", source |-> d, destination |-> d,
   deleteStale |-> deleteStale, template |-> template]
File(from, to) ==
  [kind |-> "file", source |-> from, destination |-> to,
   deleteStale |-> FALSE, template |-> FALSE]

MCManifests ==
  { {Directory("lib", TRUE, FALSE), Directory("tpl", TRUE, TRUE)},
    {File("tpl/t", "lib/a"), Directory("lib/sub", TRUE, FALSE)},
    {Directory("root", TRUE, FALSE)},
    {File("lib/a", "queue/q")} }

\* The second commit drops a file.  What changes is what people change.
MCPublished ==
  [c \in Commits |->
     [p \in MCFiles |->
        CASE p \in Ignored -> Absent
          [] p = "lib/sub/b" -> IF c = c1 THEN "v1" ELSE Absent
          [] p = "queue/q" -> Absent
          [] OTHER -> "v1"]]
=============================================================================
