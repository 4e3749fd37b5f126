----------------------------- MODULE MCHeadless -----------------------------
(* Short command lines of any words, with an empty file; and sensible ones, with  *)
(* files that say something, run to their end.                                    *)
EXTENDS Headless, TLC

CONSTANTS MaxUnits  \* the units of a command line

MCAssignments == [w \in {"x=1", "x=2"} |-> [name |-> "x", value |-> IF w = "x=1" THEN "1" ELSE "2"]]
Words == {<<w>> : w \in {"run", "keys", "completion", "smoke", "zsh", "-insecure", "-version",
                         "-nosuch", "-h", "--", "__complete"}}
         \cup {<<"-profile", "run">>, <<"-profile", "smoke">>, <<"-format", "text">>, <<"-format", "run">>, <<"-V", "run">>}
Lines == UNION {[1..n -> Words] : n \in 0..MaxUnits}

EmptyFile == [top |-> NoProfile, profiles |-> << >>, profile |-> "", envs |-> << >>, env |-> ""]
Named1(name, target, secret) ==
  [NoProfile EXCEPT !.name = name, !.target = target, !.secret = secret]
Env(name, target, value) == [name |-> name, target |-> target, vars |-> [x \in {"x"} |-> value]]

\* A file with a top-level target; one with profiles, the second TLS, and top-level
\* settings that are no connection; one with environments, the second of them not
\* usable here.
Files ==
  { [EmptyFile EXCEPT !.top = [NoProfile EXCEPT !.target = "a"]],
    [EmptyFile EXCEPT !.top = [NoProfile EXCEPT !.settings = {"cacert"}],
                      !.profiles = <<Named1("dev", "a", ""), [Named1("prod", "b", "")
                                       EXCEPT !.tls = TRUE, !.settings = {"cacert"}]>>,
                      !.profile = "prod"],
    [EmptyFile EXCEPT !.profiles = <<Named1("dev", "a", "${NO}"), Named1("prod", "", "")>>,
                      !.envs = <<Env("local", "", "1"), Env("away", "c", "${NO}")>>,
                      !.env = "local"] }
Flags == { << >>, <<"-profile", "prod">>, <<"-env", "away">>, <<"-V", "x=2">>, <<"-target", "d">>,
           <<"-tls=false">>, <<"-tls">>, <<"-insecure">>, <<"-insecure=false">>, <<"-cert", "c.pem">>,
           <<"-cacert", "ca.pem">> }

Job(units, file, timeout) ==
  [line |-> SelectSeq(units, LAMBDA u : u # << >>), file |-> file, broken |-> {}, headers |-> {}, timeout |-> timeout]
MCJobs ==
  {Job(line, EmptyFile, TRUE) : line \in Lines}
  \cup {Job(<<flag, <<"host">>, other>>, file, TRUE) : flag, other \in Flags \ {<<"-target", "d">>, << >>},
                                                      file \in Files}
  \cup {Job(<<<<"run">>, <<"smoke">>, <<"-tls">>, flag>>, file, TRUE) : flag \in Flags, file \in Files}
  \cup {Job(<<<<"run">>, <<s>>, <<"-V", "x=1">>>>, file, timeout) :
          s \in {"smoke", "smoke/login", "smoke/nothing"}, file \in Files, timeout \in BOOLEAN}
  \cup {[Job(<<<<"run">>, <<"smoke">>>>, file, TRUE) EXCEPT !.broken = broken, !.headers = {"x"}] :
          file \in Files, broken \in SUBSET {"requests", "look", "log", "schema"}}

Saved(name, method, needs) == [name |-> name, method |-> method, needs |-> needs]
MCSubjects == [w \in {"run", "keys", "completion", "smoke", "zsh", "host", "--", "-insecure", "-version",
                      "-nosuch", "-profile", "-format", "-V", "__complete", "text", "smoke/login", "smoke/nothing"} |->
                 [collection |-> IF w \in {"smoke/login", "smoke/nothing"} THEN "smoke" ELSE w,
                  request |-> CASE w = "smoke/login" -> "login" [] w = "smoke/nothing" -> "nothing"
                                [] OTHER -> ""]]
MCCollections == [c \in {"smoke"} |-> <<Saved("login", "Login", {}), Saved("follow", "Watch", {"x"}),
                                        Saved("fill", "Upload", {})>>]
MCKinds == [m \in {"Login", "Watch", "Upload"} |->
              CASE m = "Login" -> "unary" [] m = "Watch" -> "watch" [] OTHER -> "upload"]
=============================================================================
