-------------------------- MODULE MCLinterCommand --------------------------
(* Pairs of commands of one user, and small trees of rules and tests.      *)
EXTENDS LinterCommand

CONSTANTS p1, p2

Banner(msg, show, hide) == [msg |-> msg, show |-> show, hide |-> hide, conditional |-> FALSE]

MCFirstApp == [stamp |-> None, msg |-> "no findings 1", len |-> 2, json |-> TRUE, banners |->
                {Banner("upgrade", 0, 3), Banner("old", 0, 2), Banner("unparseable", -1, 0),
                 [Banner("many 1", 2, 0) EXCEPT !.conditional = TRUE]}]
MCNextApp == [stamp |-> None, msg |-> "no findings 2", len |-> 1, json |-> TRUE, banners |-> {}]

MCFirstSettings == {NoFile, NotMapping, [api_token |-> "stale", shown |-> FALSE],
                    [api_token |-> "t1", shown |-> TRUE]}

-----------------------------------------------------------------------------
(* Trees of tests                                                          *)

N(stem, suf) == [stem |-> stem, suf |-> suf]
Dir == <<N("t", << >>)>>
In(dir, stem, suf) == Append(dir, N(stem, suf))
Foo(suf) == In(Dir, "foo", suf)
Yaml == <<".yaml">>
Py == <<".py">>
FixedPy == <<".fixed", ".py">>

Rule(id) == [id |-> id, fix |-> FALSE]
FixRule(id) == [id |-> id, fix |-> TRUE]
Config(rules, yaml) == [rules |-> rules, yaml |-> yaml, text |-> << >>]
Text(lines) == [rules |-> {}, yaml |-> "valid", text |-> lines]
Note(kind, ids) == [kind |-> kind, ids |-> ids]
Code(ids) == Note("code", ids)
FixedLine == Note("fixed", {})

RS == {"r", "s"}
One == Foo(Yaml) :> Config({FixRule("r"), Rule("s")}, "valid")

(* Annotated as it is reported, with a todo, and fixed as expected.        *)
Good == One @@ Foo(Py) :> Text(<<Note("ruleid", {"r", "s"}), Code(RS), Note("todook", {"s"}), Code({"s"})>>)
            @@ Foo(FixedPy) :> Text(<<Note("ruleid", {"r", "s"}), FixedLine, Note("todook", {"s"}), Code({"s"})>>)
(* Fixed otherwise.                                                        *)
BadFix == [Good EXCEPT ![Foo(FixedPy)] = Text(<<Note("ruleid", {"r", "s"}), Code({"s"}), Note("todook", {"s"}), Code({"s"})>>)]
(* Reported where the annotations say ok.                                  *)
NotOk == One @@ Foo(Py) :> Text(<<Note("ok", {"r"}), Code({"r"})>>)
(* Reported without an annotation; a rule missed; nothing reported.        *)
Extra == One @@ Foo(Py) :> Text(<<Note("ruleid", {"r"}), Code({"r"}), Code({"r"})>>)
Mismatch == One @@ Foo(Py) :> Text(<<Note("ruleid", {"r"}), Code({"r"}), Note("ok", {"s"}), Code({})>>)
Missed == One @@ Foo(Py) :> Text(<<Note("ruleid", {"r"}), Code({}), Note("todoruleid", {"s"}), Code({})>>)
(* Two configurations, one target and one copy to fix.                     *)
Shared(text) ==
  Foo(Yaml) :> Config({FixRule("r")}, "valid") @@ Foo(<<".pro", ".yaml">>) :> Config({FixRule("s")}, "valid")
  @@ Foo(Py) :> Text(text) @@ Foo(FixedPy) :> Text([i \in DOMAIN text |-> IF text[i].kind = "code" THEN FixedLine ELSE text[i]])
SharedTodo == Shared(<<Note("todook", RS), Code({"r"}), Note("todook", RS), Code({"s"})>>)
(* A target without a suffix beside a fix test; a rule that is no rule;    *)
(* YAML that is none; hidden files and directories; a directory named as   *)
(* the rule; a test of YAML.                                               *)
NoSuffix == Good @@ In(Dir, "foo", << >>) :> Text(<<Code({})>>)
Invalid == Good @@ In(Dir, "bar", Yaml) :> Config({}, "invalid") @@ In(Dir, "bar", Py) :> Text(<<Code({})>>)
Broken == Good @@ In(Dir, "bar", Yaml) :> Config({}, "broken")
Nested == In(Append(Dir, N("d", << >>)), "foo", Yaml) :> Config({Rule("r")}, "valid")
          @@ In(Dir \o <<N("d", << >>), N("foo", << >>)>>, "x", Py) :> Text(<<Note("ruleid", {"r"}), Code({"r"})>>)
          @@ In(Append(Dir, N("d", << >>)), "foo", <<".test", ".yaml">>) :> Text(<<Note("ruleid", {"r"}), Code({"r"})>>)
          @@ In(Dir, "", Yaml) :> Config({}, "broken")
          @@ In(Append(Dir, N("", << >>)), "foo", Yaml) :> Config({}, "broken")

-----------------------------------------------------------------------------
(* Command lines                                                           *)

Command ==
  [name |-> "scan", mode |-> "scan", entry |-> "legacy", ported |-> FALSE, app_token |-> None,
   metrics |-> None, x_mcp |-> FALSE, quiet |-> FALSE, suppress_errors |-> FALSE, outputs |-> FALSE,
   unusable |-> FALSE, version_check |-> FALSE, error_on_findings |-> FALSE, outcomes |-> {[found |-> None, code |-> OK]},
   force |-> FALSE, tty |-> TRUE, request |-> None, public |-> FALSE, registry_id |-> FALSE,
   tree |-> Good, config |-> Dir, target |-> Dir, config_given |-> FALSE, roots |-> 1,
   strict |-> FALSE, errors |-> {}]

Outcome(found, code) == [found |-> found, code |-> code]
Checked == [Command EXCEPT !.version_check = TRUE, !.metrics = "on", !.error_on_findings = TRUE,
              !.outcomes = {Outcome(None, OK), Outcome("some", FATAL), Outcome(None, FATAL)}]
Unblocked == [Command EXCEPT !.version_check = TRUE, !.outcomes = {Outcome(None, OK), Outcome("many", OK)}]
LoginCommand == [Command EXCEPT !.name = "login", !.request = "t2"]
EnginePath == [Command EXCEPT !.mode = "engine path"]
CiCommand == [Checked EXCEPT !.name = "ci", !.metrics = None,
                !.outcomes = {Outcome(None, OK), Outcome("some", OK), Outcome(None, 7)}]
PublishCommand == [Command EXCEPT !.name = "publish", !.app_token = "t1"]

Test(tree) == [Command EXCEPT !.mode = "test", !.tree = tree]
Tests == {Test(tree) : tree \in {Good, BadFix, NotOk, Extra, Mismatch, Missed, SharedTodo, NoSuffix,
                                 Invalid, Broken, Nested}}
         \cup {[Test(Invalid) EXCEPT !.strict = TRUE],
               [Test(Missed) EXCEPT !.errors = {"s"}], [Test(Good) EXCEPT !.errors = {"a target"}],
               [Test(Good) EXCEPT !.roots = 2], [Test(Good) EXCEPT !.outputs = TRUE],
               [Test(Good) EXCEPT !.config = Foo(Yaml), !.config_given = TRUE],
               [Test(Good) EXCEPT !.target = Foo(Py)],
               [Test(Good) EXCEPT !.target = Foo(Py), !.config_given = TRUE],
               [Test(Good) EXCEPT !.target = Foo(Py), !.config = Foo(Yaml), !.config_given = TRUE]}

Pairs == {<<Checked, LoginCommand>>, <<Checked, Unblocked>>, <<Unblocked, Unblocked>>,
          <<[Unblocked EXCEPT !.mode = "version"], [Checked EXCEPT !.mode = "validate", !.metrics = None]>>,
          <<[Checked EXCEPT !.entry = "pro"], [LoginCommand EXCEPT !.app_token = "t1", !.entry = "semgrep"]>>,
          <<[CiCommand EXCEPT !.entry = "pro"], [LoginCommand EXCEPT !.app_token = "bad"]>>,
          <<[CiCommand EXCEPT !.suppress_errors = TRUE, !.version_check = FALSE],
            [CiCommand EXCEPT !.suppress_errors = TRUE, !.error_on_findings = FALSE]>>,
          <<[CiCommand EXCEPT !.suppress_errors = TRUE], [Checked EXCEPT !.quiet = TRUE, !.version_check = FALSE]>>,
          <<[EnginePath EXCEPT !.entry = "semgrep", !.ported = TRUE], [LoginCommand EXCEPT !.force = TRUE]>>,
          <<[LoginCommand EXCEPT !.tty = FALSE], [Checked EXCEPT !.x_mcp = TRUE, !.unusable = TRUE]>>,
          <<PublishCommand, [PublishCommand EXCEPT !.tree = Invalid]>>,
          <<[PublishCommand EXCEPT !.public = TRUE, !.config = Foo(Yaml), !.tree = Shared(<< >>), !.registry_id = TRUE],
            [PublishCommand EXCEPT !.public = TRUE, !.app_token = None]>>}

Job(a, b) == (p1 :> a) @@ (p2 :> b)

(* The files matter to commands that race for them, not to tests.          *)
MCStarts ==
  {[job |-> Job(pair[1], pair[2]), home |-> "writable", settings |-> s, pro |-> "stale"] :
     pair \in Pairs, s \in MCFirstSettings}
  \cup {[job |-> Job(pair[1], pair[2]), home |-> "readonly", settings |-> NoFile, pro |-> "absent"] :
          pair \in Pairs}
  \cup {[job |-> Job(t, EnginePath), home |-> "readonly", settings |-> NoFile, pro |-> "absent"] : t \in Tests}
=============================================================================
