----------------------------- MODULE RunningTarget -----------------------------
(***************************************************************************)
(* How a DSH Host finds out which target it runs                           *)
(* (src/integrations/dsh/runtime-target-binding.ts): the options of the    *)
(* official launcher in the arguments of the process, and the comparison   *)
(* of its own installation with the one a snapshot was read from.          *)
(*                                                                         *)
(* argv is the sequence of tokens after node and the script; "--profile=p" *)
(* and its like are one token, "empty" is the token without characters.    *)
(***************************************************************************)
EXTENDS Integers, Sequences

\* readOptionValue, for the tokens used here.
ProfileValue == [token \in {"--profile=p", "--profile="} |-> IF token = "--profile=p" THEN "p" ELSE "empty"]
PatchValue == [token \in {"--patch=a", "--patch="} |-> IF token = "--patch=a" THEN "a" ELSE "empty"]
\* Commands of the launcher that boot no profile.
OtherCommands == {"--dump-config", "--dump-default-config", "plugin"}

\* parseRunningDshProfileInvocation as a reader of one token after the other.
Refused(reader) == [reader EXCEPT !.expects = "refused"]
Named(reader, value) ==
    IF reader.profile # <<>> \/ value = "empty" THEN Refused(reader)
    ELSE [reader EXCEPT !.profile = <<value>>, !.expects = "option"]
Patched(reader, value) ==
    IF value = "empty" THEN Refused(reader)
    ELSE [reader EXCEPT !.patches = Append(@, value), !.expects = "option"]
Read(reader, token) ==
    CASE reader.expects \in {"app", "refused"} -> reader
      [] reader.expects = "profile" -> Named(reader, token)
      [] reader.expects = "patch" -> Patched(reader, token)
      [] OTHER ->
             CASE token = "--profile" -> [reader EXCEPT !.expects = "profile"]
               [] token \in DOMAIN ProfileValue -> Named(reader, ProfileValue[token])
               [] token = "--patch" -> [reader EXCEPT !.expects = "patch"]
               [] token \in DOMAIN PatchValue -> Patched(reader, PatchValue[token])
               [] token \in OtherCommands -> Refused(reader)
               [] OTHER -> [reader EXCEPT !.expects = "app"]

\* The reader after each number of tokens, from none of them to all.
Reading(start, tokens) ==
    LET reader[i \in 0..Len(tokens)] ==
            IF i = 0 THEN start ELSE Read(reader[i - 1], tokens[i])
    IN  reader

NoInvocation == [profile |-> <<>>, patches |-> <<>>]
Invocation(argv) ==
    LET web == argv # <<>> /\ argv[1] = "web"
        tokens == IF web THEN Tail(argv) ELSE argv
        start == [expects |-> "option", patches |-> <<>>,
                  profile |-> IF web THEN <<"web">> ELSE <<>>]
        end == Reading(start, tokens)[Len(tokens)]
    IN  IF end.expects \in {"option", "app"} /\ end.profile # <<>>
        THEN [profile |-> end.profile, patches |-> end.patches]
        ELSE NoInvocation

\* provenRunningProfile: overlays disqualify.
ProvenProfile_DespitePatches(argv) == Invocation(argv).profile
ProvenProfile(argv) ==
    IF Invocation(argv).patches = <<>> THEN Invocation(argv).profile ELSE <<>>

\* sameExistingPath, owningPackageManifest and the comparisons of matches: the
\* directory the Host was started in is the profile's, if by another name, and
\* the script of the process is in the DSH package of the snapshot.
Bases == {"profile directory", "link to it", "another directory", "gone"}
Scripts == {"in this package", "in another package", "in no package"}
SameInstallation(base, script) ==
    base \in {"profile directory", "link to it"} /\ script = "in this package"
=============================================================================
