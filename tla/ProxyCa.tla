------------------------------- MODULE ProxyCa -------------------------------
(***************************************************************************)
(* The certificate authority of the proxy: `lockrail proxy install-ca`     *)
(* makes one in the home, writes its certificate beside it and puts that   *)
(* into the trust store of the system; `proxy start` signs with what is in *)
(* the home then.  Installs run in several processes, beside the setups    *)
(* and resets of Setup, which archive the home with its authority and      *)
(* leave the system's store as it is; each may be cut anywhere.            *)
(*                                                                         *)
(* The store is that of one Linux distribution: a directory of anchors,    *)
(* into which the certificate is copied under one name, and the bundle     *)
(* that the update command makes of it.                                    *)
(***************************************************************************)
EXTENDS Setup

VARIABLES
  anchor,     \* the file in the directory of anchors
  trusted,    \* the authority in the bundle, or Nothing
  certified   \* history: the directory whose authority an install, running alone,
              \* last reported installed, until two installs cross

caVars == <<anchor, trusted, certified>>
vars == <<setupVars, caVars>>

Init == SetupInit /\ anchor = Nothing /\ trusted = Nothing /\ certified = Nothing

InstallCa == [op |-> "install-ca", given |-> Nothing, reset |-> FALSE]
Installing == {p \in Busy : run[p].cmd = InstallCa}
Torn == Empty   \* a file that is truncated, or that two have written

\* What a file holds after it was truncated and written: of two who write one file
\* at once the end of the longer may stay.
Written(old, new) == {new} \cup (IF old \in {Torn, new} THEN {} ELSE {Torn})

InstallBegins(p) ==
  /\ Starts(p,
       [cmd |-> InstallCa, step |-> "findCa", alone |-> Busy = {}, moved |-> FALSE,
        ca |-> Nothing, open |-> Nothing, file |-> Nothing])
  /\ certified' = IF Installing = {} THEN certified ELSE Nothing
  /\ UNCHANGED <<Disk, ready, anchor, trusted>>

-----------------------------------------------------------------------------
\* CaStore: load, or generate and save.

AlwaysNew(p) == TRUE   \* faulty: what is there is not looked at

NoCa(p) == Here.ca = Nothing

FindCa(p) ==
  /\ At(p, "findCa")
  /\ \/ NoCa(p) /\ Goto(p, "openTmp")
     \/ ~NoCa(p) /\ Here.ca = Torn /\ Goto(p, "failed")
     \/ /\ ~NoCa(p) /\ Here.ca # Torn
        /\ run' = [run EXCEPT ![p].ca = Here.ca, ![p].step = "openCert"]
  /\ UNCHANGED <<Disk, left, ready, caVars>>

\* generate, create_dir_all, and open of the one tmp name, which truncates
OpenTmp(p) ==
  /\ At(p, "openTmp")
  /\ made' = made + 1
  /\ InHome([Here EXCEPT !.tmp = Torn])
  /\ run' = [run EXCEPT ![p].ca = made', ![p].open = home', ![p].file = "tmp",
                        ![p].step = "writeTmp"]
  /\ UNCHANGED <<strayed, left, ready, caVars>>

\* into the file that is open, under whatever name it now has
WriteTmp(p) ==
  /\ At(p, "writeTmp")
  /\ LET d == run[p].open IN
     CASE run[p].file = "tmp" -> \E c \in Written(dirs[d].tmp, run[p].ca) :
                                    dirs' = [dirs EXCEPT ![d].tmp = c]
       [] run[p].file = "ca" -> \E c \in Written(dirs[d].ca, run[p].ca) :
                                    dirs' = [dirs EXCEPT ![d].ca = c]
       [] OTHER -> UNCHANGED dirs   \* gone
  /\ Goto(p, "rename")
  /\ UNCHANGED <<home, made, strayed, left, ready, caVars>>

\* what those who have it open now write into
Renames(q) ==
  IF run[q].step = "writeTmp" /\ run[q].open = home
  THEN [run[q] EXCEPT !.file = IF @ = "tmp" THEN "ca" ELSE "gone"] ELSE run[q]

RenameTmp(p) ==
  /\ At(p, "rename")
  /\ \/ /\ Here.tmp = Nothing   \* another has renamed it, or the home is archived
        /\ Goto(p, "failed") /\ UNCHANGED dirs
     \/ /\ Here.tmp # Nothing
        /\ dirs' = [dirs EXCEPT ![home].ca = Here.tmp, ![home].tmp = Nothing]
        /\ run' = [q \in Process |-> IF q = p THEN [run[p] EXCEPT !.step = "openCert"]
                                     ELSE IF q \in Installing THEN Renames(q) ELSE run[q]]
  /\ UNCHANGED <<home, made, strayed, left, ready, caVars>>

-----------------------------------------------------------------------------
\* install_ca_system and install_ca_linux.

\* fs::write of the certificate: truncated, then written
OpenCert(p) ==
  /\ At(p, "openCert")
  /\ \/ home = Nothing /\ Goto(p, "failed") /\ UNCHANGED dirs
     \/ /\ home # Nothing
        /\ dirs' = [dirs EXCEPT ![home].cert = Torn]
        /\ run' = [run EXCEPT ![p].open = home, ![p].step = "writeCert"]
  /\ UNCHANGED <<home, made, strayed, left, ready, caVars>>

WriteCert(p) ==
  /\ At(p, "writeCert")
  /\ \E c \in Written(dirs[run[p].open].cert, run[p].ca) :
       dirs' = [dirs EXCEPT ![run[p].open].cert = c]
  /\ Goto(p, "openAnchor")
  /\ UNCHANGED <<home, made, strayed, left, ready, caVars>>

\* fs::copy, or sudo cp: from the path, over what is in the anchors
OpenAnchor(p) ==
  /\ At(p, "openAnchor")
  /\ \/ Here.cert = Nothing /\ Goto(p, "failed") /\ UNCHANGED anchor
     \/ /\ Here.cert # Nothing
        /\ anchor' = Torn
        /\ run' = [run EXCEPT ![p].open = home, ![p].step = "writeAnchor"]
  /\ UNCHANGED <<Disk, left, ready, trusted, certified>>

WriteAnchor(p) ==
  /\ At(p, "writeAnchor")
  /\ \E c \in Written(anchor, dirs[run[p].open].cert) : anchor' = c
  /\ Goto(p, "update")
  /\ UNCHANGED <<Disk, left, ready, trusted, certified>>

\* the update command makes the bundle of the anchors that are certificates; where it
\* fails the install does (Stops), and sudo is not tried unless it could not be started
Update(p) ==
  /\ At(p, "update")
  /\ trusted' = IF anchor = Torn THEN Nothing ELSE anchor
  /\ Goto(p, "installed")
  /\ UNCHANGED <<Disk, left, ready, anchor, certified>>

Installed(p) ==
  /\ At(p, "installed")
  /\ certified' = IF run[p].alone THEN home ELSE certified
  /\ run' = [run EXCEPT ![p] = Nothing]
  /\ UNCHANGED <<Disk, left, ready, anchor, trusted>>

InstallStep(p) ==
  \/ FindCa(p) \/ OpenTmp(p) \/ WriteTmp(p) \/ RenameTmp(p) \/ OpenCert(p) \/ WriteCert(p)
  \/ OpenAnchor(p) \/ WriteAnchor(p) \/ Update(p) \/ Installed(p)

\* Stops of Setup ends an install too: cut, or one of its commands failing
Next ==
  \/ SetupNext /\ UNCHANGED caVars
  \/ \E p \in Process : InstallBegins(p) \/ InstallStep(p)

Spec == Init /\ [][Next]_vars

-----------------------------------------------------------------------------
\* proxy start loads what is in the home, and keeps it while it runs
Started == Here.ca

\* README.md:246-247 "install-ca" and "proxy start": after an install that ran alone has
\* reported success, whatever installs were cut or crossed before, the authority that a
\* proxy signs with when it is started is the one the system trusts, however many
\* installs are run one after another and cut from then on, until the home is archived.
StartedIsTrusted ==
  certified # Nothing /\ certified = home => Started = trusted
=============================================================================
