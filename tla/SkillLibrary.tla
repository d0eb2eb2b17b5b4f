---------------------------- MODULE SkillLibrary ----------------------------
(***************************************************************************)
(* The library of one skill and its copy in one workspace: `nexaas         *)
(* library` (cli/src/library.ts), `nexaas propagate`                       *)
(* (cli/src/propagate.ts) and the pins of runtime/src/skill-versions.ts.   *)
(* Every command looks first and writes afterwards, with no transaction    *)
(* around the two.                                                         *)
(*                                                                         *)
(* The content of a skill is a function from its files to variants, 0 for  *)
(* a file that is not there; the hash of a content is the content itself.  *)
(***************************************************************************)
EXTENDS Integers, Sequences, FiniteSets

CONSTANTS
  SkillFiles,      \* skill.yaml, prompt.md and task.ts
  Yaml,            \* the file that holds the version
  Variants,        \* 1..n: different texts of a file
  VersionOf,       \* VersionOf[v]: the version in variant v of skill.yaml
  Clients,         \* operators at their shells
  MaxCommandsRun   \* bound on commands, edits and rejections

ASSUME SkillLibraryAssumption ==
  /\ Yaml \in SkillFiles /\ Variants \subseteq Nat \ {0} /\ DOMAIN VersionOf = Variants
  /\ 0 \notin {VersionOf[v] : v \in Variants} /\ MaxCommandsRun \in Nat

VARIABLES
  shelf,      \* library/skills: the registered contents, newest last
  canonical,  \* library/canonical
  proposals,  \* skill_proposals: [version, content, status]
  pin,        \* the pinned version, or 0
  disk,       \* the skill's directory in the workspace
  client,     \* client[c]: [at, content, todo]
  commandsRun,
  crossed,    \* history: a command or an edit began while another ran
  landed      \* history: the content just installed

libraryVars == <<shelf, canonical, proposals, pin, disk, client, commandsRun, crossed, landed>>

Contents == [SkillFiles -> Variants \union {0}]
Nothing == [f \in SkillFiles |-> 0]
Elements(s) == {s[i] : i \in DOMAIN s}
Newest(s) == s[Len(s)]
Version(content) == VersionOf[content[Yaml]]

AtShell == [at |-> "shell", content |-> Nothing, todo |-> {}]

LibraryInit ==
  /\ shelf = <<>> /\ canonical = <<>> /\ proposals = <<>> /\ pin = 0
  /\ disk = Nothing /\ client = [c \in Clients |-> AtShell]
  /\ commandsRun = 0 /\ crossed = FALSE /\ landed = Nothing

\* A command of client c begins, or an edit; only its writes are steps of their own.
Begin(c, at, content, todo) ==
  /\ client[c].at = "shell" /\ commandsRun < MaxCommandsRun /\ commandsRun' = commandsRun + 1
  /\ crossed' = (crossed \/ \E d \in Clients : client[d].at # "shell")
  /\ landed' = Nothing
  /\ client' = [client EXCEPT ![c] = [at |-> at, content |-> content, todo |-> todo]]

End(c, at) == client[c].at = at /\ client' = [client EXCEPT ![c] = AtShell]
    /\ UNCHANGED <<commandsRun, crossed>>

\* Somebody writes the skill's files by hand.
Edit == \E c \in Clients, content \in Contents :
  /\ content[Yaml] # 0 /\ content # disk /\ disk' = content
  /\ Begin(c, "shell", Nothing, {}) /\ UNCHANGED <<shelf, canonical, proposals, pin>>

\* Files of this hash were contributed before, whatever was contributed since.
Known(content) == content \in Elements(shelf)

Contribute(c) ==
  /\ disk[Yaml] # 0 /\ ~Known(disk) /\ Begin(c, "contribute", disk, {})
  /\ UNCHANGED <<shelf, canonical, proposals, pin, disk>>

Register(c) ==
  /\ End(c, "contribute") /\ shelf' = Append(shelf, client[c].content)
  /\ UNCHANGED <<canonical, proposals, pin, disk, landed>>

\* The newest row, file by file; files it does not have are left where they are.
StartInstall(c) ==
  /\ shelf # <<>>
  /\ Begin(c, "install", Newest(shelf), {f \in SkillFiles : Newest(shelf)[f] # 0})
  /\ UNCHANGED <<shelf, canonical, proposals, pin, disk>>

WriteFile(c) == \E f \in client[c].todo :
  /\ client[c].at = "install" /\ disk' = [disk EXCEPT ![f] = client[c].content[f]]
  /\ client' = [client EXCEPT ![c].todo = @ \ {f}]
  /\ UNCHANGED <<shelf, canonical, proposals, pin, commandsRun, crossed, landed>>

EndInstall(c) ==
  /\ client[c].todo = {} /\ End(c, "install")
  /\ landed' = IF crossed THEN Nothing ELSE client[c].content
  /\ UNCHANGED <<shelf, canonical, proposals, pin, disk>>

\* The newest row becomes the baseline for all, unless its hash already is.
Promote(c) ==
  /\ shelf # <<>> /\ Newest(shelf) \notin Elements(canonical)
  /\ Begin(c, "promote", Newest(shelf), {})
  /\ UNCHANGED <<shelf, canonical, proposals, pin, disk>>

RegisterCanonical(c) ==
  /\ End(c, "promote") /\ canonical' = Append(canonical, client[c].content)
  /\ UNCHANGED <<shelf, proposals, pin, disk, landed>>

\* The newest version is proposed to a workspace that has another one and no proposal yet.
Push(c) ==
  /\ shelf # <<>> /\ disk[Yaml] # 0 /\ Version(disk) # Version(Newest(shelf))
  /\ \A p \in Elements(proposals) : p.status = "pending" => p.version # Version(Newest(shelf))
  /\ Begin(c, "push", Newest(shelf), {})
  /\ UNCHANGED <<shelf, canonical, proposals, pin, disk>>

Propose(c) ==
  /\ End(c, "push")
  /\ proposals' = Append(proposals,
       [version |-> Version(client[c].content), content |-> client[c].content, status |-> "pending"])
  /\ UNCHANGED <<shelf, canonical, pin, disk, landed>>

\* The content is JSONB, which the driver has already parsed: parsing it again throws,
\* before anything is written.
Accept(c) ==
  /\ \E p \in Elements(proposals) : p.status = "pending"
  /\ Begin(c, "accept", Nothing, {}) /\ UNCHANGED <<shelf, canonical, proposals, pin, disk>>

AcceptThrows(c) == End(c, "accept") /\ UNCHANGED <<shelf, canonical, proposals, pin, disk, landed>>

Reject(c) == \E i \in DOMAIN proposals :
  /\ proposals[i].status = "pending"
  /\ proposals' = [proposals EXCEPT ![i].status = "rejected"]
  /\ Begin(c, "shell", Nothing, {}) /\ UNCHANGED <<shelf, canonical, pin, disk>>

Pin(c) == \E version \in {VersionOf[v] : v \in Variants} \union {0} :
  /\ pin # version /\ pin' = version
  /\ Begin(c, "shell", Nothing, {}) /\ UNCHANGED <<shelf, canonical, proposals, disk>>

\* The process is killed, or one of its statements fails.
CommandFails(c) ==
  /\ \E at \in {"contribute", "install", "promote", "push"} : End(c, at)
  /\ UNCHANGED <<shelf, canonical, proposals, pin, disk, landed>>

\* getSkillVersion: of several rows of a pinned version the newest.
Resolved ==
  LET rows == {i \in DOMAIN shelf : pin = 0 \/ Version(shelf[i]) = pin}
  IN  IF rows = {} THEN Nothing ELSE shelf[CHOOSE i \in rows : \A j \in rows : j <= i]

ClientStep(c) ==
  \/ Contribute(c) \/ Register(c) \/ StartInstall(c) \/ WriteFile(c) \/ EndInstall(c)
  \/ Promote(c) \/ RegisterCanonical(c) \/ Push(c) \/ Propose(c) \/ Accept(c) \/ AcceptThrows(c)
  \/ Reject(c) \/ Pin(c) \/ CommandFails(c)

LibraryNext == Edit \/ \E c \in Clients : ClientStep(c)

Distinct(s) == \A i, j \in DOMAIN s : s[i] = s[j] => i = j

(* Commands that do not overlap leave no content twice in the library or   *)
(* in the canonical hall and no two open proposals of one version,         *)
(* whatever was edited, killed and repeated between them; what is          *)
(* canonical or proposed was contributed; a pin never yields another       *)
(* version; and an installed skill is what the library had as its newest.  *)
LibraryIsOrderly ==
  /\ ~crossed =>
       /\ Distinct(shelf) /\ Distinct(canonical)
       /\ \A i, j \in DOMAIN proposals :
            /\ proposals[i].status = "pending" /\ proposals[j].status = "pending"
            /\ proposals[i].version = proposals[j].version
            => i = j
  /\ Elements(canonical) \union {p.content : p \in Elements(proposals)} \subseteq Elements(shelf)
  /\ Resolved # Nothing /\ pin # 0 => Version(Resolved) = pin
  /\ \A f \in SkillFiles : landed[f] \in {0, disk[f]}
=============================================================================
