------------------------------ MODULE Settings ------------------------------
(***************************************************************************)
(* The settings that are saved in files while the server runs: the key     *)
(* bindings of the web interface and the rules of the credential proxy.    *)
(* The two state machines share no state; each has its own Init and Next.  *)
(***************************************************************************)
EXTENDS Integers, Sequences, FiniteSets

-----------------------------------------------------------------------------
(***************************************************************************)
(* The key bindings of the web interface, one file for all of its users:   *)
(* a save brings the bindings of some operating systems, in any spelling,  *)
(* and is merged into what the file has of the others.                     *)
(*                                                                         *)
(* The file is replaced by renaming a temporary one over it.  A file that  *)
(* is mounted alone cannot be renamed over and is written in place.  A     *)
(* binding is one combination of keys for one action; the empty one        *)
(* unassigns the action.                                                   *)
(***************************************************************************)

CONSTANTS Saves, Readers, Systems, Payloads, MaxFaults

VARIABLES
    keys,        \* keys.yaml: for each system its binding; torn when it was cut off
    mounted,     \* the file cannot be renamed over
    keysMu,      \* the save that has the lock
    save,        \* each save: its step, what it brings, what it merged
    shown,       \* what each reader was shown
    acked,       \* for each system the binding acknowledged last
    keyFaults
keyVars == <<keys, mounted, keysMu, save, shown, acked, keyFaults>>

Absent == <<"absent">>
Refused == <<"refused">>
Unassigned == <<>>
Free == "free"
NoFile == [s \in Systems |-> Absent]
File(b) == [bindings |-> b, torn |-> FALSE]
NoSave == [at |-> "idle", brings |-> <<>>, merged |-> NoFile]

-----------------------------------------------------------------------------
(* The spellings of a combination. *)

ModifierOf(p) == CASE p \in {"ctrl", "Ctrl"} -> "Ctrl"
                   [] p \in {"alt", "option", "Alt"} -> "Alt"
                   [] OTHER -> ""
BaseOf(p) == CASE p \in {"esc", "escape", "Escape"} -> "Escape"
               [] p \in {"a", "A"} -> "A"
               [] OTHER -> ""
Standard(p) == ModifierOf(p) \o BaseOf(p)
IsBase(p) == BaseOf(p) # ""

OneBase(parts) == Cardinality({i \in DOMAIN parts : IsBase(parts[i])}) = 1

\* The modifiers in the order they came, then the base.
Normalized(parts) ==
    IF parts = Unassigned THEN Unassigned
    ELSE IF (\E i \in DOMAIN parts : Standard(parts[i]) = "") \/ ~OneBase(parts) THEN Refused
    ELSE LET all == [i \in DOMAIN parts |-> Standard(parts[i])]
         IN SelectSeq(all, LAMBDA p : ~IsBase(p)) \o SelectSeq(all, IsBase)

-----------------------------------------------------------------------------
KeysInit ==
    /\ keys = File(NoFile) /\ mounted \in BOOLEAN /\ keysMu = Free
    /\ save = [s \in Saves |-> NoSave] /\ shown = [r \in Readers |-> File(NoFile)]
    /\ acked = NoFile /\ keyFaults = 0

At(s, step) == save[s].at = step
Ends(s) == save' = [save EXCEPT ![s] = NoSave]
Releases(s) == keysMu' = IF keysMu = s THEN Free ELSE keysMu

\* A request of which one binding is not valid saves nothing.
HandleSave(s) ==
    /\ At(s, "idle")
    /\ \E p \in Payloads :
          LET norm == [o \in DOMAIN p |-> IF p[o] = Absent THEN Absent ELSE Normalized(p[o])] IN
          /\ \A o \in DOMAIN norm : norm[o] # Refused
          /\ save' = [save EXCEPT ![s] = [NoSave EXCEPT !.at = "checked", !.brings = norm]]
    /\ UNCHANGED <<keys, mounted, keysMu, shown, acked, keyFaults>>

\* Mutant: the file is read before the lock is taken.
MayReadAny(s) == TRUE

MayRead(s) == keysMu = Free

\* A system that is sent without bindings is taken out.
Merge(s, file) == [o \in Systems |-> IF o \in DOMAIN save[s].brings THEN save[s].brings[o] ELSE file[o]]

\* A file that was cut off is refused, or reads as fewer bindings.
ReadExisting(s) ==
    /\ At(s, "checked") /\ MayRead(s)
    /\ keysMu' = s
    /\ save' = [save EXCEPT ![s].at = "merged", ![s].merged = Merge(s, keys.bindings)]
    /\ UNCHANGED <<keys, mounted, shown, acked, keyFaults>>

Corrupted(s) ==
    /\ At(s, "checked") /\ MayRead(s) /\ keys.torn /\ Ends(s)
    /\ UNCHANGED <<keys, mounted, keysMu, shown, acked, keyFaults>>

Acknowledged(s) == acked' = [o \in Systems |-> IF o \in DOMAIN save[s].brings THEN save[s].brings[o] ELSE acked[o]]

Renames(s) == ~mounted

Rename(s) ==
    /\ At(s, "merged") /\ Renames(s)
    /\ keys' = File(save[s].merged) /\ Acknowledged(s) /\ Ends(s) /\ Releases(s)
    /\ UNCHANGED <<mounted, shown, keyFaults>>

RenameFails(s) ==
    /\ At(s, "merged") /\ Renames(s) /\ keyFaults < MaxFaults
    /\ keyFaults' = keyFaults + 1 /\ Ends(s) /\ Releases(s)
    /\ UNCHANGED <<keys, mounted, shown, acked>>

\* The file is truncated first; also when the temporary file could not be written.
WriteDirect(s) ==
    /\ At(s, "merged")
    /\ \/ ~Renames(s) /\ UNCHANGED keyFaults
       \/ keyFaults < MaxFaults /\ keyFaults' = keyFaults + 1
    /\ keys' = [bindings |-> NoFile, torn |-> TRUE]
    /\ save' = [save EXCEPT ![s].at = "truncated"]
    /\ UNCHANGED <<mounted, keysMu, shown, acked>>

Written(s) ==
    /\ At(s, "truncated")
    /\ keys' = File(save[s].merged) /\ Acknowledged(s) /\ Ends(s) /\ Releases(s)
    /\ UNCHANGED <<mounted, shown, keyFaults>>

WriteFails(s) ==
    /\ At(s, "truncated") /\ keyFaults < MaxFaults
    /\ keyFaults' = keyFaults + 1 /\ Ends(s) /\ Releases(s)
    /\ UNCHANGED <<keys, mounted, shown, acked>>

\* Reading takes no lock.
HandleGet(r) ==
    /\ shown' = [shown EXCEPT ![r] = keys]
    /\ UNCHANGED <<keys, mounted, keysMu, save, acked, keyFaults>>

KeysNext ==
    \/ \E s \in Saves : HandleSave(s) \/ ReadExisting(s) \/ Corrupted(s) \/ Rename(s) \/ RenameFails(s)
                        \/ WriteDirect(s) \/ Written(s) \/ WriteFails(s)
    \/ \E r \in Readers : HandleGet(r)
KeysSpec == KeysInit /\ [][KeysNext]_keyVars

KeysTypeOK ==
    /\ keysMu \in Saves \cup {Free} /\ keyFaults \in 0..MaxFaults
    /\ \A s \in Saves : save[s].at \in {"idle", "checked", "merged", "truncated"}

-----------------------------------------------------------------------------
\* What was acknowledged for a system is in the file until that system is saved again, whoever saved
\* the others meanwhile.
AckedStay == (keyFaults = 0 /\ ~keys.torn) => keys.bindings = acked

\* Nobody is shown a file that is half written, unless it can only be written in place.
ShownWhole == (~mounted /\ keyFaults = 0) => \A r \in Readers : ~shown[r].torn

\* The file has one spelling of a combination: it ends with its one base key, and saving what is
\* shown changes nothing.
OneSpelling == \A o \in Systems :
    LET b == keys.bindings[o] IN
    b \in {Absent, Unassigned} \/ (Normalized(b) = b /\ IsBase(b[Len(b)]) /\ \A i \in 1..Len(b) - 1 : ~IsBase(b[i]))

-----------------------------------------------------------------------------
(***************************************************************************)
(* The rules of the credential proxy, saved and reloaded while it runs:    *)
(* an administrator's text goes to the file, then to the running proxy,    *)
(* then to the configuration the agents' environment is built from.  No    *)
(* lock is held over the three, and the proxy's own reload stores its      *)
(* parts one after the other.                                              *)
(*                                                                         *)
(* A text is a model value; some name no host, and are valid only while    *)
(* the proxy is disabled by them.                                          *)
(***************************************************************************)

CONSTANTS Admins, Texts, Hostless, First, MaxRequests

VARIABLES
    ruleFile,    \* the file: its text, or that it is cut off
    proxyMounted,\* the file cannot be renamed over
    rules,       \* the proxy's rules
    hostFilter,  \* the text whose hosts the proxy intercepts
    confProxy,   \* the configuration's
    admin,       \* each request: its step, its text
    requests,
    saved,       \* the texts that were accepted so far
    inPlace      \* the file was written in place at least once
ruleVars == <<ruleFile, proxyMounted, rules, hostFilter, confProxy, admin, requests, saved, inPlace>>

Torn == "torn"
NoText == "none"
NoRequest == [at |-> "idle", text |-> NoText, op |-> NoText]

\* A proxy is started with hosts only.
ProxyInit ==
    /\ ruleFile = First /\ rules = First /\ hostFilter = First /\ confProxy = First
    /\ proxyMounted \in BOOLEAN /\ admin = [a \in Admins |-> NoRequest] /\ requests = 0 /\ saved = {First} /\ inPlace = FALSE

Goes(a, to) == admin' = [admin EXCEPT ![a].at = to]
AdminEnds(a) == admin' = [admin EXCEPT ![a] = NoRequest]
May(a) == admin[a].at = "idle" /\ requests < MaxRequests /\ requests' = requests + 1

-----------------------------------------------------------------------------
\* A text that does not parse or validate is refused and nothing is written.
HandleSaveRules(a) ==
    /\ May(a)
    /\ \E t \in Texts : admin' = [admin EXCEPT ![a] = [at |-> "parsed", text |-> t, op |-> "save"]] /\ saved' = saved \cup {t}
    /\ UNCHANGED <<ruleFile, proxyMounted, rules, hostFilter, confProxy, inPlace>>

RulesRename == ~proxyMounted

RenameRules(a) ==
    /\ admin[a].at = "parsed" /\ RulesRename
    /\ ruleFile' = admin[a].text /\ Goes(a, "reload")
    /\ UNCHANGED <<proxyMounted, rules, hostFilter, confProxy, requests, saved, inPlace>>

\* A rename that fails otherwise ends the request.
RenameRulesFails(a) ==
    /\ admin[a].at = "parsed" /\ RulesRename /\ AdminEnds(a)
    /\ UNCHANGED <<ruleFile, proxyMounted, rules, hostFilter, confProxy, requests, saved, inPlace>>

\* The file cannot be renamed over, or the temporary one could not be made or written: it is
\* truncated first.
WriteRulesDirect(a) ==
    /\ admin[a].at = "parsed"
    /\ ruleFile' = Torn /\ inPlace' = TRUE /\ Goes(a, "truncated")
    /\ UNCHANGED <<proxyMounted, rules, hostFilter, confProxy, requests, saved>>

RulesWritten(a) ==
    /\ admin[a].at = "truncated"
    /\ ruleFile' = admin[a].text /\ Goes(a, "reload")
    /\ UNCHANGED <<proxyMounted, rules, hostFilter, confProxy, requests, saved, inPlace>>

WriteRulesFails(a) ==
    /\ admin[a].at = "truncated" /\ AdminEnds(a)
    /\ UNCHANGED <<ruleFile, proxyMounted, rules, hostFilter, confProxy, requests, saved, inPlace>>

\* A file cut off may parse, or be refused.
ReloadFromFile(a) ==
    /\ May(a)
    /\ admin' = [admin EXCEPT ![a] = [at |-> "reload", text |-> ruleFile, op |-> "reload"]]
    /\ UNCHANGED <<ruleFile, proxyMounted, rules, hostFilter, confProxy, saved, inPlace>>

ReloadRefused(a) ==
    /\ May(a) /\ ruleFile = Torn
    /\ UNCHANGED <<ruleFile, proxyMounted, rules, hostFilter, confProxy, admin, saved, inPlace>>

-----------------------------------------------------------------------------
(* The running proxy. *)

\* Rules without a host would let every request through unseen.
HasHosts(t) == t \notin Hostless

\* After a save the proxy's refusal is logged; a reload reports it.
Reload(a) ==
    /\ admin[a].at = "reload"
    /\ IF HasHosts(admin[a].text) THEN rules' = admin[a].text /\ Goes(a, "stored")
       ELSE /\ UNCHANGED rules
            /\ IF admin[a].op = "save" THEN Goes(a, "reloaded") ELSE AdminEnds(a)
    /\ UNCHANGED <<ruleFile, proxyMounted, hostFilter, confProxy, requests, saved, inPlace>>

SetHostFilters(a) ==
    /\ admin[a].at = "stored"
    /\ hostFilter' = admin[a].text /\ Goes(a, "reloaded")
    /\ UNCHANGED <<ruleFile, proxyMounted, rules, confProxy, requests, saved, inPlace>>

SetProxy(a) ==
    /\ admin[a].at = "reloaded"
    /\ confProxy' = admin[a].text /\ AdminEnds(a)
    /\ UNCHANGED <<ruleFile, proxyMounted, rules, hostFilter, requests, saved, inPlace>>

ProxyNext == \E a \in Admins :
    \/ HandleSaveRules(a) \/ RenameRules(a) \/ RenameRulesFails(a) \/ WriteRulesDirect(a) \/ RulesWritten(a) \/ WriteRulesFails(a)
    \/ ReloadFromFile(a) \/ ReloadRefused(a) \/ Reload(a) \/ SetHostFilters(a) \/ SetProxy(a)
ProxySpec == ProxyInit /\ [][ProxyNext]_ruleVars

ProxyTypeOK ==
    /\ {ruleFile, rules, hostFilter, confProxy} \subseteq Texts \cup {First, Torn} /\ requests \in 0..MaxRequests
    /\ \A a \in Admins : admin[a].at \in {"idle", "parsed", "truncated", "reload", "stored", "reloaded"}

-----------------------------------------------------------------------------
\* Whatever is saved and reloaded at once, the proxy that runs always has rules and intercepts the
\* hosts of a text: it never ends with none, which would let the agents' requests pass unchanged.
ProxyKeepsHosts == {rules, hostFilter} \cap Hostless = {}

\* What runs was saved as a whole: a reload never takes up a file half written, while
\* saves replace the file.  A save that has to write in place (a mounted file, a full disk) truncates
\* it first, and a reload at that moment may take up what it finds (writeConfigDirect).
RunsWhatWasSaved == ~inPlace => {rules, hostFilter, confProxy} \subseteq saved

Rest == \A a \in Admins : admin[a].at = "idle"

\* Once the requests are done, the rules and the hosts are of one reload.
RulesAtomic == Rest => rules = hostFilter

\* Of one administrator's requests the one that was answered last is in force.
SavedIsInForce == (Rest /\ ~inPlace) => rules = confProxy
=============================================================================
