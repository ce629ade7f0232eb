------------------------------ MODULE Startup -------------------------------
(* A start of the daemon (src/src/daemon/main.cpp, server.cpp): main reads      *)
(* theme.ini, perhaps generates keys, writes the client's server.ini and saves  *)
(* theme.ini, and then runs until a signal or a crash ends it; and so on from   *)
(* what is on the disk.  Both files are truncated and then written a line at a  *)
(* time, and no error of the streams is looked at.  X_bug is a mutant of X.      *)
EXTENDS Config, Listener

CONSTANTS
    Files,      \* what theme.ini may hold before the first start
    Layouts,    \* the orders write() may walk m_config in
    Pairs,      \* bound: the key pairs generate_keys yields, in turn
    Shared(_, _)    \* the X of a pair for a base

\* The private and the public number are of one pair, if both are there, and X is that
\* of the private number for some base.
Paired(values) ==
    /\ values.gate.crypt_k = "" \/ values.gate.crypt_n = "" \/ values.gate.crypt_k = values.gate.crypt_n
    /\ \/ values.gate.crypt_k = "" \/ values.gate.crypt_x = ""
       \/ \E v \in DOMAIN Number : values.gate.crypt_x = Shared(values.gate.crypt_k, Number[v])

\* The numbers and the host are among those that Number and Resolves are about.
Usable(values) ==
    /\ {values.lobby.port, values.gate.crypt_g} \subseteq DOMAIN Number
    /\ values.lobby.bindaddr \in DOMAIN Resolves

\* What theme.ini holds at first has no halves of two pairs, and no pair that is yet to be
\* generated.
ASSUME FilesAssumption ==
    /\ Usable(Defaults)
    /\ \A f \in Files :
           /\ f \in Seq(Lines) /\ Usable(read(Defaults, f)) /\ Paired(read(Defaults, f))
           /\ \A i \in DOMAIN Pairs : Pairs[i] # read(Defaults, f).gate.crypt_n

\* write() goes through every item of every section, after the section's header.
ASSUME LayoutsAssumption == \A layout \in Layouts :
    /\ layout \in Seq(Places)
    /\ \A i \in DOMAIN layout : layout[i].key # "" =>
           /\ layout[i].key \in Keys(layout[i].section)
           /\ i > 1 /\ layout[i - 1].section = layout[i].section
    /\ \A s \in Sections : \A k \in Keys(s) :
           \E i \in DOMAIN layout : layout[i] = [section |-> s, key |-> k]

\* Keys are written in base 64; no pair is generated twice.
ASSUME PairsAssumption ==
    /\ Pairs \in Seq(Text)
    /\ \A i, j \in DOMAIN Pairs : Pairs[i] = Pairs[j] => i = j
    /\ \A i \in DOMAIN Pairs :
           /\ Pairs[i] # "" /\ Pairs[i] \notin Bracketed
           /\ \A v \in DOMAIN Number : Shared(Pairs[i], Number[v]) \in Text \ Bracketed

VARIABLES
    at,         \* "down", "keys", "ini", "inilines", "save", "savelines", "fds", "bind", "listen",
                \* "servers", "running"
    flags,      \* --generate_keys, --generate_client_ini, --save_config
    config,     \* m_config
    todo,       \* lines of the file being written that have not been flushed
    disk, ini,  \* the lines of theme.ini and of the client's server.ini
    gate,       \* the gatekeeper's m_cryptK and m_cryptN, and load_keys' result
    made,       \* number of key pairs generated
    meant,      \* history: the configuration the last save set out to write
    kept,       \* history: meant, if that save was completed, or else <<>>
    failed,     \* history: this start could not read theme.ini, or not save it
    published,  \* history: this start wrote the whole of the client's server.ini
    whole       \* history: if theme.ini and m_config hold the base of their X

fileVars == <<todo, disk, ini>>
historyVars == <<made, meant, kept, failed, published, whole>>
vars == <<at, flags, config, fileVars, gate, historyVars, listenVars>>

NoFlags == [generate |-> FALSE, ini |-> FALSE, save |-> FALSE]
Down == [k |-> "", n |-> "", result |-> FALSE]

TypeOK ==
    /\ at \in {"down", "keys", "ini", "inilines", "save", "savelines", "fds", "bind", "listen",
              "servers", "running"}
    /\ flags \in [generate : BOOLEAN, ini : BOOLEAN, save : BOOLEAN]
    /\ DOMAIN config = Sections /\ \A s \in Sections : DOMAIN config[s] = Keys(s)
    /\ {config.lobby.port, config.gate.crypt_g} \subseteq DOMAIN Number
    /\ \A i \in DOMAIN todo : todo[i].kind \in {"section", "item"}
    /\ disk \in Seq(Lines)
    /\ \A i \in DOMAIN ini : ini[i].kind = "item"
    /\ gate \in [k : Text, n : Text, result : BOOLEAN] /\ (at = "running" => gate.k # "")
    /\ made \in 0..Len(Pairs) /\ failed \in BOOLEAN /\ published \in BOOLEAN
    /\ whole \in [disk : BOOLEAN, config : BOOLEAN]
    /\ ListenerTypeOK /\ (at = "running" => listenSock.listening)

Based(values) == values.gate.crypt_x = Shared(values.gate.crypt_k, get_uint(values, "gate", "crypt_g"))

Init ==
    /\ at = "down" /\ flags = NoFlags
    /\ config = Defaults /\ todo = <<>> /\ disk \in Files /\ ini = <<>>
    /\ gate = Down /\ made = 0 /\ published = FALSE
    /\ meant = read(Defaults, disk) /\ kept = <<>> /\ failed = FALSE
    /\ whole = [disk |-> Based(read(Defaults, disk)), config |-> FALSE]
    /\ ListenerInit

-----------------------------------------------------------------------------
(* main *)

\* theme.ini is saved before there are keys.
After_bug(step) == [read |-> "save", save |-> "keys", keys |-> "ini", ini |-> "fds"][step]

\* The steps of main, and the order they come in.
After(step) == [read |-> "keys", keys |-> "ini", ini |-> "save", save |-> "fds"][step]

\* server::server
Start ==
    /\ at = "down"
    /\ flags' \in [generate : BOOLEAN, ini : BOOLEAN, save : BOOLEAN]
    /\ \/ /\ config' = read(Defaults, disk) /\ failed' = FALSE
          /\ whole' = [whole EXCEPT !.config = whole.disk]
       \/ config' = Defaults /\ failed' = TRUE /\ UNCHANGED whole     \* it cannot be opened
    /\ gate' = Down /\ published' = FALSE /\ at' = After("read")
    /\ UNCHANGED <<fileVars, made, meant, kept, listenVars>>

Generates == flags.generate

\* What the flags leave out.
Skip ==
    /\ \/ at = "keys" /\ ~Generates
       \/ at = "ini" /\ ~flags.ini
       \/ at = "save" /\ ~flags.save
    /\ at' = After(at)
    /\ UNCHANGED <<flags, config, fileVars, gate, historyVars, listenVars>>

\* The end of the process: the disk keeps what was flushed.
Ends ==
    /\ at' = "down" /\ flags' = NoFlags /\ config' = Defaults
    /\ todo' = <<>> /\ gate' = Down /\ Closed
    /\ failed' = FALSE /\ published' = FALSE /\ whole' = [whole EXCEPT !.config = FALSE]
    /\ UNCHANGED <<disk, ini, made, meant, kept>>

\* A signal, a crash or the machine's end.
Crash == at # "down" /\ Ends

-----------------------------------------------------------------------------
(* server::generate_daemon_keys *)

SetKeys(values, pair) ==
    LET k == set_string(values, "gate", "crypt_k", pair)
        n == set_string(k, "gate", "crypt_n", pair)
    IN set_string(n, "gate", "crypt_x", Shared(pair, get_uint(values, "gate", "crypt_g")))

generate_daemon_keys ==
    /\ at = "keys" /\ Generates /\ made < Len(Pairs)
    /\ made' = made + 1
    /\ config' = SetKeys(config, Pairs[made + 1])
    /\ at' = After("keys")
    /\ whole' = [whole EXCEPT !.config = TRUE]
    /\ UNCHANGED <<flags, fileVars, gate, meant, kept, failed, published, listenVars>>

-----------------------------------------------------------------------------
(* server::generate_client_ini *)

Published_bug(values) == read(Defaults, disk).gate      \* before the new keys are set
Published(values) == values.gate

IniLines ==
    LET bindaddr == get_string(config, "lobby", "bindaddr")
        extaddr == get_string(config, "lobby", "extaddr")
    IN <<Item("G", get_uint(config, "gate", "crypt_g")),
         Item("N", Published(config).crypt_n), Item("X", Published(config).crypt_x),
         Item("Host", IF extaddr = "" THEN bindaddr ELSE extaddr),
         Item("Port", get_uint(config, "lobby", "port"))>>

generate_client_ini ==
    /\ at = "ini" /\ flags.ini
    /\ ini' = <<>> /\ todo' = IniLines /\ at' = "inilines"
    /\ UNCHANGED <<flags, config, disk, gate, historyVars, listenVars>>

IniLine ==
    /\ at = "inilines"
    /\ ini' = Append(ini, Head(todo)) /\ todo' = Tail(todo)
    /\ at' = IF todo' = <<>> THEN After("ini") ELSE at
    /\ published' = (todo' = <<>>)
    /\ UNCHANGED <<flags, config, disk, gate, made, meant, kept, failed, whole, listenVars>>

\* The file cannot be opened, or a line not written: nothing after it is either.
IniFails ==
    /\ (at = "ini" /\ flags.ini) \/ at = "inilines"
    /\ todo' = <<>> /\ at' = After("ini")
    /\ UNCHANGED <<flags, config, disk, ini, gate, historyVars, listenVars>>

-----------------------------------------------------------------------------
(* config_parser::write *)

Truncated_bug(file) == file                             \* opened to append
Truncated(file) == <<>>

SaveOpens ==
    /\ at = "save" /\ flags.save
    /\ \E layout \in Layouts : todo' = write(layout, config)
    /\ disk' = Truncated(disk) /\ meant' = config /\ kept' = <<>> /\ at' = "savelines"
    /\ whole' = [whole EXCEPT !.disk = FALSE]
    /\ UNCHANGED <<flags, config, ini, gate, made, failed, published, listenVars>>

SaveLine ==
    /\ at = "savelines"
    /\ disk' = Append(disk, Head(todo)) /\ todo' = Tail(todo)
    /\ at' = IF todo' = <<>> THEN After("save") ELSE at
    /\ IF todo' = <<>>
       THEN kept' = config /\ failed' = FALSE /\ whole' = [whole EXCEPT !.disk = whole.config]
       ELSE UNCHANGED <<kept, failed, whole>>
    /\ UNCHANGED <<flags, config, ini, gate, made, meant, published, listenVars>>

SaveFails ==
    /\ (at = "save" /\ flags.save) \/ at = "savelines"
    /\ todo' = <<>> /\ failed' = TRUE /\ at' = After("save")
    /\ UNCHANGED <<flags, config, disk, ini, gate, made, meant, kept, published, whole, listenVars>>

-----------------------------------------------------------------------------
(* server::run *)

host == get_string(config, "lobby", "bindaddr")

\* bind() asks for the addresses,
init_fds ==
    /\ at = "fds" /\ getaddrinfo
    /\ at' = "bind"
    /\ UNCHANGED <<flags, config, fileVars, gate, historyVars>>

\* tries them,
Binds ==
    /\ at = "bind" /\ bind(host, get_uint(config, "lobby", "port"))
    /\ at' = "listen"
    /\ UNCHANGED <<flags, config, fileVars, gate, historyVars>>

\* and goes on to the next if one is in use or not of this machine.
BindFails ==
    /\ at = "bind" /\ TryNext(host)
    /\ UNCHANGED <<at, flags, config, fileVars, gate, historyVars>>

Listens ==
    /\ at = "listen" /\ listen
    /\ at' = "servers"
    /\ UNCHANGED <<flags, config, fileVars, gate, historyVars>>

\* No address known, none bound, or listen() failed: main returns 1.  A failed add_fd is
\* asserted and traps.
init_fdsFails ==
    /\ at = "fds" \/ (at = "bind" /\ it = 0) \/ at = "listen"
    /\ Ends

Lacking_bug(values) == get_string(values, "gate", "crypt_n") = ""    \* half a pair is taken for one

Lacking(values) ==
    "" \in {get_string(values, "gate", "crypt_k"), get_string(values, "gate", "crypt_n")}

\* gatekeeper_daemon: load_keys takes the configured pair,
LoadKeys ==
    /\ at = "servers" /\ at' = "running" /\ ~Lacking(config)
    /\ gate' = [k |-> config.gate.crypt_k, n |-> config.gate.crypt_n, result |-> TRUE]
    /\ UNCHANGED <<flags, config, fileVars, historyVars, listenVars>>

\* or generates one that no configuration will know.
FallbackKeys ==
    /\ at = "servers" /\ at' = "running" /\ Lacking(config) /\ made < Len(Pairs)
    /\ made' = made + 1
    /\ gate' = [k |-> Pairs[made + 1], n |-> Pairs[made + 1], result |-> FALSE]
    /\ UNCHANGED <<flags, config, fileVars, meant, kept, failed, published, whole, listenVars>>

Main == Start \/ Skip \/ generate_daemon_keys
Writing == generate_client_ini \/ IniLine \/ IniFails \/ SaveOpens \/ SaveLine \/ SaveFails
Running == init_fds \/ Binds \/ BindFails \/ Listens \/ init_fdsFails \/ LoadKeys \/ FallbackKeys

Next == Main \/ Writing \/ Running \/ Crash

Spec == Init /\ [][Next]_vars

-----------------------------------------------------------------------------

\* A completely saved theme.ini reads back as the configuration it was written from,
\* whatever the order of the map (config_parser::write and read).
SavedConfigReadsBack == kept # <<>> => read(Defaults, disk) = kept

\* The private and the public number are of one pair, though a crash may have cut the
\* save between them (generate_daemon_keys, config_parser::write, load_keys).
PairsStayTogether == at = "running" => gate.k = gate.n

\* The keys of a configuration.
KeysOf(values) == <<get_string(values, "gate", "crypt_k"), get_string(values, "gate", "crypt_n")>>

\* A start that generates no keys runs with those that the last save set out to write, cut
\* as it may be, and never with older ones; it warns and takes a pair of its own only if that
\* save was cut, had no pair, or theme.ini fails now.  And a restart finds the pair the daemon
\* runs with, unless it warned, its save failed, or it was not told to save what it generated
\* (server::server, config_parser::write, load_keys).
RestartKeepsKeys ==
    at = "running" =>
        /\ ~flags.generate =>
               IF gate.result THEN <<gate.k, gate.n>> = KeysOf(meant)
               ELSE kept = <<>> \/ "" \in {KeysOf(kept)[1], KeysOf(kept)[2]} \/ failed
        /\ gate.result /\ ~failed /\ (flags.generate => flags.save) =>
               KeysOf(read(Defaults, disk)) = <<gate.k, gate.n>>

\* Of a server.ini that a start wrote and the daemon it then runs: a daemon that warned of
\* lacking keys has another public number than the client is told, any other has that one.
\* X is then of that pair, or empty, even if an interrupted save has cut theme.ini; and it is
\* for the base that is told, unless such a save, or a hand, has left another.  The daemon
\* listens at an address of its host, which the client is told unless there is an external
\* one, and at the low 16 bits of the port he is told, 0 being any port
\* (generate_client_ini, socket::bind, load_keys).
IniMatchesDaemon ==
    at = "running" /\ published =>
        /\ gate.result <=> ini[2].value = gate.n
        /\ gate.result =>
               ini[3].value = "" \/ \E v \in DOMAIN Number : ini[3].value = Shared(gate.k, Number[v])
        /\ gate.result /\ whole.config => ini[3].value = Shared(gate.k, ini[1].value)
        /\ listenSock.addr \in {Resolves[host][i] : i \in DOMAIN Resolves[host]}
        /\ config.lobby.extaddr = "" => ini[4].value = host
        /\ uint16(ini[5].value) # 0 => listenSock.port = uint16(ini[5].value)
=============================================================================
