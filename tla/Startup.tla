-------------------------------- MODULE Startup --------------------------------
(***************************************************************************)
(* From launch to the handshake of a client: the configuration file and    *)
(* its template, validation and the environment (src-tauri/src/config.rs   *)
(* and the set-up in main.rs), then validate_handshake (ws_server.rs).     *)
(* An origin is one of a few with the attributes the code looks at. A      *)
(* token is a sequence of characters, because its encoding matters.        *)
(***************************************************************************)
EXTENDS Naturals, Sequences

CONSTANTS
  Sites,   \* http or https origins that are not on this host
  Extras,  \* values explored for extra_origins and its variable
  Tokens   \* tokens explored, as sequences of characters

Local == "localhost"          \* http(s) on localhost, 127.0.0.1 or [::1]
NotUrl == "not a url"
OtherScheme == "other scheme" \* a URL that is neither http nor https
Missing == "no origin"
Origins == Sites \cup {Local, NotUrl, OtherScheme}

Blank == <<>>       \* a token that is empty or all spaces
NoToken == <<"-">>  \* stands for none, and is none of Tokens

ASSUME StartupAssumption ==
  /\ Missing \notin Sites
  /\ \A e \in Extras : e \subseteq Origins
  /\ Tokens \subseteq Seq(STRING) \ {Blank, NoToken}

DefaultPort == 47115
OtherPort == 9000
NoPort == 0         \* out of range, and in the environment also unset

Settings == [port : {NoPort, DefaultPort}, allowLocalhost : BOOLEAN, extra : Extras,
             token : Tokens \cup {Blank, NoToken}]
Defaults == [port |-> DefaultPort, allowLocalhost |-> TRUE, extra |-> {}, token |-> NoToken]

VARIABLES
  build,   \* "debug" or "release"
  configFile,  \* config.toml: its state, and what it says, defaults filled in
  env,     \* the three variables; NoPort, {} and NoToken for unset
  agent,   \* "launch", "load", "override", "start", "serving", "deaf" or "exited"
  config,  \* the settings in force
  policy   \* "AllowAll" or "Restricted"

startVars == <<build, configFile, env, agent, config, policy>>

StartInit ==
  /\ build \in {"debug", "release"}
  /\ configFile \in [state : {"missing", "unreadable", "malformed"}, says : {Defaults}]
              \cup [state : {"parsed"}, says : Settings]
  /\ env \in [port : {NoPort, OtherPort}, origins : Extras, token : Tokens \cup {Blank, NoToken}]
  /\ agent = "launch"
  /\ config = Defaults
  /\ policy = "Restricted"

(***************************************************************************)
(* The set-up.                                                             *)
(***************************************************************************)
LaunchDebug ==
  /\ agent = "launch" /\ build = "debug"
  /\ agent' = "start"
  /\ policy' = "AllowAll"
  /\ UNCHANGED <<build, configFile, env, config>>

(* write_template_if_missing: a template leaves every setting commented    *)
(* out. A failure to write it is only logged.                              *)
LaunchRelease ==
  /\ agent = "launch" /\ build = "release"
  /\ agent' = "load"
  /\ configFile' \in {configFile} \cup (IF configFile.state = "missing"
                            THEN {[state |-> "parsed", says |-> Defaults]} ELSE {})
  /\ UNCHANGED <<build, env, config, policy>>

Valid(s) ==
  /\ s.port # NoPort
  /\ s.extra \cap {NotUrl, OtherScheme} = {}
  /\ s.token # Blank

(* Mutant: what the environment overrides is not validated.                *)
LoadLenient ==
  /\ agent = "load"
  /\ \/ /\ configFile.state = "parsed"
        /\ Valid(configFile.says) \/ env.token # NoToken
        /\ config' = configFile.says
        /\ agent' = "override"
     \/ /\ configFile.state \in {"missing", "unreadable"}
        /\ config' = Defaults
        /\ agent' = "override"
     \/ /\ configFile.state = "malformed"
        /\ agent' = "exited"
        /\ UNCHANGED config
  /\ UNCHANGED <<build, configFile, env, policy>>

(* load_or_default, and what main makes of its errors: a file that cannot  *)
(* be read counts as none, one that cannot be parsed or is invalid ends    *)
(* the process with code 2.                                                *)
Load ==
  /\ agent = "load"
  /\ \/ /\ configFile.state = "parsed" /\ Valid(configFile.says)
        /\ config' = configFile.says
        /\ agent' = "override"
     \/ /\ configFile.state \in {"missing", "unreadable"}
        /\ config' = Defaults
        /\ agent' = "override"
     \/ /\ configFile.state = "malformed" \/ (configFile.state = "parsed" /\ ~Valid(configFile.says))
        /\ agent' = "exited"
        /\ UNCHANGED config
  /\ UNCHANGED <<build, configFile, env, policy>>

(* apply_env_overrides: what is unset, out of range or blank is ignored.   *)
Override ==
  /\ agent = "override"
  /\ config' =
       [port |-> IF env.port = NoPort THEN config.port ELSE env.port,
        allowLocalhost |-> config.allowLocalhost /\ env.origins = {},
        extra |-> IF env.origins = {} THEN config.extra ELSE env.origins,
        token |-> IF env.token \in {NoToken, Blank} THEN config.token ELSE env.token]
  /\ agent' = "start"
  /\ UNCHANGED <<build, configFile, env, policy>>

(* start_server: the port may be taken, and then nobody listens.           *)
StartServer ==
  /\ agent = "start"
  /\ agent' \in {"serving", "deaf"}
  /\ UNCHANGED <<build, configFile, env, config, policy>>

StartNext == LaunchDebug \/ LaunchRelease \/ Load \/ Override \/ StartServer

StartSpec == StartInit /\ [][StartNext]_startVars

(***************************************************************************)
(* The handshake.                                                          *)
(***************************************************************************)
OriginAccepted(origin) ==
  \/ policy = "AllowAll"
  \/ /\ origin \notin {Missing, NotUrl}
     /\ (config.allowLocalhost /\ origin = Local) \/ origin \in config.extra

(* parse_token_from_query: the value ends at the next "&".                 *)
Value(text) ==
  LET ends == {i \in 1..Len(text) : text[i] = "&"} IN
    IF ends = {} THEN text
    ELSE SubSeq(text, 1, (CHOOSE i \in ends : \A j \in ends : i <= j) - 1)

(* Those of the escapes that Encoded makes; a text with others is none it  *)
(* could make, and the properties ask only for those.                      *)
HexDigits == {"2", "5", "6"}

(* from_hex, as far as the escapes of Encoded go.                          *)
Decoded(hi, lo) == IF <<hi, lo>> = <<"2", "5">> THEN "%"
                   ELSE IF <<hi, lo>> = <<"2", "6">> THEN "&" ELSE "another"

(* Mutant: an escape at the very end is not looked at.                     *)
PercentDecodeShort(text) ==
  LET n == Len(text)
      from[i \in 1..(n + 3)] ==
        IF i > n THEN <<>>
        ELSE IF text[i] = "%" /\ i + 2 < n /\ {text[i + 1], text[i + 2]} \subseteq HexDigits
             THEN <<Decoded(text[i + 1], text[i + 2])>> \o from[i + 3]
             ELSE <<text[i]>> \o from[i + 1]
  IN from[1]

(* percent_decode: what is no escape is kept as it is.                     *)
PercentDecode(text) ==
  LET n == Len(text)
      from[i \in 1..(n + 3)] ==
        IF i > n THEN <<>>
        ELSE IF text[i] = "%" /\ i + 2 <= n /\ {text[i + 1], text[i + 2]} \subseteq HexDigits
             THEN <<Decoded(text[i + 1], text[i + 2])>> \o from[i + 3]
             ELSE <<text[i]>> \o from[i + 1]
  IN from[1]

(* The text after "token=", NoToken where the query has no such pair.      *)
TokenAccepted(text) ==
  config.token = NoToken \/ (text # NoToken /\ PercentDecode(Value(text)) = config.token)

Handshake(origin, text) ==
  IF ~OriginAccepted(origin) THEN 403 ELSE IF ~TokenAccepted(text) THEN 401 ELSE 101

(***************************************************************************)
(* Properties.                                                             *)
(***************************************************************************)

(* What a page does before it connects: "%" and "&" become escapes.        *)
Encoded(token) ==
  LET to[i \in 0..Len(token)] ==
        IF i = 0 THEN <<>>
        ELSE to[i - 1] \o (IF token[i] = "%" THEN <<"%", "2", "5">>
                           ELSE IF token[i] = "&" THEN <<"%", "2", "6">> ELSE <<token[i]>>)
  IN to[Len(token)]

(* A release build serves only what file and environment ask for (the      *)
(* table of docs/configuration.md): the environment's origins replace the  *)
(* whole policy, an unset or blank variable changes nothing, and a file    *)
(* with an invalid setting stops the agent even where the environment      *)
(* would have overridden it. A file that cannot be read counts as none.    *)
AsConfigured ==
  (agent = "serving" /\ build = "release") =>
    LET says == IF configFile.state = "parsed" THEN configFile.says ELSE Defaults
        origins == IF env.origins # {} THEN env.origins
                   ELSE says.extra \cup {o \in {Local} : says.allowLocalhost}
        token == IF env.token \in Tokens THEN env.token ELSE says.token
    IN /\ configFile.state # "malformed" /\ Valid(says)
       /\ config.port \in {DefaultPort, OtherPort}
       /\ config.port = OtherPort <=> env.port = OtherPort
       /\ \A o \in Origins \cup {Missing} : Handshake(o, NoToken) # 403 <=> o \in origins \ {NotUrl}
       /\ config.token = token

(* A page that percent-encodes a token is let in exactly when it is the    *)
(* one configured, and a token without "%" and "&" needs no encoding       *)
(* (docs/integration.md, "Optional shared token").                         *)
TokenRoundTrip ==
  (agent = "serving" /\ config.token # NoToken) =>
    \A t \in Tokens :
      /\ TokenAccepted(Encoded(t)) <=> t = config.token
      /\ (t = config.token /\ \A i \in 1..Len(t) : t[i] \notin {"%", "&"}) => TokenAccepted(t)
=============================================================================
