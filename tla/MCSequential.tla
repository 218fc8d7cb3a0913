----------------------------- MODULE MCSequential -----------------------------
(***************************************************************************)
(* The parts of the agent that run alone, checked in one run: each         *)
(* behaviour is one of ScannerChoice, Capabilities, PageImage, PdfFile,     *)
(* Startup or LogFiles, while the variables of the others keep one value.  *)
(***************************************************************************)
EXTENDS ScannerChoice, Capabilities, PageImage, PdfFile, Startup, LogFiles

VARIABLE part

(* One initial state of each part, for the behaviours of the others.       *)
ChoiceOff == installed = [b \in Backends |-> <<>>] /\ ChoiceInit
CapOff == unwilling = {} /\ backend = "native"
          /\ options = [resolution |-> 300, color |-> "color", adf |-> FALSE, duplex |-> FALSE]
          /\ CapInit
PageOff == image = [width |-> 0, height |-> 0, depth |-> 8, stride |-> 0] /\ PageInit
StartOff == build = "debug" /\ configFile = [state |-> "missing", says |-> Defaults]
            /\ env = [port |-> NoPort, origins |-> {}, token |-> NoToken]
            /\ StartInit

Init ==
  \/ part = "choice" /\ ChoiceInit /\ CapOff /\ PageOff /\ PdfInit /\ StartOff /\ LogsInit
  \/ part = "settings" /\ ChoiceOff /\ CapInit /\ PageOff /\ PdfInit /\ StartOff /\ LogsInit
  \/ part = "page" /\ ChoiceOff /\ CapOff /\ PageInit /\ PdfInit /\ StartOff /\ LogsInit
  \/ part = "pdf" /\ ChoiceOff /\ CapOff /\ PageOff /\ PdfInit /\ StartOff /\ LogsInit
  \/ part = "startup" /\ ChoiceOff /\ CapOff /\ PageOff /\ PdfInit /\ StartInit /\ LogsInit
  \/ part = "logs" /\ ChoiceOff /\ CapOff /\ PageOff /\ PdfInit /\ StartOff /\ LogsInit

Next ==
  /\ UNCHANGED part
  /\ \/ part = "choice" /\ ChoiceNext
        /\ UNCHANGED <<capVars, pageVars, pdfVars, startVars, logVars>>
     \/ part = "settings" /\ CapNext
        /\ UNCHANGED <<choiceVars, pageVars, pdfVars, startVars, logVars>>
     \/ part = "page" /\ PageNext
        /\ UNCHANGED <<choiceVars, capVars, pdfVars, startVars, logVars>>
     \/ part = "pdf" /\ PdfNext
        /\ UNCHANGED <<choiceVars, capVars, pageVars, startVars, logVars>>
     \/ part = "startup" /\ StartNext
        /\ UNCHANGED <<choiceVars, capVars, pageVars, pdfVars, logVars>>
     \/ part = "logs" /\ LogsNext
        /\ UNCHANGED <<choiceVars, capVars, pageVars, pdfVars, startVars>>

Spec == Init /\ [][Next]_<<part, choiceVars, capVars, pageVars, pdfVars, startVars, logVars>>

MCNumbers == <<"1", "2">>
MCSites == {"app", "shop"}
MCExtras == { {}, {"app"}, {"shop", Local}, {"app", NotUrl}, {OtherScheme} }
MCTokens == { <<"x">>, <<"%", "2", "5">>, <<"=", "&">>, <<"%", "2">> }
=============================================================================
