------------------------------ MODULE Capabilities ------------------------------
(***************************************************************************)
(* What a source is told before it is enabled: SourceOpened::configure     *)
(* (scanner/twain.rs) and the sidecar's copy, one MSG_SET after the other, *)
(* each in a TW_ONEVALUE of 32 bits.  The driver is external: it may       *)
(* refuse a setting, which the code only logs, and it may go back to       *)
(* defaults of its own where one setting depends on another.               *)
(***************************************************************************)
EXTENDS Integers, Sequences, FiniteSets

CONSTANTS
  Resolutions,  \* resolutions explored: protocol.rs takes any u32
  MaxUnwilling  \* bound: settings one driver refuses

ASSUME CapabilityAssumption == Resolutions \subseteq Nat /\ MaxUnwilling \in Nat

ColorModes == {"color", "grayscale", "bw"}
Caps == {"PIXELTYPE", "XRESOLUTION", "YRESOLUTION", "XFERMECH", "COMPRESSION", "PIXELFLAVOR",
         "BITORDER", "FEEDERENABLED", "AUTOFEED", "XFERCOUNT", "DUPLEXENABLED"}

VARIABLES
  options,    \* the ScanOptions of the request
  backend,    \* "native" or "sidecar"
  unwilling,  \* the settings that the driver refuses
  told,       \* how many settings it has been sent
  inForce     \* what is in force with it, Default where it chose

capVars == <<options, backend, unwilling, told, inForce>>

Default == <<>>  \* whatever the driver likes

CapInit ==
  /\ options \in [resolution : Resolutions, color : ColorModes, adf : BOOLEAN, duplex : BOOLEAN]
  /\ backend \in {"native", "sidecar"}
  /\ unwilling \in {u \in SUBSET Caps : Cardinality(u) <= MaxUnwilling}
  /\ told = 0
  /\ inForce = [c \in Caps |-> Default]

(***************************************************************************)
(* The containers: the item of a TW_ONEVALUE, 32 bits, as its lower and    *)
(* its upper half.                                                         *)
(***************************************************************************)
U16(value) == <<value % 2^16, 0>>
I16(value) == <<(value + 2^16) % 2^16, 0>>  \* `value as u16 as TW_UINT32`
Flag(value) == U16(IF value THEN 1 ELSE 0)

(* TW_FIX32::from_f32 of a whole number: both casts saturate. Its lower    *)
(* half is Whole.                                                          *)
Fix32(value) == IF value < 2^15 THEN <<value, 0>> ELSE <<2^15 - 1, 2^16 - 1>>

(***************************************************************************)
(* The settings, in order, as <<capability, item>>.                        *)
(***************************************************************************)
(* ColorMode::to_twain_pixel_type: TWPT_BW, TWPT_GRAY and TWPT_RGB.        *)
PixelType(color) == CASE color = "bw" -> 0 [] color = "grayscale" -> 1 [] color = "color" -> 2

(* The sidecar is told the mode by name, and takes any other for color.    *)
PixelTypeNamed(name) == IF name = "grayscale" THEN 1 ELSE IF name = "bw" THEN 0 ELSE 2

Feeder(adf) ==
  IF adf THEN << <<"FEEDERENABLED", Flag(TRUE)>>, <<"AUTOFEED", Flag(TRUE)>>, <<"XFERCOUNT", I16(-1)>> >>
  ELSE << <<"XFERCOUNT", I16(1)>> >>

Duplex(duplex) == IF duplex THEN << <<"DUPLEXENABLED", Flag(TRUE)>> >> ELSE <<>>

(* Mutant: the pixel type is set after what a driver makes depend on it.   *)
ConfigurePixelTypeLast(o) ==
  << <<"XRESOLUTION", Fix32(o.resolution)>>, <<"YRESOLUTION", Fix32(o.resolution)>>,
     <<"XFERMECH", U16(2)>>, <<"COMPRESSION", U16(0)>>, <<"PIXELFLAVOR", U16(0)>>,
     <<"BITORDER", U16(1)>>, <<"PIXELTYPE", U16(PixelType(o.color))>> >>
  \o Feeder(o.adf) \o Duplex(o.duplex)

(* SourceOpened::configure. TWSX_MEMORY is 2, TWCP_NONE and TWPF_CHOCOLATE *)
(* are 0, TWBO_MSBFIRST is 1.                                              *)
Configure(o) ==
  << <<"PIXELTYPE", U16(PixelType(o.color))>>,
     <<"XRESOLUTION", Fix32(o.resolution)>>, <<"YRESOLUTION", Fix32(o.resolution)>>,
     <<"XFERMECH", U16(2)>>, <<"COMPRESSION", U16(0)>>, <<"PIXELFLAVOR", U16(0)>>,
     <<"BITORDER", U16(1)>> >>
  \o Feeder(o.adf) \o Duplex(o.duplex)

(* The block of the sidecar's handle_scan.                                 *)
ConfigureSidecar(o) ==
  << <<"PIXELTYPE", U16(PixelTypeNamed(o.color))>>,
     <<"XRESOLUTION", Fix32(o.resolution)>>, <<"YRESOLUTION", Fix32(o.resolution)>>,
     <<"XFERMECH", U16(2)>>, <<"COMPRESSION", U16(0)>>, <<"PIXELFLAVOR", U16(0)>>,
     <<"BITORDER", U16(1)>> >>
  \o Feeder(o.adf) \o Duplex(o.duplex)

SettingsSent == IF backend = "native" THEN Configure(options) ELSE ConfigureSidecar(options)

(***************************************************************************)
(* The driver.                                                             *)
(***************************************************************************)
(* TWAIN: what a new value of a capability lets a driver reconsider.       *)
Dependent(c) == IF c = "PIXELTYPE" THEN {"COMPRESSION", "PIXELFLAVOR", "BITORDER"}
                ELSE IF c = "XFERMECH" THEN {"COMPRESSION"} ELSE {}

(* TWAIN: the feeder must be enabled before it can feed by itself.         *)
Takes(c) == c \notin unwilling /\ (c = "AUTOFEED" => inForce["FEEDERENABLED"] = Flag(TRUE))

(* One of the set_capability calls: a refusal is logged and forgotten.     *)
SetCapability ==
  /\ told < Len(SettingsSent)
  /\ told' = told + 1
  /\ LET c == SettingsSent[told + 1][1]  item == SettingsSent[told + 1][2] IN
       inForce' = IF Takes(c)
                  THEN [d \in Caps |-> IF d = c THEN item
                                       ELSE IF d \in Dependent(c) THEN Default ELSE inForce[d]]
                  ELSE inForce
  /\ UNCHANGED <<options, backend, unwilling>>

CapNext == SetCapability

CapSpec == CapInit /\ [][CapNext]_capVars

(***************************************************************************)
(* Properties.                                                             *)
(***************************************************************************)

(* What each setting has to be for this request: what transfer_memory and  *)
(* raw::normalize decode against, and what the client asked for.           *)
Wanted ==
  LET always == [PIXELTYPE |-> {<<CASE options.color = "color" -> 2
                                    [] options.color = "grayscale" -> 1
                                    [] options.color = "bw" -> 0, 0>>},
                 XFERMECH |-> {<<2, 0>>}, COMPRESSION |-> {<<0, 0>>},
                 PIXELFLAVOR |-> {<<0, 0>>}, BITORDER |-> {<<1, 0>>}]
  IN [c \in Caps |->
        IF c \in DOMAIN always THEN always[c]
        ELSE IF c \in {"XRESOLUTION", "YRESOLUTION"} THEN
          IF options.resolution < 2^15 THEN {<<options.resolution, 0>>} ELSE (1..(2^15 - 1)) \X (0..(2^16 - 1))
        ELSE IF c = "XFERCOUNT" THEN {IF options.adf THEN <<2^16 - 1, 0>> ELSE <<1, 0>>}
        ELSE IF (c = "DUPLEXENABLED" /\ options.duplex) \/ (c # "DUPLEXENABLED" /\ options.adf)
             THEN {<<1, 0>>} ELSE {Default}]

(* When the source is enabled, each setting is the one the request and the *)
(* decoding need, on both backends alike, unless the driver refuses that   *)
(* very one (or the feeder that it depends on): none is undone by a later  *)
(* one, and no resolution wraps around to zero or less.                    *)
SettingsInForce ==
  told = Len(SettingsSent) =>
    \A c \in Caps :
      \/ inForce[c] \in Wanted[c]
      \/ c \in unwilling
      \/ c = "AUTOFEED" /\ "FEEDERENABLED" \in unwilling
=============================================================================
