------------------------------- MODULE Fat32 -------------------------------
(***************************************************************************)
(* Mounting a FAT32 volume, fs/fat32/core.c.  A device (external) holds a  *)
(* boot sector, which may be replaced by a format or a change of medium,   *)
(* and its read_sector may fail.  g_sector_buf, which keeps the last       *)
(* sector read, is only used within one call and left out.                 *)
(***************************************************************************)
EXTENDS Integers

CONSTANTS
    Devices,      \* media_device_t objects
    BootSectors,  \* [bps, spc, reserved, fats, spf, root]: fat32_bootsector_t
    LBA_WORD      \* 2^32: block numbers wrap

ASSUME Fat32Assumption == LBA_WORD \in Nat \ {0}

VARIABLE fat
\* The fields of fat: sector (device -> the boot sector on it), device (g_device
\* or NoDevice), ctx (g_ctx or NotMounted) and, as a history, from: the sector of
\* ctx.dev that the last successful mount read.

NoDevice == "none"
NotMounted == [mounted |-> FALSE]

Fat32Init ==
    fat \in [sector : [Devices -> BootSectors], device : {NoDevice}, ctx : {NotMounted}, from : {NotMounted}]

Fat32SetDevice(dev) == fat' = [fat EXCEPT !.device = dev]

\* g_ctx after a successful mount.
Geometry(dev, bs) ==
    [mounted |-> TRUE, dev |-> dev, spc |-> bs.spc, fats |-> bs.fats, spf |-> bs.spf,
     fat_begin |-> bs.reserved, cluster_begin |-> (bs.reserved + bs.fats * bs.spf) % LBA_WORD,
     root |-> bs.root]

\* Mutant: the device is noted before its boot sector is accepted.
Fat32Mount_Early(readable) ==
    LET bs == fat.sector[fat.device]
    IN  fat' = IF fat.device = NoDevice THEN fat
               ELSE IF ~readable \/ bs.bps # 512
               THEN [fat EXCEPT !.ctx = IF @.mounted THEN [@ EXCEPT !.dev = fat.device] ELSE @]
               ELSE [fat EXCEPT !.ctx = Geometry(fat.device, bs), !.from = bs]

\* fat32_mount: -1, -2 and -3 leave g_ctx as it was.
Fat32Mount(readable) ==
    LET bs == fat.sector[fat.device]
    IN  fat' = IF fat.device = NoDevice \/ ~readable \/ bs.bps # 512 THEN fat
               ELSE [fat EXCEPT !.ctx = Geometry(fat.device, bs), !.from = bs]

\* The medium is formatted or exchanged.
NewMedium(dev, bs) == fat' = [fat EXCEPT !.sector[dev] = bs]

Fat32Next ==
    \/ \E d \in Devices : Fat32SetDevice(d) \/ \E bs \in BootSectors : NewMedium(d, bs)
    \/ \E r \in BOOLEAN : Fat32Mount(r)

Fat32Spec == Fat32Init /\ [][Fat32Next]_fat

-----------------------------------------------------------------------------

\* Where the areas of a volume are: one after the other, without overlap.
Layout(bs) == [fat |-> bs.reserved, data |-> bs.reserved + bs.fats * bs.spf]

OneVolume ==
    /\ fat.ctx.mounted => fat'.ctx.mounted
    /\ fat'.ctx.mounted =>
         /\ fat'.ctx.fat_begin = Layout(fat'.from).fat
         /\ fat'.ctx.cluster_begin = Layout(fat'.from).data
         /\ fat'.ctx.root = fat'.from.root
    /\ fat'.ctx # fat.ctx =>
         fat'.ctx.dev = fat.device /\ fat'.from = fat.sector[fat.device] /\ fat'.from.bps = 512

\* What fat32_get_ctx hands out is the volume of one successful mount, all of
\* it: its areas are where that boot sector puts them and its device is one that
\* was mounted, although fat32_set_device and mounts that fail come in between
\* and leave the old volume mounted.  It takes volumes that do not reach the last
\* block number, beyond which cluster_begin_lba wraps.
ContextIsOneVolume == [][OneVolume]_fat
=============================================================================
