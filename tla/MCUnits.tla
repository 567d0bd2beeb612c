------------------------------- MODULE MCUnits -------------------------------
(***************************************************************************)
(* The parts that run by themselves: one of them is at work, the others     *)
(* stay in their initial state.                                            *)
(***************************************************************************)
EXTENDS CommandLine, MovingAverage, Crc32, Bme280, ModeButton

VARIABLE unit

units == <<unit, command_vars, average_vars, crc_vars, bme280_vars, button_vars>>

\* 0x00, 0xA5 and 0xFF
MCBytes == {{}, {0, 2, 5, 7}, 0 .. 7}

Init ==
    /\ unit \in {"command", "average", "crc", "bme280", "button"}
    /\ CommandLineInit /\ AverageInit /\ CrcInit /\ Bme280Init /\ ButtonInit
    /\ unit # "bme280" => ~ powered

RunCommand ==
    /\ unit = "command" /\ CommandLineNext
    /\ UNCHANGED <<unit, average_vars, crc_vars, bme280_vars, button_vars>>

RunAverage ==
    /\ unit = "average" /\ AverageNext
    /\ UNCHANGED <<unit, command_vars, crc_vars, bme280_vars, button_vars>>

RunCrc ==
    /\ unit = "crc" /\ CrcNext
    /\ UNCHANGED <<unit, command_vars, average_vars, bme280_vars, button_vars>>

RunBme280 ==
    /\ unit = "bme280" /\ Bme280Next
    /\ UNCHANGED <<unit, command_vars, average_vars, crc_vars, button_vars>>

RunButton ==
    /\ unit = "button" /\ ButtonNext
    /\ UNCHANGED <<unit, command_vars, average_vars, crc_vars, bme280_vars>>

Next == RunCommand \/ RunAverage \/ RunCrc \/ RunBme280 \/ RunButton

Spec == Init /\ [][Next]_units
=============================================================================
