------------------------------- MODULE Battery -------------------------------
(***************************************************************************)
(* BSADC::getValue and ZigbeeSensor::setBattery: the battery is measured   *)
(* over a divider by three, and its voltage (in units of 100 mV) and       *)
(* charge (in half percents, none at 3.5 V and full at 4.2 V) become two   *)
(* attributes, which are reported every minute whether they changed or     *)
(* not.  Both expressions cast the whole sum to uint8_t before they divide.*)
(***************************************************************************)
EXTENDS Integers

CONSTANT Readings   \* what the calibrated converter may give, in mV

VARIABLES
    reading,     \* auxiliary: the reading the attributes were made from, or None
    voltage,     \* ESP_ZB_ZCL_ATTR_POWER_CONFIG_BATTERY_VOLTAGE_ID
    percentage   \* ..._BATTERY_PERCENTAGE_REMAINING_ID

vars == <<reading, voltage, percentage>>

None == -1
Byte(x) == x % 256

\* createPowerCluster: nothing is known.
Init ==
    /\ reading = None
    /\ voltage = 255
    /\ percentage = 255

Voltage(mv) == Byte(mv * 3 + 50) \div 100
Percentage(mv) == (2 * Byte(mv * 3 - 3500)) \div 7

\* handleHeartbeat on the full hour; nothing changes when the converter fails.
SetBattery(mv) ==
    /\ reading' = mv
    /\ voltage' = Voltage(mv)
    /\ percentage' = Percentage(mv)

Next == \E mv \in Readings : SetBattery(mv)

Spec == Init /\ [][Next]_vars

-----------------------------------------------------------------------------
(***************************************************************************)
(* adc.cpp:48 "+ 50 makes rounding correct": the voltage attribute is the  *)
(* battery's voltage, rounded to the nearest 100 mV.                       *)
(***************************************************************************)
VoltageRounded ==
    reading # None => 100 * voltage - 50 <= 3 * reading /\ 3 * reading < 100 * voltage + 50
==============================================================================
