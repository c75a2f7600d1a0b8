------------------------ MODULE MCDeviceAudioIngress ------------------------
EXTENDS DeviceAudioIngress
=============================================================================
